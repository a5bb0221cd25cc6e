-------------------------- MODULE OperationsProofs --------------------------
(***************************************************************************)
(* Proofs about what happens around the running system, part by part: for   *)
(* any bounds, any services with any settings, any number of commits, runs  *)
(* and edits, any notebooks, any pipeline delay up to the two seconds the   *)
(* pauses leave, and a demo history of any length up to the bound.          *)
(*                                                                          *)
(* Each part has an invariant that its own steps keep; Starts and Apart     *)
(* carry it over to the composition.                                        *)
(***************************************************************************)
EXTENDS Operations, Integers, FiniteSetTheorems, TLAPS

Single(s) == \A x, y \in s : x = y

LEMMA SingleCardinality ==
    ASSUME NEW s, Single(s) PROVE Cardinality(s) <= 1
<1>1. CASE s = {}
    BY <1>1, FS_EmptySet
<1>2. ASSUME NEW x \in s PROVE Cardinality(s) = 1
  <2>1. s = {x}
      BY DEF Single
  <2> QED
      BY <2>1, FS_Singleton
<1> QED
    BY <1>1, <1>2

\* Every step is one of each part's own, or leaves the part alone.
LEMMA Apart ==
    [OperationsNext]_all =>
        /\ [Next]_vars /\ [T!Next]_(T!vars) /\ [B!Next]_(B!vars) /\ [D!Next]_(D!vars)
        /\ [L!Next]_(L!vars) /\ [I!Next]_(I!vars) /\ [X!Next]_(X!vars)
<1> USE DEF training, dashboard, demoData, liveDemo, records, export
<1> SUFFICES ASSUME [OperationsNext]_all
             PROVE  /\ [Next]_vars /\ [T!Next]_(T!vars) /\ [B!Next]_(B!vars)
                    /\ [D!Next]_(D!vars) /\ [L!Next]_(L!vars) /\ [I!Next]_(I!vars)
                    /\ [X!Next]_(X!vars)
    OBVIOUS
<1>1. CASE OperationsNext
    BY <1>1, Zenon DEF OperationsNext, Startup, LiveDemo, vars, T!vars, B!vars, D!vars,
                       L!vars, I!vars, X!vars, L!script, L!robot, L!pipeline
<1>2. CASE UNCHANGED all
    BY <1>2 DEF all, vars, T!vars, B!vars, D!vars, L!vars, I!vars, X!vars,
                L!script, L!robot, L!pipeline
<1> QED
    BY <1>1, <1>2

\* Every part starts as it does alone.
LEMMA Starts ==
    OperationsInit => Init /\ T!Init /\ B!Init /\ D!Init /\ L!Init /\ I!Init /\ X!Init
  BY DEF OperationsInit

-----------------------------------------------------------------------------
(* How services start: ServiceStartup *)

Phases == {"trying", "connected", "reconnecting", "given up", "exited"}

\* An attempt that ends keeps the types, whatever it leads to.
LEMMA NextAttemptType ==
    ASSUME TypeOK, NEW s \in Services, NextAttempt(s)
    PROVE  /\ link' \in [Services -> Phases] /\ attempt' \in [Services -> 1 .. ATTEMPTS]
           /\ serving' \subseteq Services /\ met' \subseteq Services
<1>1. CASE attempt[s] < ATTEMPTS
  <2>1. attempt[s] + 1 \in 1 .. ATTEMPTS
    <3>1. attempt[s] \in 1 .. ATTEMPTS
        BY DEF TypeOK
    <3> QED
        BY <1>1, <3>1, StartupAssumption
  <2> QED
      BY <1>1, <2>1 DEF NextAttempt, Goes, TypeOK, Phases
<1>2. CASE ~(attempt[s] < ATTEMPTS)
    BY <1>2 DEF NextAttempt, GiveUp, Goes, TypeOK, Phases
<1> QED
    BY <1>1, <1>2

LEMMA TypeStep == TypeOK /\ [Next]_vars => TypeOK'
<1> SUFFICES ASSUME TypeOK, [Next]_vars PROVE TypeOK'
    OBVIOUS
<1>1. CASE BrokerStops
  <2>1. outages \in 0 .. MaxOutages /\ outages < MaxOutages /\ outages' = outages + 1
      BY <1>1 DEF BrokerStops, TypeOK
  <2>2. outages' \in 0 .. MaxOutages
      BY <2>1, StartupAssumption
  <2> QED
      BY <1>1, <2>2 DEF BrokerStops, TypeOK
<1>2. CASE BrokerStarts
    BY <1>2 DEF BrokerStarts, TypeOK
<1>3. ASSUME NEW s \in Services, Serve(s) \/ Connect(s) \/ LoseBroker(s) \/ Reconnect(s)
      PROVE  TypeOK'
    BY <1>3 DEF Serve, Connect, LoseBroker, Reconnect, Goes, TypeOK
<1>4. ASSUME NEW s \in Services, ConnectFails(s) PROVE TypeOK'
    BY <1>4, NextAttemptType DEF ConnectFails, TypeOK, Phases
<1>5. ASSUME NEW s \in Services, CallbackRaises(s) PROVE TypeOK'
  <2>1. faults' \in 0 .. MaxFaults
    <3>1. faults \in 0 .. MaxFaults /\ faults < MaxFaults /\ faults' = faults + 1
        BY <1>5 DEF CallbackRaises, TypeOK
    <3> QED
        BY <3>1, StartupAssumption
  <2> QED
      BY <1>5, <2>1, NextAttemptType DEF CallbackRaises, TypeOK, Phases
<1>6. ASSUME NEW s \in Services, Kill(s) PROVE TypeOK'
  <2>1. faults' \in 0 .. MaxFaults
    <3>1. faults \in 0 .. MaxFaults /\ faults < MaxFaults /\ faults' = faults + 1
        BY <1>6 DEF Kill, TypeOK
    <3> QED
        BY <3>1, StartupAssumption
  <2> QED
      BY <1>6, <2>1 DEF Kill, Goes, TypeOK
<1>7. ASSUME NEW s \in Services, Restart(s) PROVE TypeOK'
  <2>1. 1 \in 1 .. ATTEMPTS
      BY StartupAssumption
  <2> QED
      BY <1>7, <2>1 DEF Restart, Goes, TypeOK
<1>8. CASE UNCHANGED vars
    BY <1>8 DEF vars, TypeOK
<1> QED
    BY <1>1, <1>2, <1>3, <1>4, <1>5, <1>6, <1>7, <1>8 DEF Next, Runs

\* Who has been connected never tries again, unless it is a consumer: only a
\* consumer's main thread comes back to its attempts, from a callback.
MetInv == \A s \in met : /\ link[s] # "given up"
                         /\ s \notin Consumers => link[s] \in {"connected", "reconnecting"}

LEMMA StartupInit == Init => TypeOK /\ MetInv
<1>1. Init => TypeOK
    BY StartupAssumption DEF Init, TypeOK
<1>2. Init => MetInv
    BY DEF Init, MetInv
<1> QED
    BY <1>1, <1>2

\* The clients stay in the phases of the library and the counters in range.
THEOREM TypeCorrect == Spec => []TypeOK
<1> QED
    BY StartupInit, TypeStep, PTL DEF Spec

LEMMA MetStep == TypeOK /\ MetInv /\ [Next]_vars => MetInv'
<1> SUFFICES ASSUME TypeOK, MetInv, [Next]_vars, NEW t \in met'
             PROVE  /\ link'[t] # "given up"
                    /\ t \notin Consumers => link'[t] \in {"connected", "reconnecting"}
    BY DEF MetInv
<1>1. \A s \in Services : \A phase : Goes(s, phase) =>
          /\ link'[s] = phase
          /\ \A u \in Services : u # s => link'[u] = link[u]
    BY DEF Goes, TypeOK
<1>2. met \subseteq Services
    BY DEF TypeOK
<1>3. ASSUME NEW s \in Services, NextAttempt(s), link[s] = "trying" \/ s \in Consumers
      PROVE  /\ link'[t] # "given up"
             /\ t \notin Consumers => link'[t] \in {"connected", "reconnecting"}
  <2>1. CASE attempt[s] < ATTEMPTS
      BY <1>1, <1>2, <1>3, <2>1 DEF NextAttempt, MetInv
  <2>2. CASE ~(attempt[s] < ATTEMPTS) /\ s \in Consumers
      BY <1>1, <1>2, <2>2, <1>3 DEF NextAttempt, GiveUp, MetInv
  <2>3. CASE ~(attempt[s] < ATTEMPTS) /\ s \notin Consumers
      BY <1>1, <1>2, <2>3, <1>3 DEF NextAttempt, GiveUp, MetInv
  <2> QED
      BY <2>1, <2>2, <2>3
<1>4. ASSUME NEW s \in Services, ConnectFails(s) \/ CallbackRaises(s)
      PROVE  /\ link'[t] # "given up"
             /\ t \notin Consumers => link'[t] \in {"connected", "reconnecting"}
    BY <1>3, <1>4 DEF ConnectFails, CallbackRaises
<1>5. ASSUME NEW s \in Services,
             Connect(s) \/ LoseBroker(s) \/ Reconnect(s) \/ Kill(s) \/ Restart(s)
      PROVE  /\ link'[t] # "given up"
             /\ t \notin Consumers => link'[t] \in {"connected", "reconnecting"}
  <2>1. CASE Kill(s)
      BY <1>1, <1>2, <2>1 DEF Kill, MetInv
  <2>2. CASE Connect(s)
      BY <1>1, <1>2, <2>2 DEF Connect, MetInv
  <2>3. CASE LoseBroker(s) \/ Reconnect(s)
      BY <1>1, <1>2, <2>3 DEF LoseBroker, Reconnect, MetInv
  <2>4. CASE Restart(s)
      BY <1>1, <1>2, <2>4 DEF Restart, MetInv
  <2> QED
      BY <1>5, <2>1, <2>2, <2>3, <2>4
<1>6. CASE UNCHANGED <<link, met>>
    BY <1>6 DEF MetInv
<1> QED
    BY <1>4, <1>5, <1>6 DEF Next, Runs, BrokerStops, BrokerStarts, Serve, vars

\* A process that was connected once is never left deaf by an outage, however
\* long and often the broker is away.
THEOREM OutagesCorrect == Spec => []OutagesAreSurvived
<1>1. MetInv => OutagesAreSurvived
    BY DEF MetInv, OutagesAreSurvived
<1> QED
    BY <1>1, StartupInit, MetStep, TypeCorrect, PTL DEF Spec

-----------------------------------------------------------------------------
(* How models are trained: ModelTraining *)

\* What a build has saved and measured after its steps.
Saved(n) ==
    (IF n > 1 THEN {"motor_health_clf", "dirt_level_clf"} ELSE {})
    \cup (IF n > 2 THEN {"health_state_clf", "rul_regressor"} ELSE {})
    \cup (IF n > 3 THEN {"anomaly_detector"} ELSE {})

Builds ==
    [code : 1..MaxCommits, step : 1..4, models : T!Files, results : SUBSET T!Measures]
Images == [code : 1..MaxCommits, models : T!Files]
Processes ==
    [phase : {"down", "starting", "serving"}, loaded : BOOLEAN, globals : T!Files,
     failed : BOOLEAN]

\* Passed: all five models are the commit's own, and it met the gates.
Passed(i) ==
    /\ i.code <= Len(quality)
    /\ \A m \in T!Models : i.models[m] = i.code
    /\ T!Gates \subseteq quality[i.code]

TrainingInv ==
    /\ quality \in Seq(Qualities) /\ Len(quality) <= MaxCommits
    /\ builder \subseteq Builds /\ image \subseteq Images /\ container \subseteq Images
    /\ process \in Processes /\ starts \in 0..MaxStarts
    /\ Single(builder) /\ Single(image) /\ Single(container)
    /\ \A b \in builder :
          /\ b.code <= Len(quality) /\ b.results \subseteq quality[b.code]
          /\ \A m \in Saved(b.step) : b.models[m] = b.code
    /\ \A i \in image \cup container : Passed(i)
    /\ process.loaded =>
          \A c \in container : \A m \in T!Models : process.globals[m] = c.code

LEMMA TrainingInit == T!Init => TrainingInv
  BY TrainingAssumption DEF T!Init, TrainingInv, Single, Processes, T!Down, T!NoFiles, T!Files

LEMMA PassedStays ==
    ASSUME NEW q \in Qualities, quality \in Seq(Qualities),
           quality' = Append(quality, q), NEW i \in Images, Passed(i)
    PROVE  Passed(i)'
  BY DEF Passed, Images, T!Models, T!Gates

LEMMA TrainsStep ==
    ASSUME TrainingInv, NEW b \in builder, NEW n \in 1..3, NEW saved, NEW measured,
           measured \subseteq T!Measures, saved \subseteq T!Models,
           Saved(n + 1) \subseteq Saved(n) \cup saved, T!Trains(b, n, saved, measured)
    PROVE  TrainingInv'
<1>1. b \in Builds /\ b.step = n /\ b.code \in 0..MaxCommits /\ b.models \in T!Files
  <2>1. b \in Builds /\ b.step = n
      BY DEF TrainingInv, T!Trains
  <2> QED
      BY <2>1, TrainingAssumption DEF Builds
<1> DEFINE models == [m \in T!Models |-> IF m \in saved THEN b.code ELSE b.models[m]]
           results == b.results \cup (quality[b.code] \cap measured)
           trained == [b EXCEPT !.step = n + 1, !.models = models, !.results = results]
<1>2. builder' = {trained}
    BY <1>1 DEF T!Trains
<1>7. models \in T!Files
    BY <1>1 DEF T!Files
<1>3. results \in SUBSET T!Measures /\ results \subseteq quality[b.code]
    BY <1>1 DEF Builds, TrainingInv
<1>4. \A m \in T!Models : models[m] = IF m \in saved THEN b.code ELSE b.models[m]
    OBVIOUS
<1> HIDE DEF models, results
<1>5. /\ trained.code = b.code /\ trained.step = n + 1
      /\ trained.models = models /\ trained.results = results /\ trained \in Builds
  <2>1. n + 1 \in 1..4
      OBVIOUS
  <2> QED
      BY <1>1, <1>7, <1>3, <2>1 DEF Builds
<1> HIDE DEF trained
<1>6. /\ trained.code <= Len(quality) /\ trained.results \subseteq quality[trained.code]
      /\ \A m \in Saved(trained.step) : trained.models[m] = trained.code
    BY <1>1, <1>3, <1>4, <1>5 DEF TrainingInv, Saved, T!Models
<1> QED
    BY <1>2, <1>5, <1>6 DEF TrainingInv, T!Trains, Single, Passed

LEMMA TrainingStep == TrainingInv /\ [T!Next]_(T!vars) => TrainingInv'
<1> SUFFICES ASSUME TrainingInv, [T!Next]_(T!vars) PROVE TrainingInv'
    OBVIOUS
<1>1. ASSUME NEW q \in Qualities, T!Push(q) PROVE TrainingInv'
  <2>1. /\ quality' \in Seq(Qualities) /\ Len(quality') = Len(quality) + 1
        /\ Len(quality') <= MaxCommits
        /\ \A k \in 1..Len(quality) : quality'[k] = quality[k]
      BY <1>1, TrainingAssumption DEF TrainingInv, T!Push
  <2>2. \A i \in image \cup container : Passed(i)'
      BY <1>1, PassedStays DEF TrainingInv, T!Push
  <2>3. \A b \in builder : b.code \in 1..Len(quality)
      BY DEF TrainingInv, Builds
  <2> QED
      BY <1>1, <2>1, <2>2, <2>3 DEF TrainingInv, T!Push
<1>2. CASE T!StartBuild
  <2> DEFINE b == [code |-> Len(quality), step |-> 1, models |-> T!NoFiles, results |-> {}]
  <2>1. b \in Builds /\ Saved(1) = {}
    <3>1. Len(quality) \in 1..MaxCommits
        BY <1>2, TrainingAssumption DEF T!StartBuild, TrainingInv
    <3>2. T!NoFiles \in T!Files
        BY TrainingAssumption DEF T!NoFiles, T!Files
    <3> QED
        BY <3>1, <3>2 DEF Builds, Saved
  <2> QED
      BY <1>2, <2>1 DEF T!StartBuild, TrainingInv, Single, Passed
<1>3. ASSUME NEW b \in builder,
             T!TrainAndSave(b) \/ T!TrainAndSaveHw4(b) \/ T!TrainAndSaveAnomaly(b)
      PROVE  TrainingInv'
    BY <1>3, TrainsStep
       DEF T!TrainAndSave, T!TrainAndSaveHw4, T!TrainAndSaveAnomaly, Saved, T!Models,
           T!Measures
<1>4. ASSUME NEW b \in builder, T!FinishBuild(b) PROVE TrainingInv'
  <2>1. CASE T!ExitStatus(b) = 0
    <3>1. b.step = 4 /\ T!Gates \subseteq b.results
        BY <2>1 DEF T!ExitStatus
    <3>2. Saved(4) = T!Models
        BY DEF Saved, T!Models
    <3> DEFINE i == [code |-> b.code, models |-> b.models]
    <3>3. i \in Images /\ Passed(i)
        BY <3>1, <3>2 DEF TrainingInv, Builds, Images, Passed
    <3> QED
        BY <1>4, <2>1, <3>3 DEF T!FinishBuild, TrainingInv, Single, Passed
  <2>2. CASE T!ExitStatus(b) # 0
      BY <1>4, <2>2 DEF T!FinishBuild, TrainingInv, Single, Passed
  <2> QED
      BY <2>1, <2>2
<1>5. T!Starts => /\ process' \in Processes /\ process'.loaded = FALSE
                  /\ starts' \in 0..MaxStarts
  <2>1. T!Down \in Processes /\ T!Down.loaded = FALSE
      BY TrainingAssumption DEF T!Down, Processes, T!NoFiles, T!Files
  <2>2. \A p \in Processes : /\ [p EXCEPT !.phase = "starting"] \in Processes
                             /\ [p EXCEPT !.phase = "starting"].loaded = p.loaded
      BY DEF Processes
  <2> HIDE DEF Processes
  <2> QED
      BY <2>1, <2>2, TrainingAssumption DEF T!Starts, TrainingInv
<1>6. ASSUME NEW i \in image, T!Up(i) PROVE TrainingInv'
    BY <1>5, <1>6 DEF T!Up, TrainingInv, Single, Passed
<1>7. CASE T!Restart
    BY <1>5, <1>7 DEF T!Restart, TrainingInv, Passed
<1>8. ASSUME NEW c \in container, T!LoadModels(c) PROVE TrainingInv'
  <2>1. PICK n \in 0..5 :
          process' = [phase |-> "serving", loaded |-> n = 5,
                      globals |-> [m \in T!Models |->
                          IF \E i \in 1..n : T!Order[i] = m THEN c.models[m] ELSE 0],
                      failed |-> /\ n < 5
                                 /\ \A m \in T!Models : c.models[m] # 0]
    <3>1. Len(T!Order) = 5
        BY DEF T!Order
    <3>2. PICK n \in 0..(IF \A m \in T!Models : c.models[m] # 0 THEN Len(T!Order) ELSE 0) :
              process' = [phase |-> "serving", loaded |-> n = Len(T!Order),
                          globals |-> [m \in T!Models |->
                              IF \E i \in 1..n : T!Order[i] = m THEN c.models[m] ELSE 0],
                          failed |-> /\ n < Len(T!Order)
                                     /\ \A m \in T!Models : c.models[m] # 0]
        BY <1>8 DEF T!LoadModels
    <3>3. n \in 0..5
        BY <3>1, <3>2
    <3> QED
        BY <3>1, <3>2, <3>3
  <2>2. process' \in Processes
    <3>1. c.models \in T!Files
        BY DEF TrainingInv, Images
    <3> QED
        BY <2>1, <3>1, TrainingAssumption DEF Processes, T!Files
  <2>3. ASSUME process'.loaded, NEW m \in T!Models PROVE process'.globals[m] = c.code
    <3>1. n = 5
        BY <2>1, <2>3
    <3>2. \E i \in 1..5 : T!Order[i] = m
        BY DEF T!Order, T!Models
    <3>3. process'.globals[m] = c.models[m]
        BY <2>1, <3>1, <3>2
    <3> QED
        BY <3>3 DEF TrainingInv, Passed
  <2> QED
      BY <1>8, <2>2, <2>3 DEF T!LoadModels, TrainingInv, Single, Passed
<1>9. CASE UNCHANGED T!vars
    BY <1>9 DEF T!vars, TrainingInv, Passed
<1> QED
    BY <1>1, <1>2, <1>3, <1>4, <1>6, <1>7, <1>8, <1>9 DEF T!Next

LEMMA TrainingImplies == TrainingInv => T!TypeOK /\ T!ServesWhatPassed
<1> SUFFICES ASSUME TrainingInv PROVE T!TypeOK /\ T!ServesWhatPassed
    OBVIOUS
<1>1. \A s \in {builder, image, container} : T!Cardinality(s) <= 1
    <2>1. \A s : T!Cardinality(s) = Cardinality(s)
      BY Zenon DEF T!Cardinality, Cardinality
  <2> QED
      BY <2>1, SingleCardinality DEF TrainingInv
<1>2. T!ServesWhatPassed
    BY DEF TrainingInv, T!ServesWhatPassed, Passed, T!Gates
<1>3. \A b \in builder : /\ b.code \in 1..Len(quality) /\ b.step \in 1..4
                          /\ b.models \in T!Files /\ b.results \subseteq T!Measures
    BY DEF TrainingInv, Builds
<1>4. \A i \in image \cup container : i.code \in 1..Len(quality) /\ i.models \in T!Files
    BY DEF TrainingInv, Images, Passed
<1>5. /\ process.phase \in {"down", "starting", "serving"}
      /\ process.loaded \in BOOLEAN /\ process.globals \in T!Files
    BY DEF TrainingInv, Processes
<1> QED
    BY <1>1, <1>2, <1>3, <1>4, <1>5 DEF TrainingInv, T!TypeOK

-----------------------------------------------------------------------------
(* How the dashboard is set up: DashboardSetup *)

Boards == [by : Turns \cup Others, cells : 0..11]
Busy(r) == run_pc[r] \in {"delete", "create", "add"}

\* Untroubled, one run is at work at most, and it knows of every dashboard of its
\* name until it has deleted them.
Untroubled ==
    /\ \A q, r \in Turns : Busy(q) /\ Busy(r) => q = r
    /\ Single(B!Own)
    /\ \A r \in Turns : run_pc[r] = "delete" => \A b \in B!Own : b.by \in found[r]
    /\ \A r \in Turns : run_pc[r] = "create" => B!Own = {}

DashboardInv ==
    /\ boards \subseteq Boards
    /\ run_pc \in [Turns -> {"idle", "delete", "create", "add", "done", "died"}]
    /\ found \in [Turns -> SUBSET Turns] /\ troubled \in BOOLEAN
    /\ \A o \in Others : [by |-> o, cells |-> 1] \in boards
    /\ \A b \in B!Own : /\ run_pc[b.by] \in {"add", "done", "died"}
                        /\ run_pc[b.by] = "add" => b.cells < 11
    /\ \A b, c \in B!Own : b.by = c.by => b = c
    /\ ~troubled => Untroubled

LEMMA DashboardInit == B!Init => DashboardInv
<1> SUFFICES ASSUME B!Init PROVE DashboardInv
    OBVIOUS
<1>1. boards \subseteq Boards /\ \A o \in Others : [by |-> o, cells |-> 1] \in boards
    BY DEF B!Init, Boards
<1>2. B!Own = {}
    BY DashboardAssumption DEF B!Init, B!Own
<1> QED
    BY <1>1, <1>2 DEF B!Init, DashboardInv, Untroubled, Single, Busy

\* A step of a run's own counter.
LEMMA Gone ==
    ASSUME DashboardInv, NEW r \in Turns, NEW next_step, B!Goes(r, next_step)
    PROVE  /\ run_pc'[r] = next_step /\ \A q \in Turns \ {r} : run_pc'[q] = run_pc[q]
           /\ run_pc' = [run_pc EXCEPT ![r] = next_step]
  BY DEF B!Goes, DashboardInv

LEMMA DashboardStep == DashboardInv /\ [B!Next]_(B!vars) => DashboardInv'
<1> SUFFICES ASSUME DashboardInv, [B!Next]_(B!vars) PROVE DashboardInv'
    OBVIOUS
<1>1. ASSUME NEW r \in Turns, B!List(r) PROVE DashboardInv'
  <2>1. run_pc'[r] = "delete" /\ \A q \in Turns \ {r} : run_pc'[q] = run_pc[q]
      BY <1>1, Gone DEF B!List
  <2>2. PICK listed \in SUBSET boards :
          /\ found' = [found EXCEPT ![r] = {b.by : b \in listed} \cap Turns]
          /\ troubled' = (\/ troubled \/ listed # boards
                          \/ \E q \in Turns \ {r} : run_pc[q] \in {"delete", "create", "add"})
      BY <1>1 DEF B!List
  <2>3. boards' = boards /\ B!Own' = B!Own /\ run_pc[r] = "idle"
      BY <1>1 DEF B!List, B!Own
  <2>4. run_pc' \in [Turns -> {"idle", "delete", "create", "add", "done", "died"}]
      BY <1>1, Gone DEF B!List, DashboardInv
  <2>5. found' \in [Turns -> SUBSET Turns] /\ troubled' \in BOOLEAN
      BY <2>2 DEF DashboardInv
  <2>6. ~troubled' => Untroubled'
    <3> SUFFICES ASSUME ~troubled' PROVE Untroubled'
        OBVIOUS
    <3>1. ~troubled /\ listed = boards /\ \A q \in Turns \ {r} : ~Busy(q)
        BY <2>2 DEF Busy
    <3>2. \A b \in B!Own : b.by \in found'[r]
        BY <2>2, <3>1 DEF B!Own, DashboardInv
    <3> QED
        BY <2>1, <2>3, <3>1, <3>2 DEF Untroubled, DashboardInv, Busy, Single
  <2> QED
      BY <2>1, <2>3, <2>4, <2>5, <2>6 DEF DashboardInv, B!Own
<1>2. ASSUME NEW r \in Turns, NEW d \in Turns \cup Others, B!Delete(r, d) PROVE DashboardInv'
  <2>1. run_pc' = run_pc /\ run_pc[r] = "delete" /\ d \in Turns
        /\ found' = [found EXCEPT ![r] = @ \ {d}]
      BY <1>2 DEF B!Delete, DashboardInv
  <2>2. CASE boards' = {b \in boards : b.by # d} /\ UNCHANGED troubled
    <3>1. B!Own' = {b \in B!Own : b.by # d}
        BY <2>2 DEF B!Own
    <3>2. \A o \in Others : [by |-> o, cells |-> 1] \in boards'
        BY <2>1, <2>2, DashboardAssumption DEF DashboardInv
    <3>3. ~troubled' => Untroubled'
        BY <2>1, <2>2, <3>1 DEF Untroubled, DashboardInv, Busy, Single
    <3> QED
        BY <2>1, <2>2, <3>1, <3>2, <3>3 DEF DashboardInv
  <2>3. CASE troubled' = TRUE /\ UNCHANGED boards
      BY <2>1, <2>3 DEF DashboardInv, B!Own
  <2> QED
      BY <1>2, <2>2, <2>3 DEF B!Delete
<1>3. ASSUME NEW r \in Turns, B!Listed(r) PROVE DashboardInv'
  <2>1. /\ run_pc'[r] = "create" /\ \A q \in Turns \ {r} : run_pc'[q] = run_pc[q]
        /\ run_pc' = [run_pc EXCEPT ![r] = "create"]
      BY <1>3, Gone DEF B!Listed
  <2>2. B!Own' = B!Own /\ run_pc[r] = "delete" /\ found[r] = {}
      BY <1>3 DEF B!Listed, B!Own
  <2>3. ~troubled => Untroubled'
      BY <1>3, <2>1, <2>2 DEF B!Listed, Untroubled, DashboardInv, Busy, Single
  <2> QED
      BY <1>3, <2>1, <2>2, <2>3 DEF B!Listed, DashboardInv, B!Own
<1>4. ASSUME NEW r \in Turns, B!Create(r) PROVE DashboardInv'
  <2>1. /\ run_pc'[r] = "add" /\ \A q \in Turns \ {r} : run_pc'[q] = run_pc[q]
        /\ run_pc' = [run_pc EXCEPT ![r] = "add"]
      BY <1>4, Gone DEF B!Create
  <2> DEFINE new == [by |-> r, cells |-> 0]
  <2>2. /\ boards' = boards \cup {new} /\ new \in Boards /\ new.by = r /\ new.cells = 0
        /\ run_pc[r] = "create"
      BY <1>4 DEF B!Create, Boards
  <2> HIDE DEF new
  <2>3. B!Own' = B!Own \cup {new} /\ \A b \in B!Own : b.by # r
      BY <2>2 DEF B!Own, DashboardInv
  <2>4. ~troubled => Untroubled'
      BY <1>4, <2>1, <2>2, <2>3 DEF B!Create, Untroubled, DashboardInv, Busy, Single
  <2> QED
      BY <1>4, <2>1, <2>2, <2>3, <2>4 DEF B!Create, DashboardInv
<1>5. ASSUME NEW r \in Turns, B!AddCell(r) PROVE DashboardInv'
  <2>1. PICK b \in boards :
          /\ b.by = r /\ boards' = (boards \ {b}) \cup {[b EXCEPT !.cells = @ + 1]}
          /\ IF b.cells + 1 = 11 THEN B!Goes(r, "done") ELSE UNCHANGED run_pc
      BY <1>5 DEF B!AddCell, B!CELLS
  <2> DEFINE more == [b EXCEPT !.cells = @ + 1]
  <2>2. b \in B!Own /\ run_pc[r] = "add" /\ b.cells \in 0..10
      BY <1>5, <2>1 DEF B!AddCell, B!Own, DashboardInv, Boards
  <2>3. more.by = r /\ more.cells = b.cells + 1 /\ more \in Boards
      BY <2>1, <2>2 DEF DashboardInv, Boards
  <2>0. boards' = (boards \ {b}) \cup {more} /\ b.by = r /\ b \in boards
      BY <2>1
  <2> HIDE DEF more
  <2>4. B!Own' = (B!Own \ {b}) \cup {more} /\ \A c \in B!Own \ {b} : c.by # r
    <3>1. B!Own' = (B!Own \ {b}) \cup {more}
        BY <2>0, <2>3 DEF B!Own
    <3>2. \A c \in B!Own \ {b} : c.by # r
        BY <2>0, <2>2 DEF DashboardInv
    <3> QED
        BY <3>1, <3>2
  <2>5. \A o \in Others : [by |-> o, cells |-> 1] \in boards'
    <3> SUFFICES ASSUME NEW o \in Others PROVE [by |-> o, cells |-> 1] \in boards'
        OBVIOUS
    <3>1. o # r /\ [by |-> o, cells |-> 1] \in boards
        BY DashboardAssumption DEF DashboardInv
    <3>2. [by |-> o, cells |-> 1].by = o
        OBVIOUS
    <3> QED
        BY <2>0, <3>1, <3>2
  <2>6. /\ run_pc' \in [Turns -> {"idle", "delete", "create", "add", "done", "died"}]
        /\ \A q \in Turns \ {r} : run_pc'[q] = run_pc[q]
        /\ run_pc'[r] = IF more.cells = 11 THEN "done" ELSE "add"
      BY <2>1, <2>2, <2>3, Gone DEF DashboardInv
  <2>7. ~troubled => Untroubled'
      BY <1>5, <2>2, <2>3, <2>4, <2>6 DEF B!AddCell, Untroubled, DashboardInv, Busy, Single
  <2>8. \A c \in B!Own' : /\ run_pc'[c.by] \in {"add", "done", "died"}
                          /\ run_pc'[c.by] = "add" => c.cells < 11
    <3>1. more.cells <= 11 /\ more.cells \in Nat
        BY <2>2, <2>3
    <3>2. \A c \in B!Own \ {b} : c.by \in Turns \ {r}
        BY <2>4 DEF B!Own
    <3> QED
        BY <2>3, <2>4, <2>6, <3>1, <3>2 DEF DashboardInv
  <2>9. boards' \subseteq Boards /\ \A c, d \in B!Own' : c.by = d.by => c = d
    <3>1. boards' \subseteq Boards
        BY <2>0, <2>3 DEF DashboardInv
    <3>2. \A c, d \in B!Own' : c.by = d.by => c = d
        BY <2>3, <2>4 DEF DashboardInv
    <3> QED
        BY <3>1, <3>2
  <2> QED
      BY <1>5, <2>5, <2>6, <2>7, <2>8, <2>9 DEF B!AddCell, DashboardInv
<1>6. ASSUME NEW r \in Turns, B!Dies(r) PROVE DashboardInv'
  <2>1. /\ run_pc'[r] = "died" /\ \A q \in Turns \ {r} : run_pc'[q] = run_pc[q]
        /\ run_pc' = [run_pc EXCEPT ![r] = "died"]
      BY <1>6, Gone DEF B!Dies
  <2>2. ~troubled => Untroubled'
      BY <1>6, <2>1 DEF B!Dies, Untroubled, DashboardInv, Busy, Single, B!Own
  <2> QED
      BY <1>6, <2>1, <2>2 DEF B!Dies, DashboardInv, B!Own
<1>7. CASE UNCHANGED B!vars
    BY <1>7 DEF B!vars, DashboardInv, Untroubled, Busy, B!Own
<1> QED
    BY <1>1, <1>2, <1>3, <1>4, <1>5, <1>6, <1>7 DEF B!Next

LEMMA DashboardImplies == DashboardInv => B!TypeOK /\ B!OneAfterAnother
<1> SUFFICES ASSUME DashboardInv PROVE B!TypeOK /\ B!OneAfterAnother
    OBVIOUS
<1>1. ~troubled => B!Cardinality(B!Own) <= 1
  <2>1. B!Cardinality(B!Own) = Cardinality(B!Own)
      BY Zenon DEF B!Cardinality, Cardinality
  <2> QED
      BY <2>1, SingleCardinality DEF DashboardInv, Untroubled
<1>2. \A b \in boards : b.by \in Turns \cup Others /\ b.cells \in 0..11
    BY DEF DashboardInv, Boards
<1> QED
    BY <1>1, <1>2 DEF DashboardInv, B!TypeOK, B!OneAfterAnother, B!CELLS

-----------------------------------------------------------------------------
(* How the history is invented: DemoData *)

LEMMA MinMax ==
    ASSUME NEW a \in Int, NEW b \in Int
    PROVE  /\ D!Min({a, b}) \in Int /\ D!Min({a, b}) <= b
           /\ D!Max({a, b}) \in Int /\ D!Max({a, b}) >= a
<1>1. D!Min({a, b}) \in {a, b} /\ \A y \in {a, b} : D!Min({a, b}) <= y
  <2>1. \E x \in {a, b} : \A y \in {a, b} : x <= y
      OBVIOUS
  <2> QED
      BY <2>1, Zenon DEF D!Min
<1>2. D!Max({a, b}) \in {a, b} /\ \A y \in {a, b} : D!Max({a, b}) >= y
  <2>1. \E x \in {a, b} : \A y \in {a, b} : x >= y
      OBVIOUS
  <2> QED
      BY <2>1, Zenon DEF D!Max
<1> QED
    BY <1>1, <1>2

LEMMA Invented ==
    ASSUME NEW s \in 0..N - 1
    PROVE  LET t == D!TelemetryAt(s)
           IN  /\ t.battery_soc \in Int /\ t.battery_soc >= 60
               /\ t.motor_temperature_c \in Int /\ t.motor_temperature_c <= 70
               /\ t.motor_current_a \in {8, 13}
               /\ t.water_level_pct \in Int /\ t.water_level_pct >= 20
               /\ ~t.bumper_active /\ t.mode = "CLEANING" /\ t.coverage = D!Coverage(s)
               /\ t.obstacle_cm = IF s % 90 = 45 THEN 15 ELSE 150
<1> DEFINE charge == (100000 - 22 * s) \div 1000
           heat == (4 * s) \div 100
           water == (100000 - 8 * s) \div 1000
<1>1. s \in Nat /\ s < 1000 /\ charge \in Int /\ heat \in Int /\ heat <= 40 /\ water \in Int
    BY DemoAssumption
<1>2. D!Max({60, charge}) >= 60 /\ D!Max({60, charge}) \in Int
  <2> HIDE DEF charge
  <2>1. 60 \in Int /\ charge \in Int
      BY <1>1
  <2> QED
      BY <2>1, MinMax, Zenon
<1>3. D!Max({20, water}) >= 20 /\ D!Max({20, water}) \in Int
  <2> HIDE DEF water
  <2>1. 20 \in Int /\ water \in Int
      BY <1>1
  <2> QED
      BY <2>1, MinMax, Zenon
<1>4. 30 + D!Min({45, heat}) <= 70 /\ 30 + D!Min({45, heat}) \in Int
  <2> HIDE DEF heat
  <2>1. 45 \in Int /\ heat \in Int
      BY <1>1
  <2>2. D!Min({45, heat}) <= heat /\ D!Min({45, heat}) \in Int
      BY <2>1, MinMax, Zenon
  <2> QED
      BY <1>1, <2>2
<1> QED
    BY <1>2, <1>3, <1>4 DEF D!TelemetryAt

LEMMA Labels ==
    ASSUME NEW s \in 0..N - 1
    PROVE  LET t == D!TelemetryAt(s)
               l == D!StateAt(s)
           IN  /\ l.safety_state = D!SafetyState(t) /\ l.battery_state = D!BatteryState(t)
               /\ l.motor_health = D!MotorHealth(t) /\ l.mission_state = D!MissionState(t)
               /\ l.alarm_count = D!Cardinality(D!Alarms(t))
<1> DEFINE t == D!TelemetryAt(s)
           l == D!StateAt(s)
<1>1. /\ t.battery_soc \in Int /\ t.battery_soc >= 60
      /\ t.motor_temperature_c \in Int /\ t.motor_temperature_c <= 70
      /\ t.motor_current_a \in {8, 13}
      /\ t.water_level_pct \in Int /\ t.water_level_pct >= 20
      /\ ~t.bumper_active /\ t.mode = "CLEANING" /\ t.coverage = D!Coverage(s)
      /\ t.obstacle_cm = IF s % 90 = 45 THEN 15 ELSE 150
    BY Invented
<1>2. l = [safety_state |-> IF s % 90 = 45 THEN "EMERGENCY" ELSE "SAFE",
           battery_state |-> IF t.battery_soc < 10 THEN "CRITICAL"
                             ELSE IF t.battery_soc < 20 THEN "LOW" ELSE "NORMAL",
           motor_health |-> IF t.motor_current_a > 25 THEN "HIGH_LOAD" ELSE "NORMAL",
           mission_state |-> IF D!Coverage(s) >= 90 THEN "COMPLETED" ELSE "RUNNING",
           alarm_count |-> IF s % 90 = 45 THEN 1 ELSE 0]
    BY DEF D!StateAt, D!Emergency
<1> HIDE DEF t
<1>3. /\ l.safety_state = IF s % 90 = 45 THEN "EMERGENCY" ELSE "SAFE"
      /\ l.battery_state = "NORMAL" /\ l.motor_health = "NORMAL"
      /\ l.mission_state = IF D!Coverage(s) >= 90 THEN "COMPLETED" ELSE "RUNNING"
      /\ l.alarm_count = IF s % 90 = 45 THEN 1 ELSE 0
    BY <1>1, <1>2
<1>4. /\ D!SafetyState(t) = IF s % 90 = 45 THEN "EMERGENCY" ELSE "SAFE"
      /\ D!BatteryState(t) = "NORMAL" /\ D!MotorHealth(t) = "NORMAL"
    BY <1>1 DEF D!SafetyState, D!BatteryState, D!MotorHealth, D!Band
<1>5. D!CriticalAlarms(t) = {}
    BY <1>4 DEF D!CriticalAlarms
<1>6. D!MissionState(t) = IF D!Coverage(s) >= 90 THEN "COMPLETED" ELSE "RUNNING"
    BY <1>1, <1>4, <1>5 DEF D!MissionState, D!OperationMode
<1>7. D!Alarms(t) = IF s % 90 = 45 THEN {"OBSTACLE_EMERGENCY"} ELSE {}
    BY <1>1, <1>4, <1>5 DEF D!Alarms
<1>8. D!Cardinality(D!Alarms(t)) = IF s % 90 = 45 THEN 1 ELSE 0
  <2>1. \A a : D!Cardinality(a) = Cardinality(a)
      BY Zenon DEF D!Cardinality, Cardinality
  <2> QED
      BY <1>7, <2>1, FS_EmptySet, FS_Singleton
<1> QED
    BY <1>3, <1>4, <1>6, <1>8 DEF t

\* What is stored is written in the order of the three measurements, and the
\* batch that is being written is all that any of them lacks.
DemoInv ==
    /\ second \in 0..N /\ batch \subseteq 0..(second - 1)
    /\ next \in D!Measurements \cup {"none"} /\ run_status \in {"running", "failed", "done"}
    /\ points \in [D!Measurements -> SUBSET (0..(second - 1))]
    /\ points["robot_prediction"] \subseteq points["robot_state"]
    /\ points["robot_state"] \subseteq points["robot_telemetry"]
    /\ points["robot_telemetry"] \ points["robot_prediction"] \subseteq batch
    /\ next \in {"robot_state", "robot_prediction"} => batch \subseteq points["robot_telemetry"]
    /\ next = "robot_prediction" => batch \subseteq points["robot_state"]

LEMMA DemoInit == D!Init => DemoInv
  BY DemoAssumption DEF D!Init, DemoInv, D!Measurements

\* Writing the batch, or failing to when it is stored all the same.
LEMMA WrittenTyped ==
    ASSUME DemoInv, NEW m \in D!Measurements, next = m,
           points' = [points EXCEPT ![m] = @ \cup batch]
    PROVE  /\ points' \in [D!Measurements -> SUBSET (0..(second - 1))]
           /\ points'["robot_prediction"] \subseteq points'["robot_state"]
           /\ points'["robot_state"] \subseteq points'["robot_telemetry"]
           /\ points'["robot_telemetry"] \ points'["robot_prediction"] \subseteq batch
           /\ batch \subseteq points'["robot_telemetry"]
           /\ m # "robot_telemetry" => batch \subseteq points'["robot_state"]
           /\ m = "robot_prediction" => points'["robot_telemetry"] = points'["robot_prediction"]
<1>1. /\ points'[m] = points[m] \cup batch
      /\ \A k \in D!Measurements \ {m} : points'[k] = points[k]
      /\ points' \in [D!Measurements -> SUBSET (0..(second - 1))]
    BY DEF DemoInv
<1>2. CASE m = "robot_telemetry"
    BY <1>1, <1>2 DEF DemoInv, D!Measurements
<1>3. CASE m = "robot_state"
    BY <1>1, <1>3 DEF DemoInv, D!Measurements
<1>4. CASE m = "robot_prediction"
    BY <1>1, <1>4 DEF DemoInv, D!Measurements
<1> QED
    BY <1>2, <1>3, <1>4 DEF D!Measurements

LEMMA DemoStep == DemoInv /\ [D!Next]_(D!vars) => DemoInv'
<1> SUFFICES ASSUME DemoInv, [D!Next]_(D!vars) PROVE DemoInv'
    OBVIOUS
<1>1. CASE D!MakePoint
  <2>1. /\ second' = second + 1 /\ batch' = batch \cup {second} /\ UNCHANGED <<points, run_status>>
        /\ next' \in {"robot_telemetry", "none"} /\ second \in 0..N - 1
      BY <1>1, DemoAssumption DEF D!MakePoint, DemoInv
  <2>2. second' \in 0..N /\ 0..(second' - 1) = 0..second /\ 0..(second - 1) \subseteq 0..second
      BY <2>1, DemoAssumption
  <2>3. points' \in [D!Measurements -> SUBSET (0..(second' - 1))]
      BY <2>1, <2>2 DEF DemoInv
  <2>4. batch' \subseteq 0..(second' - 1)
      BY <2>1, <2>2 DEF DemoInv
  <2> QED
      BY <2>1, <2>2, <2>3, <2>4 DEF DemoInv, D!Measurements
<1>2. CASE D!LastBatch
    BY <1>2 DEF D!LastBatch, DemoInv, D!Measurements
<1>3. CASE D!Close
    BY <1>3 DEF D!Close, DemoInv
<1>4. ASSUME NEW m \in D!Measurements, D!WriteBatch(m) PROVE DemoInv'
  <2>1. /\ next = m /\ points' = [points EXCEPT ![m] = @ \cup batch]
        /\ UNCHANGED <<second, run_status>>
        /\ batch' = IF m = "robot_prediction" THEN {} ELSE batch
        /\ next' = IF m = "robot_telemetry" THEN "robot_state"
                   ELSE IF m = "robot_state" THEN "robot_prediction" ELSE "none"
      BY <1>4 DEF D!WriteBatch, D!Measurements, D!Cleared
  <2> QED
      BY <2>1, WrittenTyped DEF DemoInv, D!Measurements
<1>5. ASSUME NEW m \in D!Measurements, D!WriteFails(m) PROVE DemoInv'
  <2>1. CASE points' = points
      BY <1>5, <2>1 DEF D!WriteFails, DemoInv
  <2>2. CASE points' = [points EXCEPT ![m] = @ \cup batch]
      BY <1>5, <2>2, WrittenTyped DEF D!WriteFails, DemoInv, D!Measurements
  <2> QED
      BY <1>5, <2>1, <2>2 DEF D!WriteFails
<1>6. CASE UNCHANGED D!vars
    BY <1>6 DEF D!vars, DemoInv
<1> QED
    BY <1>1, <1>2, <1>3, <1>4, <1>5, <1>6 DEF D!Next

LEMMA DemoImplies == DemoInv => D!TypeOK /\ D!StatesRestOnTelemetry
<1> SUFFICES ASSUME DemoInv PROVE D!TypeOK /\ D!StatesRestOnTelemetry
    OBVIOUS
<1>1. D!TypeOK
    BY DEF DemoInv, D!TypeOK
<1>2. points["robot_state"] \subseteq 0..N - 1
    BY DemoAssumption DEF DemoInv, D!Measurements
<1>3. points["robot_state"] \subseteq D!WellLabelled
    BY <1>2, Labels DEF D!WellLabelled
<1> QED
    BY <1>1, <1>3 DEF DemoInv, D!StatesRestOnTelemetry

-----------------------------------------------------------------------------
(* How faults are demonstrated: LiveDemo *)

Ages == [age : 0..15, fresh : BOOLEAN, obstacle : BOOLEAN, overload : BOOLEAN]
MotorPrograms == {L!ModelCell, L!WalkthroughCell}

LiveTypes ==
    /\ program \in L!Programs /\ pc \in 1..Len(program) + 1 /\ wait \in 0..20
    /\ status \in {"running", "done", "failed"}
    /\ shown \subseteq Ages /\ stored \subseteq Ages /\ flight \in Seq(Ages)
    /\ robot_faults \subseteq {"obstacle", "motor"} /\ situation \in L!Situations
    /\ steady \in BOOLEAN /\ obstacle \in BOOLEAN /\ overload \in BOOLEAN /\ flowing \in BOOLEAN
    /\ smooth \in BOOLEAN

\* The pipeline holds at most one reading of each second, the oldest first, as far
\* as their ages are counted.
Pipeline ==
    /\ Len(flight) <= LAG + 1 \/ Len(flight) <= MaxBacklog
    /\ \A k \in DOMAIN flight : flight[k].age >= Len(flight) - k \/ flight[k].age = LAG
    /\ \A k \in DOMAIN flight : flight[k].age <= LAG
    /\ smooth => flowing

\* The script sleeps, or has slept, and this long.
Asleep == status = "running" /\ pc > 1 /\ program[pc - 1].op = "sleep"
Slept == program[pc - 1].seconds - wait

\* What is from before the last request grows old while the script sleeps and the
\* pipeline flows: on its way by the second, and stored at most LAG seconds later.
Aging ==
    Asleep /\ smooth =>
        /\ \A k \in DOMAIN flight : flight[k].fresh \/ (flight[k].age >= Slept /\ Slept <= LAG)
        /\ \A r \in stored : r.fresh \/ r.age >= Slept - LAG \/ r.age = 15

\* What a robot that goes on working measures of the faults.
Tells(r) ==
    /\ r.obstacle = ("obstacle" \in robot_faults)
    /\ "obstacle" \notin robot_faults /\ ("motor" \in robot_faults \/ program \notin MotorPrograms)
         => r.overload = ("motor" \in robot_faults)

Measured ==
    /\ program \notin MotorPrograms => "motor" \notin robot_faults /\ ~overload
    /\ steady /\ status # "failed" =>
          /\ situation = "working"
          /\ \A k \in DOMAIN flight : flight[k].fresh => Tells(flight[k])
          /\ \A r \in stored : r.fresh => Tells(r)

\* The motor's overload is there when the two cells that inject it look.
Injected ==
    status # "failed" =>
        /\ program = L!ModelCell => /\ pc <= 2 => robot_faults = {}
                                    /\ pc \in 3..5 => robot_faults = {"motor"}
        /\ program = L!WalkthroughCell => /\ pc <= 1 => robot_faults = {}
                                          /\ pc \in 2..4 => robot_faults = {"motor"}

Looked ==
    /\ shown # {} => pc > 1 /\ program[pc - 1].op = "show"
    /\ L!ShownIsInjected

LiveInv == LiveTypes /\ Pipeline /\ Aging /\ Measured /\ Injected /\ Looked

LEMMA Script ==
    ASSUME NEW p \in L!Programs
    PROVE  /\ Len(p) \in 4..7 /\ DOMAIN p = 1..Len(p)
           /\ p[1].op # "sleep"
           /\ \A k \in DOMAIN p :
                 /\ p[k].op = "post" => p[k].fault \in {"obstacle", "motor", "clear"}
                 /\ p[k].op = "sleep" => p[k - 1].op = "post" /\ p[k].seconds \in 0..20
                 /\ p[k].op = "show" /\ k > 1 =>
                       /\ p[k - 1].op = "sleep" /\ k > 2
                       /\ p[k].window \in 0..15 /\ p[k].window + 2 <= p[k - 1].seconds
           /\ p = L!FaultDemo => \A k \in DOMAIN p : p[k].op # "show"
           /\ p \notin MotorPrograms =>
                 \A k \in DOMAIN p : p[k].op = "post" => p[k].fault # "motor"
           /\ p = L!ModelCell =>
                 \A k \in DOMAIN p : /\ p[k].op = "show" /\ k > 1 => k = 4
                                     /\ p[k].op = "post" <=> k \in {2, 5}
                                     /\ p[k].op = "post" /\ k = 2 => p[k].fault = "motor"
           /\ p = L!WalkthroughCell =>
                 \A k \in DOMAIN p : /\ p[k].op = "show" => k = 3
                                     /\ p[k].op = "post" <=> k \in {1, 4}
                                     /\ p[k].op = "post" /\ k = 1 => p[k].fault = "motor"
<1> DEFINE Facts(s) ==
        /\ Len(s) \in 4..7 /\ DOMAIN s = 1..Len(s) /\ s[1].op # "sleep"
        /\ \A k \in DOMAIN s :
                 /\ s[k].op = "post" => s[k].fault \in {"obstacle", "motor", "clear"}
                 /\ s[k].op = "sleep" => s[k - 1].op = "post" /\ s[k].seconds \in 0..20
                 /\ s[k].op = "show" /\ k > 1 =>
                       /\ s[k - 1].op = "sleep" /\ k > 2
                       /\ s[k].window \in 0..15 /\ s[k].window + 2 <= s[k - 1].seconds
<1>1. /\ Facts(L!FaultDemo)
      /\ \A k \in DOMAIN L!FaultDemo : L!FaultDemo[k].op # "show"
      /\ \A k \in DOMAIN L!FaultDemo :
            L!FaultDemo[k].op = "post" => L!FaultDemo[k].fault # "motor"
    BY DEF L!FaultDemo, L!Post, L!Sleep
<1>2. /\ Facts(L!VisualizationCell)
      /\ \A k \in DOMAIN L!VisualizationCell :
            L!VisualizationCell[k].op = "post" => L!VisualizationCell[k].fault # "motor"
    BY DEF L!VisualizationCell, L!Post, L!Sleep, L!Show
<1>3. Facts(L!ModelCell)
      /\ \A k \in DOMAIN L!ModelCell :
            /\ L!ModelCell[k].op = "show" /\ k > 1 => k = 4
            /\ L!ModelCell[k].op = "post" <=> k \in {2, 5}
            /\ L!ModelCell[k].op = "post" /\ k = 2 => L!ModelCell[k].fault = "motor"
    BY DEF L!ModelCell, L!Post, L!Sleep, L!Show
<1>4. Facts(L!WalkthroughCell)
      /\ \A k \in DOMAIN L!WalkthroughCell :
            /\ L!WalkthroughCell[k].op = "show" => k = 3
            /\ L!WalkthroughCell[k].op = "post" <=> k \in {1, 4}
            /\ L!WalkthroughCell[k].op = "post" /\ k = 1 => L!WalkthroughCell[k].fault = "motor"
    BY DEF L!WalkthroughCell, L!Post, L!Sleep, L!Show
<1>5. /\ L!FaultDemo # L!ModelCell /\ L!FaultDemo # L!WalkthroughCell
      /\ L!FaultDemo # L!VisualizationCell /\ L!VisualizationCell # L!ModelCell
      /\ L!VisualizationCell # L!WalkthroughCell /\ L!ModelCell # L!WalkthroughCell
  <2>1. /\ Len(L!FaultDemo) = 4 /\ Len(L!ModelCell) = 5 /\ Len(L!VisualizationCell) = 7
        /\ Len(L!WalkthroughCell) = 4
      BY DEF L!FaultDemo, L!ModelCell, L!VisualizationCell, L!WalkthroughCell
  <2>2. L!FaultDemo[1].fault = "obstacle" /\ L!WalkthroughCell[1].fault = "motor"
      BY DEF L!FaultDemo, L!WalkthroughCell, L!Post
  <2> QED
      BY <2>1, <2>2
<1> HIDE DEF Facts
<1>6. p \in {L!FaultDemo, L!VisualizationCell, L!ModelCell, L!WalkthroughCell}
    BY DEF L!Programs
<1>7. Facts(p)
    BY <1>1, <1>2, <1>3, <1>4, <1>6
<1>8. p = L!FaultDemo => \A k \in DOMAIN p : p[k].op # "show"
    BY <1>1
<1>9. p \notin MotorPrograms => \A k \in DOMAIN p : p[k].op = "post" => p[k].fault # "motor"
    BY <1>1, <1>2, <1>6 DEF MotorPrograms
<1>10. p = L!ModelCell =>
          \A k \in DOMAIN p : /\ p[k].op = "show" /\ k > 1 => k = 4
                              /\ p[k].op = "post" <=> k \in {2, 5}
                              /\ p[k].op = "post" /\ k = 2 => p[k].fault = "motor"
    BY <1>3
<1>11. p = L!WalkthroughCell =>
          \A k \in DOMAIN p : /\ p[k].op = "show" => k = 3
                              /\ p[k].op = "post" <=> k \in {1, 4}
                              /\ p[k].op = "post" /\ k = 1 => p[k].fault = "motor"
    BY <1>4
<1> QED
    BY <1>7, <1>8, <1>9, <1>10, <1>11 DEF Facts

LEMMA OneProgram == L!FaultDemo \notin MotorPrograms /\ L!ModelCell # L!WalkthroughCell
<1>1. /\ Len(L!FaultDemo) = 4 /\ Len(L!ModelCell) = 5 /\ Len(L!WalkthroughCell) = 4
    BY DEF L!FaultDemo, L!ModelCell, L!WalkthroughCell
<1>2. L!FaultDemo[1].fault = "obstacle" /\ L!WalkthroughCell[1].fault = "motor"
    BY DEF L!FaultDemo, L!WalkthroughCell, L!Post
<1> QED
    BY <1>1, <1>2 DEF MotorPrograms

LEMMA LiveInit == L!Init => LiveInv
<1> SUFFICES ASSUME L!Init PROVE LiveInv
    OBVIOUS
<1>1. Len(program) \in 4..7 /\ program[1].op # "sleep"
    BY Script DEF L!Init
<1>2. LiveTypes
  <2>1. /\ steady \in BOOLEAN /\ obstacle \in BOOLEAN /\ overload \in BOOLEAN
        /\ flowing \in BOOLEAN /\ smooth \in BOOLEAN
      BY Zenon DEF L!Init
  <2>2. program \in L!Programs /\ pc \in 1..Len(program) + 1 /\ wait \in 0..20
      BY <1>1, LagAssumption DEF L!Init
  <2>3. /\ shown \subseteq Ages /\ stored \subseteq Ages /\ flight \in Seq(Ages)
        /\ status = "running" /\ robot_faults = {} /\ situation \in L!Situations
      BY DEF L!Init
  <2> QED
      BY <2>1, <2>2, <2>3 DEF LiveTypes
<1>3. Pipeline
    BY LagAssumption DEF L!Init, Pipeline
<1>4. Aging /\ Injected
    BY DEF L!Init, Aging, Asleep, Injected
<1>5. Measured
  <2>1. steady => situation = "working"
      BY Zenon DEF L!Init
  <2>2. flight = << >> /\ stored = {} /\ robot_faults = {} /\ ~overload
      BY DEF L!Init
  <2> QED
      BY <2>1, <2>2 DEF Measured
<1>6. Looked
    BY DEF L!Init, Looked, L!ShownIsInjected
<1> QED
    BY <1>2, <1>3, <1>4, <1>5, <1>6 DEF LiveInv

LEMMA OlderReading ==
    ASSUME NEW r \in Ages, NEW cap \in 0..15
    PROVE  /\ L!Older(r, cap) \in Ages
           /\ L!Older(r, cap).age = (IF r.age < cap THEN r.age + 1 ELSE r.age)
           /\ L!Older(r, cap).fresh = r.fresh /\ L!Older(r, cap).obstacle = r.obstacle
           /\ L!Older(r, cap).overload = r.overload
<1> DEFINE age == IF r.age < cap THEN r.age + 1 ELSE r.age
<1>1. L!Older(r, cap) = [r EXCEPT !.age = age] /\ age \in 0..15
    BY DEF L!Older, Ages
<1> HIDE DEF age
<1> QED
    BY <1>1 DEF Ages, age

LEMMA StaleReading ==
    ASSUME NEW r \in Ages
    PROVE  L!Stale(r) \in Ages /\ L!Stale(r).age = r.age /\ ~L!Stale(r).fresh
  BY DEF L!Stale, Ages

LEMMA YoungReading ==
    ASSUME NEW r \in Ages
    PROVE  LET young == [r EXCEPT !.age = 0]
           IN  /\ young \in Ages /\ young.age = 0 /\ young.fresh = r.fresh
               /\ young.obstacle = r.obstacle /\ young.overload = r.overload
  BY DEF Ages

LEMMA LongestAge == L!LONGEST = 15 /\ L!LONGEST \in 0..15 /\ LAG \in 0..15 /\ LAG \in 0..2
  BY LagAssumption DEF L!LONGEST

\* Without a request the script goes no further than what it does itself.
LEMMA LiveTick == LiveInv /\ L!Tick => LiveInv'
<1> SUFFICES ASSUME LiveInv, L!Tick PROVE LiveInv'
    OBVIOUS
<1>1. PICK ob \in BOOLEAN, ov \in BOOLEAN :
        /\ L!Measures(ob, ov) /\ obstacle' = ob /\ overload' = ov
        /\ LET aged    == [i \in DOMAIN flight |-> L!Older(flight[i], LAG)]
               reading == [age |-> 0, fresh |-> TRUE, obstacle |-> ob, overload |-> ov]
           IN  \/ (flowing \/ Len(flight) < MaxBacklog) /\ flight' = Append(aged, reading)
               \/ ~flowing /\ flight' = aged
    BY DEF L!Tick
<1>2. /\ \A k \in DOMAIN flight : flowing => flight[k].age < LAG
      /\ wait > 0 \/ status = "done"
      /\ wait' = (IF wait > 0 THEN wait - 1 ELSE 0)
      /\ stored' = {L!Older(r, 15) : r \in stored}
      /\ UNCHANGED <<program, pc, status, shown, robot_faults, situation, steady, flowing, smooth>>
    BY LongestAge DEF L!Tick
<1> DEFINE new == [age |-> 0, fresh |-> TRUE, obstacle |-> ob, overload |-> ov]
<1>3. /\ new \in Ages /\ new.age = 0 /\ new.fresh /\ new.obstacle = ob /\ new.overload = ov
    BY DEF Ages
<1>4. flight \in Seq(Ages) /\ Len(flight) \in Nat /\ DOMAIN flight = 1..Len(flight)
      /\ wait \in 0..20
    BY DEF LiveInv, LiveTypes
<1> DEFINE aged == [i \in DOMAIN flight |-> L!Older(flight[i], LAG)]
<1>5. /\ aged \in Seq(Ages) /\ Len(aged) = Len(flight)
      /\ \A k \in 1..Len(flight) : aged[k] = L!Older(flight[k], LAG)
    BY <1>4, OlderReading, LongestAge
<1>6. \/ (flowing \/ Len(flight) < MaxBacklog) /\ flight' = Append(aged, new)
      \/ ~flowing /\ flight' = aged
    BY <1>1
<1> HIDE DEF aged, new
<1>7. /\ flight' \in Seq(Ages) /\ DOMAIN flight' = 1..Len(flight')
      /\ \/ /\ flowing \/ Len(flight) < MaxBacklog
            /\ Len(flight') = Len(flight) + 1 /\ flight'[Len(flight) + 1] = new
         \/ ~flowing /\ Len(flight') = Len(flight)
      /\ \A k \in 1..Len(flight) : flight'[k] = L!Older(flight[k], LAG)
  <2>1. CASE (flowing \/ Len(flight) < MaxBacklog) /\ flight' = Append(aged, new)
    <3>1. /\ Append(aged, new) \in Seq(Ages) /\ Len(Append(aged, new)) = Len(aged) + 1
          /\ Append(aged, new)[Len(aged) + 1] = new
          /\ \A k \in 1..Len(aged) : Append(aged, new)[k] = aged[k]
          /\ DOMAIN Append(aged, new) = 1..Len(aged) + 1
        BY <1>3, <1>5
    <3>2. /\ flight' \in Seq(Ages) /\ DOMAIN flight' = 1..Len(flight')
          /\ Len(flight') = Len(flight) + 1 /\ flight'[Len(flight) + 1] = new
          /\ \A k \in 1..Len(flight) : flight'[k] = L!Older(flight[k], LAG)
        BY <1>5, <2>1, <3>1
    <3> QED
        BY <2>1, <3>2
  <2>2. CASE ~flowing /\ flight' = aged
      BY <1>4, <1>5, <2>2
  <2> QED
      BY <1>6, <2>1, <2>2
<1>8. /\ LAG \in 0..2 /\ MaxBacklog \in Nat
      /\ \A k \in 1..Len(flight) :
            /\ flight[k] \in Ages /\ flight[k].age \in 0..15 /\ flight[k].age <= LAG
            /\ flight[k].age >= Len(flight) - k \/ flight[k].age = LAG
      /\ flowing => Len(flight) <= LAG
  <2>1. LAG \in 0..2 /\ MaxBacklog \in Nat
      BY LagAssumption
  <2>2. ASSUME NEW k \in 1..Len(flight)
        PROVE  /\ flight[k] \in Ages /\ flight[k].age \in 0..15 /\ flight[k].age <= LAG
               /\ flight[k].age >= Len(flight) - k \/ flight[k].age = LAG
    <3>1. k \in DOMAIN flight /\ flight[k] \in Ages
        BY <1>4
    <3>2. flight[k].age \in 0..15
        BY <3>1 DEF Ages
    <3> QED
        BY <3>1, <3>2 DEF LiveInv, Pipeline
  <2>3. ASSUME flowing, Len(flight) > 0 PROVE Len(flight) <= LAG
    <3>1. 1 \in DOMAIN flight /\ flight[1].age >= Len(flight) - 1 /\ flight[1].age < LAG
        BY <1>2, <1>4, <2>1, <2>2, <2>3
    <3> QED
        BY <1>4, <2>1, <2>2, <3>1
  <2> QED
      BY <1>4, <2>1, <2>2, <2>3
<1>9. \A k \in 1..Len(flight) :
        /\ flight'[k].age = (IF flight[k].age < LAG THEN flight[k].age + 1 ELSE LAG)
        /\ flight'[k].fresh = flight[k].fresh
        /\ flight'[k].obstacle = flight[k].obstacle /\ flight'[k].overload = flight[k].overload
  <2> SUFFICES ASSUME NEW k \in 1..Len(flight)
               PROVE  /\ flight'[k].age = (IF flight[k].age < LAG THEN flight[k].age + 1 ELSE LAG)
                      /\ flight'[k].fresh = flight[k].fresh
                      /\ flight'[k].obstacle = flight[k].obstacle
                      /\ flight'[k].overload = flight[k].overload
      OBVIOUS
  <2>1. flight[k] \in Ages /\ flight[k].age \in 0..15 /\ flight[k].age <= LAG
      BY <1>8
  <2>2. flight'[k] = L!Older(flight[k], LAG)
      BY <1>7
  <2>3. /\ L!Older(flight[k], LAG).age = (IF flight[k].age < LAG THEN flight[k].age + 1 ELSE flight[k].age)
        /\ L!Older(flight[k], LAG).fresh = flight[k].fresh
        /\ L!Older(flight[k], LAG).obstacle = flight[k].obstacle
        /\ L!Older(flight[k], LAG).overload = flight[k].overload
      BY <2>1, OlderReading, LongestAge
  <2> QED
      BY <1>8, <2>1, <2>2, <2>3
<1>10. LiveTypes'
  <2>1. stored' \subseteq Ages
      BY <1>2, OlderReading, LongestAge DEF LiveInv, LiveTypes
  <2>2. wait' \in 0..20
      BY <1>2, <1>4
  <2>3. obstacle' \in BOOLEAN /\ overload' \in BOOLEAN
      BY <1>1
  <2> QED
      BY <1>2, <1>7, <2>1, <2>2, <2>3 DEF LiveInv, LiveTypes
<1>11. Pipeline'
  <2>1. Len(flight') <= LAG + 1 \/ Len(flight') <= MaxBacklog
    <3>1. Len(flight) <= LAG + 1 \/ Len(flight) <= MaxBacklog
        BY DEF LiveInv, Pipeline
    <3>2. CASE Len(flight') = Len(flight) /\ ~flowing
        BY <3>1, <3>2
    <3>3. CASE Len(flight') = Len(flight) + 1 /\ flowing
        BY <1>4, <1>8, <3>3
    <3>4. CASE Len(flight') = Len(flight) + 1 /\ Len(flight) < MaxBacklog
        BY <1>4, <1>8, <3>4
    <3> QED
        BY <1>7, <3>2, <3>3, <3>4
  <2>2. ASSUME NEW k \in DOMAIN flight'
        PROVE  /\ flight'[k].age >= Len(flight') - k \/ flight'[k].age = LAG
               /\ flight'[k].age <= LAG
    <3>1. CASE k \in 1..Len(flight)
      <4>1. /\ flight[k].age \in 0..15 /\ flight[k].age <= LAG
            /\ flight[k].age >= Len(flight) - k \/ flight[k].age = LAG
            /\ flight'[k].age = (IF flight[k].age < LAG THEN flight[k].age + 1 ELSE LAG)
          BY <1>8, <1>9, <3>1
      <4>2. Len(flight') = Len(flight) \/ Len(flight') = Len(flight) + 1
          BY <1>7
      <4>3. LAG \in 0..2 /\ k \in Nat
          BY <1>4, <1>8, <3>1
      <4> DEFINE a == flight[k].age  b == flight'[k].age  n == Len(flight)  m == Len(flight')
      <4>4. /\ a \in Int /\ a >= 0 /\ a <= LAG /\ (a >= n - k \/ a = LAG) /\ n \in Nat
            /\ b = (IF a < LAG THEN a + 1 ELSE LAG) /\ (m = n \/ m = n + 1)
          BY <1>4, <4>1, <4>2
      <4> HIDE DEF a, b, n, m
      <4>5. (b >= m - k \/ b = LAG) /\ b <= LAG
          BY <4>3, <4>4
      <4> QED
          BY <4>5 DEF b, m
    <3>2. CASE k = Len(flight) + 1 /\ Len(flight') = Len(flight) + 1 /\ flight'[k] = new
        BY <1>3, <1>4, <1>8, <3>2
    <3>3. k \in 1..Len(flight')
        BY <1>7, <2>2
    <3>4. Len(flight') = Len(flight) \/ (Len(flight') = Len(flight) + 1 /\ flight'[Len(flight) + 1] = new)
        BY <1>7
    <3> QED
        BY <1>4, <3>1, <3>2, <3>3, <3>4
  <2>3. smooth' => flowing'
      BY <1>2 DEF LiveInv, Pipeline
  <2> QED
      BY <2>1, <2>2, <2>3 DEF Pipeline
<1>12. Aging'
  <2> SUFFICES ASSUME Asleep', smooth'
               PROVE  /\ \A k \in DOMAIN flight' :
                            flight'[k].fresh \/ (flight'[k].age >= Slept' /\ Slept' <= LAG)
                      /\ \A r \in stored' : r.fresh \/ r.age >= Slept' - LAG \/ r.age = 15
      BY <1>2 DEF Aging
  <2>1. Asleep /\ smooth /\ flowing /\ wait > 0 /\ wait' = wait - 1
      BY <1>2 DEF Asleep, LiveInv, Pipeline
  <2>2. Slept' = Slept + 1 /\ Slept \in Int
    <3>1. pc - 1 \in DOMAIN program
        BY <2>1, Script DEF Asleep, LiveInv, LiveTypes
    <3>2. program[pc - 1].seconds \in 0..20
        BY <2>1, <3>1, Script DEF Asleep, LiveInv, LiveTypes
    <3>3. program' = program /\ pc' = pc /\ wait \in Int
        BY <1>2, <1>4
    <3> QED
        BY <2>1, <3>2, <3>3 DEF Slept
  <2>3. ASSUME NEW k \in DOMAIN flight'
        PROVE  flight'[k].fresh \/ (flight'[k].age >= Slept' /\ Slept' <= LAG)
    <3>1. k \in 1..Len(flight) \/ flight'[k] = new
        BY <1>4, <1>7, <2>1, <2>3
    <3>2. CASE k \in 1..Len(flight)
      <4>1. flight[k].fresh \/ (flight[k].age >= Slept /\ Slept <= LAG)
          BY <1>4, <2>1, <3>2 DEF LiveInv, Aging
      <4>2. flight[k].age < LAG /\ flight[k].age \in 0..15
          BY <1>2, <1>4, <1>8, <2>1, <3>2
      <4>3. flight'[k].age = flight[k].age + 1 /\ flight'[k].fresh = flight[k].fresh
          BY <1>8, <1>9, <3>2, <4>2
      <4> QED
          BY <1>8, <2>2, <4>1, <4>2, <4>3
    <3> QED
        BY <1>3, <3>1, <3>2
  <2>4. \A r \in stored' : r.fresh \/ r.age >= Slept' - LAG \/ r.age = 15
    <3> SUFFICES ASSUME NEW q \in stored
                 PROVE  \/ L!Older(q, 15).fresh \/ L!Older(q, 15).age >= Slept' - LAG
                        \/ L!Older(q, 15).age = 15
        BY <1>2
    <3>1. q \in Ages /\ q.age \in 0..15 /\ (q.fresh \/ q.age >= Slept - LAG \/ q.age = 15)
        BY <2>1 DEF LiveInv, LiveTypes, Aging, Ages
    <3>2. /\ L!Older(q, 15).fresh = q.fresh
          /\ L!Older(q, 15).age = (IF q.age < 15 THEN q.age + 1 ELSE q.age)
        BY <3>1, OlderReading, LongestAge
    <3> DEFINE a == q.age  b == L!Older(q, 15).age  n == Slept  m == Slept'
    <3>3. /\ a \in 0..15 /\ b = (IF a < 15 THEN a + 1 ELSE a) /\ m = n + 1 /\ n \in Int
          /\ q.fresh \/ a >= n - LAG \/ a = 15
        BY <2>2, <3>1, <3>2
    <3> HIDE DEF a, b, n, m
    <3>4. q.fresh \/ b >= m - LAG \/ b = 15
        BY <1>8, <3>3
    <3> QED
        BY <3>2, <3>4 DEF b, m
  <2> QED
      BY <2>3, <2>4
<1>13. Measured'
  <2>1. program' \notin MotorPrograms => "motor" \notin robot_faults' /\ ~overload'
      BY <1>1, <1>2 DEF LiveInv, Measured, L!Measures
  <2>2. ASSUME steady', status' # "failed"
        PROVE  /\ situation' = "working"
               /\ \A k \in DOMAIN flight' : flight'[k].fresh => Tells(flight'[k])
               /\ \A r \in stored' : r.fresh => Tells(r)
    <3>1. /\ situation = "working" /\ \A k \in DOMAIN flight : flight[k].fresh => Tells(flight[k])
          /\ \A r \in stored : r.fresh => Tells(r)
        BY <1>2, <2>2 DEF LiveInv, Measured
    <3>2. Tells(new)
      <4>1. program \notin MotorPrograms => "motor" \notin robot_faults /\ ~overload
          BY DEF LiveInv, Measured
      <4>2. ob = ("obstacle" \in robot_faults)
          BY <1>1, <3>1 DEF L!Measures
      <4>3. "obstacle" \notin robot_faults =>
                ov \in {"motor" \in robot_faults, overload \/ "motor" \in robot_faults}
          BY <1>1, <3>1 DEF L!Measures
      <4> QED
          BY <1>3, <4>1, <4>2, <4>3 DEF Tells
    <3>3. \A k \in DOMAIN flight' : flight'[k].fresh => Tells(flight'[k])
      <4> SUFFICES ASSUME NEW k \in DOMAIN flight', flight'[k].fresh PROVE Tells(flight'[k])
          OBVIOUS
      <4>1. k \in 1..Len(flight) \/ flight'[k] = new
        <5>1. k \in 1..Len(flight')
            BY <1>7
        <5>2. Len(flight') = Len(flight) \/ (Len(flight') = Len(flight) + 1 /\ flight'[Len(flight) + 1] = new)
            BY <1>7
        <5> QED
            BY <1>4, <5>1, <5>2
      <4>2. CASE k \in 1..Len(flight)
          BY <1>4, <1>9, <3>1, <4>1, <4>2 DEF Tells
      <4> QED
          BY <3>2, <4>1, <4>2
    <3>4. \A r \in stored' : r.fresh => Tells(r)
      <4> SUFFICES ASSUME NEW q \in stored, L!Older(q, 15).fresh PROVE Tells(L!Older(q, 15))
          BY <1>2
      <4>1. q \in Ages
          BY DEF LiveInv, LiveTypes
      <4> QED
          BY <3>1, <4>1, OlderReading, LongestAge DEF Tells
    <3>5. UNCHANGED <<robot_faults, program, situation>>
        BY <1>2
    <3> QED
        BY <3>1, <3>3, <3>4, <3>5
  <2>3. UNCHANGED <<robot_faults, program, situation, status, steady>>
      BY <1>2
  <2> QED
      BY <2>1, <2>2, <2>3 DEF Measured, Tells
<1>14. Injected' /\ Looked'
    BY <1>2 DEF LiveInv, Injected, Looked, L!ShownIsInjected
<1> QED
    BY <1>10, <1>11, <1>12, <1>13, <1>14 DEF LiveInv

LEMMA LiveStore == LiveInv /\ L!Store => LiveInv'
<1> SUFFICES ASSUME LiveInv, L!Store PROVE LiveInv'
    OBVIOUS
<1> DEFINE young == [Head(flight) EXCEPT !.age = 0]
<1>1. /\ flowing /\ flight # << >> /\ stored' = {young} /\ flight' = Tail(flight)
      /\ UNCHANGED <<program, pc, wait, status, shown, robot_faults, situation, steady, obstacle,
                     overload, flowing, smooth>>
    BY DEF L!Store, L!script, L!robot
<1>2. /\ Head(flight) \in Ages /\ Head(flight) = flight[1] /\ 1 \in DOMAIN flight
      /\ Tail(flight) \in Seq(Ages) /\ Len(Tail(flight)) = Len(flight) - 1
      /\ \A k \in DOMAIN Tail(flight) : k + 1 \in DOMAIN flight /\ Tail(flight)[k] = flight[k + 1]
      /\ Len(flight) \in Nat /\ DOMAIN Tail(flight) = 1..Len(flight) - 1
    BY <1>1 DEF LiveInv, LiveTypes
<1>3. /\ young \in Ages /\ young.age = 0 /\ young.fresh = flight[1].fresh
      /\ young.obstacle = flight[1].obstacle /\ young.overload = flight[1].overload
    BY <1>2, YoungReading
<1> HIDE DEF young
<1>4. LAG \in 0..2 /\ MaxBacklog \in Nat
    BY LagAssumption
<1>5. LiveTypes'
    BY <1>1, <1>2, <1>3 DEF LiveInv, LiveTypes
<1>6. Pipeline'
    BY <1>1, <1>2, <1>4 DEF LiveInv, Pipeline
<1>7. Aging'
  <2> SUFFICES ASSUME Asleep, smooth
               PROVE  /\ \A k \in DOMAIN flight' :
                            flight'[k].fresh \/ (flight'[k].age >= Slept /\ Slept <= LAG)
                      /\ \A r \in stored' : r.fresh \/ r.age >= Slept - LAG \/ r.age = 15
      BY <1>1 DEF Aging, Asleep, Slept
  <2>1. \A k \in DOMAIN flight : flight[k].fresh \/ (flight[k].age >= Slept /\ Slept <= LAG)
      BY DEF LiveInv, Aging
  <2>2. Slept \in Int
    <3>1. pc - 1 \in DOMAIN program
        BY Script DEF Asleep, LiveInv, LiveTypes
    <3>2. program[pc - 1].seconds \in 0..20
        BY <3>1, Script DEF Asleep, LiveInv, LiveTypes
    <3>3. wait \in Int
        BY DEF LiveInv, LiveTypes
    <3> QED
        BY <3>2, <3>3 DEF Slept
  <2>3. young.fresh \/ young.age >= Slept - LAG
      BY <1>2, <1>3, <1>4, <2>1, <2>2
  <2> QED
      BY <1>1, <1>2, <2>1, <2>3
<1>8. Measured'
    BY <1>1, <1>2, <1>3 DEF LiveInv, Measured, Tells
<1>9. Injected' /\ Looked'
    BY <1>1 DEF LiveInv, Injected, Looked, L!ShownIsInjected
<1> QED
    BY <1>5, <1>6, <1>7, <1>8, <1>9 DEF LiveInv

LEMMA LivePipeline ==
    LiveInv /\ (L!Stall \/ L!Flow \/ \E s \in L!Situations : L!Change(s)) => LiveInv'
<1>1. ASSUME LiveInv, L!Stall PROVE LiveInv'
  <2>1. /\ flowing' = FALSE /\ smooth' = FALSE /\ flight' \in {flight, << >>}
        /\ UNCHANGED <<program, pc, wait, status, shown, robot_faults, situation, steady, obstacle,
                       overload, stored>>
      BY <1>1 DEF L!Stall, L!script, L!robot
  <2>2. LiveTypes' /\ Pipeline'
    <3>1. CASE flight' = flight
        BY <1>1, <2>1, <3>1 DEF LiveInv, LiveTypes, Pipeline
    <3>2. CASE flight' = << >>
      <4>1. flight' \in Seq(Ages) /\ Len(flight') = 0 /\ DOMAIN flight' = {}
          BY <3>2
      <4>2. LiveTypes'
          BY <1>1, <2>1, <4>1 DEF LiveInv, LiveTypes
      <4> QED
          BY <2>1, <4>1, <4>2, LagAssumption DEF Pipeline
    <3> QED
        BY <2>1, <3>1, <3>2
  <2>3. Aging' /\ Injected'
      BY <1>1, <2>1 DEF LiveInv, Aging, Injected
  <2>4. Measured'
    <3>1. \A k \in DOMAIN flight' : k \in DOMAIN flight /\ flight'[k] = flight[k]
        BY <2>1
    <3> QED
        BY <1>1, <2>1, <3>1 DEF LiveInv, Measured, Tells
  <2>5. Looked'
      BY <1>1, <2>1 DEF LiveInv, Looked, L!ShownIsInjected
  <2> QED
      BY <2>2, <2>3, <2>4, <2>5 DEF LiveInv
<1>2. ASSUME LiveInv, L!Flow PROVE LiveInv'
  <2>1. /\ flowing' = TRUE
        /\ UNCHANGED <<program, pc, wait, status, shown, robot_faults, situation, steady, obstacle,
                       overload, stored, flight, smooth>>
      BY <1>2 DEF L!Flow, L!script, L!robot
  <2>2. LiveTypes' /\ Pipeline'
      BY <1>2, <2>1 DEF LiveInv, LiveTypes, Pipeline
  <2>3. Aging' /\ Injected' /\ Looked'
      BY <1>2, <2>1 DEF LiveInv, Aging, Asleep, Slept, Injected, Looked, L!ShownIsInjected
  <2>4. Measured'
      BY <1>2, <2>1 DEF LiveInv, Measured, Tells
  <2> QED
      BY <2>2, <2>3, <2>4 DEF LiveInv
<1>3. ASSUME LiveInv, NEW s \in L!Situations, L!Change(s) PROVE LiveInv'
  <2>1. /\ situation' = s /\ steady' = FALSE
        /\ UNCHANGED <<program, pc, wait, status, shown, robot_faults, obstacle,
                       overload, stored, flight, flowing, smooth>>
      BY <1>3 DEF L!Change, L!script, L!pipeline
  <2>2. LiveTypes' /\ Pipeline'
      BY <1>3, <2>1 DEF LiveInv, LiveTypes, Pipeline
  <2>3. Aging' /\ Injected' /\ Looked'
      BY <1>3, <2>1 DEF LiveInv, Aging, Asleep, Slept, Injected, Looked, L!ShownIsInjected
  <2>4. Measured'
      BY <1>3, <2>1 DEF LiveInv, Measured
  <2> QED
      BY <2>2, <2>3, <2>4 DEF LiveInv
<1> QED
    BY <1>1, <1>2, <1>3

\* The step of the script that is next.
LEMMA NowAt ==
    ASSUME LiveInv, NEW op, L!Now(op)
    PROVE  /\ status = "running" /\ wait = 0 /\ pc \in DOMAIN program /\ program[pc].op = op
           /\ pc \in 1..Len(program) /\ Len(program) \in 4..7 /\ program \in L!Programs
           /\ pc + 1 \in 1..Len(program) + 1 /\ pc + 1 - 1 = pc
<1>1. program \in L!Programs
    BY DEF LiveInv, LiveTypes
<1>2. Len(program) \in 4..7 /\ DOMAIN program = 1..Len(program)
    BY <1>1, Script
<1>3. status = "running" /\ wait = 0 /\ pc \in DOMAIN program /\ program[pc].op = op
    BY DEF L!Now
<1> QED
    BY <1>1, <1>2, <1>3

\* An obeyed request leaves only readings from before it, and the faults asked for.
LEMMA LiveObeyed ==
    ASSUME LiveInv, L!Now("post"), L!Obeyed, program' = program
    PROVE  /\ robot_faults' \subseteq {"obstacle", "motor"} /\ steady' \in BOOLEAN
           /\ steady' => situation' = "working"
           /\ stored' \subseteq Ages /\ \A r \in stored' : ~r.fresh
           /\ flight' \in Seq(Ages) /\ \A k \in DOMAIN flight' : ~flight'[k].fresh
           /\ (smooth' => flowing) => Pipeline'
           /\ program \notin MotorPrograms => "motor" \notin robot_faults' /\ ~overload'
           /\ program[pc].fault = "motor" => robot_faults' = robot_faults \cup {"motor"}
           /\ UNCHANGED <<situation, obstacle, overload, flowing>>
<1>1. /\ robot_faults' = L!InjectFault(program[pc].fault)
      /\ stored' = {L!Stale(r) : r \in stored}
      /\ flight' = [i \in DOMAIN flight |-> L!Stale(flight[i])]
      /\ UNCHANGED <<situation, obstacle, overload, flowing>>
    BY DEF L!Obeyed
<1>2. steady' = (situation = "working")
    BY DEF L!Obeyed
<1>3. steady' \in BOOLEAN /\ (steady' => situation' = "working")
  <2>1. steady' \in BOOLEAN /\ (steady' => situation = "working")
      BY <1>2, Zenon
  <2> QED
      BY <1>1, <2>1
<1>4. program[pc].fault \in {"obstacle", "motor", "clear"}
      /\ (program \notin MotorPrograms => program[pc].fault # "motor")
    BY NowAt, Script
<1>5. /\ robot_faults' \subseteq {"obstacle", "motor"}
      /\ program \notin MotorPrograms => "motor" \notin robot_faults' /\ ~overload'
      /\ program[pc].fault = "motor" => robot_faults' = robot_faults \cup {"motor"}
    BY <1>1, <1>4 DEF LiveInv, LiveTypes, Measured, L!InjectFault
<1>6. stored' \subseteq Ages /\ \A r \in stored' : ~r.fresh
    BY <1>1, StaleReading DEF LiveInv, LiveTypes
<1>7. flight \in Seq(Ages)
    BY DEF LiveInv, LiveTypes
<1>8. /\ flight' \in Seq(Ages) /\ Len(flight') = Len(flight) /\ DOMAIN flight' = DOMAIN flight
      /\ \A k \in DOMAIN flight' : ~flight'[k].fresh /\ flight'[k].age = flight[k].age
    BY <1>1, <1>7, StaleReading
<1>9. (smooth' => flowing) => Pipeline'
    BY <1>1, <1>8 DEF LiveInv, Pipeline
<1> QED
    BY <1>1, <1>3, <1>5, <1>6, <1>8, <1>9

LEMMA LivePost == LiveInv /\ (L!PostAnswered \/ L!PostTimesOut \/ L!PostRefused) => LiveInv'
<1>1. ASSUME LiveInv, L!PostAnswered PROVE LiveInv'
  <2>1. /\ L!Now("post") /\ L!Obeyed /\ pc' = pc + 1 /\ shown' = {} /\ smooth' = flowing
        /\ UNCHANGED <<program, wait, status>>
      BY <1>1 DEF L!PostAnswered
  <2>2. LiveTypes' /\ Pipeline'
      BY <1>1, <2>1, LiveObeyed, NowAt DEF LiveInv, LiveTypes
  <2>3. Aging'
      BY <1>1, <2>1, NowAt DEF Aging, Asleep
  <2>4. Measured'
      BY <1>1, <2>1, LiveObeyed DEF LiveInv, Measured
  <2>5. Injected'
    <3>1. ASSUME program = L!ModelCell
          PROVE  /\ pc' <= 2 => robot_faults' = {}
                 /\ pc' \in 3..5 => robot_faults' = {"motor"}
      <4>1. pc \in {2, 5} /\ (pc = 2 => program[pc].fault = "motor" /\ robot_faults = {})
          BY <1>1, <2>1, <3>1, NowAt, Script DEF LiveInv, Injected
      <4> QED
          BY <1>1, <2>1, <4>1, LiveObeyed
    <3>2. ASSUME program = L!WalkthroughCell
          PROVE  /\ pc' <= 1 => robot_faults' = {}
                 /\ pc' \in 2..4 => robot_faults' = {"motor"}
      <4>1. pc \in {1, 4} /\ (pc = 1 => program[pc].fault = "motor" /\ robot_faults = {})
          BY <1>1, <2>1, <3>2, NowAt, Script DEF LiveInv, Injected
      <4> QED
          BY <1>1, <2>1, <4>1, LiveObeyed
    <3> QED
        BY <2>1, <3>1, <3>2 DEF Injected
  <2>6. Looked'
      BY <2>1 DEF Looked, L!ShownIsInjected
  <2> QED
      BY <2>2, <2>3, <2>4, <2>5, <2>6 DEF LiveInv
<1>2. ASSUME LiveInv, L!PostTimesOut PROVE LiveInv'
  <2>1. /\ L!Now("post") /\ status' = "failed" /\ UNCHANGED <<program, pc, wait, shown>>
        /\ \/ L!Obeyed /\ UNCHANGED smooth
           \/ UNCHANGED <<robot_faults, situation, steady, obstacle, overload, flight, stored, flowing, smooth>>
      BY <1>2 DEF L!PostTimesOut, L!robot, L!pipeline
  <2>2. LiveTypes' /\ Pipeline' /\ (program \notin MotorPrograms => "motor" \notin robot_faults' /\ ~overload')
    <3>1. CASE L!Obeyed /\ UNCHANGED smooth
      <4>1. (smooth' => flowing) /\ smooth' \in BOOLEAN
          BY <1>2, <3>1 DEF LiveInv, LiveTypes, Pipeline
      <4> QED
          BY <1>2, <2>1, <3>1, <4>1, LiveObeyed DEF LiveInv, LiveTypes
    <3>2. CASE UNCHANGED <<robot_faults, situation, steady, obstacle, overload, flight, stored, flowing, smooth>>
        BY <1>2, <2>1, <3>2 DEF LiveInv, LiveTypes, Pipeline, Measured
    <3> QED
        BY <2>1, <3>1, <3>2
  <2>3. Aging' /\ Injected' /\ Measured'
      BY <2>1, <2>2 DEF Aging, Asleep, Injected, Measured
  <2>4. UNCHANGED smooth
      BY <2>1
  <2>5. Looked'
      BY <1>2, <2>1, <2>4 DEF LiveInv, Looked, L!ShownIsInjected
  <2> QED
      BY <2>2, <2>3, <2>5 DEF LiveInv
<1>3. ASSUME LiveInv, L!PostRefused PROVE LiveInv'
  <2>1. /\ L!Now("post")
        /\ UNCHANGED <<program, wait, shown, robot_faults, situation, steady, obstacle, overload,
                       flight, stored, flowing, smooth>>
        /\ \/ program = L!FaultDemo /\ pc' = pc + 1 /\ status' = status
           \/ pc' = pc /\ status' = "failed"
      BY <1>3 DEF L!PostRefused, L!CatchesErrors, L!robot, L!pipeline
  <2>2. LiveTypes' /\ Pipeline'
      BY <1>3, <2>1, NowAt DEF LiveInv, LiveTypes, Pipeline
  <2>3. Aging'
      BY <1>3, <2>1, NowAt DEF Aging, Asleep
  <2>4. Measured'
      BY <1>3, <2>1, NowAt DEF LiveInv, Measured, Tells
  <2>5. Injected'
      BY <2>1, OneProgram DEF Injected, MotorPrograms
  <2>6. Looked'
    <3>1. CASE program = L!FaultDemo
      <4>1. pc > 1 => pc - 1 \in DOMAIN program
          BY <1>3, <2>1, NowAt, Script
      <4>2. shown = {}
          BY <1>3, <3>1, <4>1, Script, NowAt DEF LiveInv, Looked, LiveTypes
      <4> QED
          BY <2>1, <4>2 DEF Looked, L!ShownIsInjected
    <3>2. CASE pc' = pc /\ status' = "failed"
        BY <1>3, <2>1, <3>2 DEF LiveInv, Looked, L!ShownIsInjected
    <3> QED
        BY <2>1, <3>1, <3>2
  <2> QED
      BY <2>2, <2>3, <2>4, <2>5, <2>6 DEF LiveInv
<1> QED
    BY <1>1, <1>2, <1>3

LEMMA LiveScript == LiveInv /\ (L!StartSleep \/ L!ShowLast \/ L!End) => LiveInv'
<1>1. ASSUME LiveInv, L!StartSleep PROVE LiveInv'
  <2>1. /\ L!Now("sleep") /\ wait' = program[pc].seconds /\ pc' = pc + 1
        /\ UNCHANGED <<program, status, shown, robot_faults, situation, steady, obstacle, overload,
                       flight, stored, flowing, smooth>>
      BY <1>1 DEF L!StartSleep, L!robot, L!pipeline
  <2>2. /\ pc \in DOMAIN program /\ program[pc].op = "sleep" /\ program[pc].seconds \in 0..20
        /\ program[pc - 1].op = "post" /\ pc > 1
    <3>1. program \in L!Programs /\ pc \in DOMAIN program /\ program[pc].op = "sleep" /\ pc >= 1
        BY <1>1, <2>1, NowAt
    <3>2. program[pc - 1].op = "post" /\ program[pc].seconds \in 0..20 /\ program[1].op # "sleep"
        BY <3>1, Script
    <3> QED
        BY <1>1, <2>1, <3>1, <3>2, NowAt
  <2>3. LiveTypes' /\ Pipeline'
      BY <1>1, <2>1, <2>2, NowAt DEF LiveInv, LiveTypes, Pipeline
  <2>4. Aging'
    <3>1. Slept' = 0
      <4>1. pc' - 1 = pc /\ program' = program /\ wait' = program[pc].seconds
          BY <1>1, <2>1, NowAt
      <4> QED
          BY <2>2, <4>1 DEF Slept
    <3>2. \A k \in DOMAIN flight : flight[k].age >= 0
      <4>1. flight \in Seq(Ages)
          BY <1>1 DEF LiveInv, LiveTypes
      <4>2. \A k \in DOMAIN flight : flight[k] \in Ages
          BY <4>1
      <4> QED
          BY <4>2 DEF Ages
    <3>3. \A r \in stored : r.age >= 0 - LAG
        BY <1>1, LagAssumption DEF LiveInv, LiveTypes, Ages
    <3>4. 0 <= LAG /\ LAG \in Int
        BY LagAssumption
    <3> QED
        BY <2>1, <3>1, <3>2, <3>3, <3>4 DEF Aging
  <2>5. Measured'
      BY <1>1, <2>1 DEF LiveInv, Measured, Tells
  <2>6. Injected'
      BY <1>1, <2>1, <2>2, NowAt, Script DEF LiveInv, Injected
  <2>7. shown = {}
      BY <1>1, <2>2 DEF LiveInv, Looked
  <2>8. Looked'
      BY <2>1, <2>7 DEF Looked, L!ShownIsInjected
  <2> QED
      BY <2>3, <2>4, <2>5, <2>6, <2>8 DEF LiveInv
<1>2. ASSUME LiveInv, L!ShowLast PROVE LiveInv'
  <2>1. /\ L!Now("show") /\ pc' = pc + 1
        /\ shown' = {L!Printed(r) : r \in {s \in stored : s.age < program[pc].window}}
        /\ UNCHANGED <<program, wait, status, robot_faults, situation, steady, obstacle, overload,
                       flight, stored, flowing, smooth>>
      BY <1>2 DEF L!ShowLast, L!robot, L!pipeline
  <2>2. /\ program \in L!Programs /\ pc \in DOMAIN program /\ program[pc].op = "show" /\ pc >= 1
        /\ status = "running" /\ wait = 0
      BY <1>2, <2>1, NowAt
  <2>3. \A r \in Ages : /\ L!Printed(r) \in Ages /\ L!Printed(r).fresh = r.fresh
                            /\ L!Printed(r).obstacle = r.obstacle
                            /\ L!Printed(r).overload = r.overload
      BY YoungReading DEF L!Printed
  <2>4. LiveTypes' /\ Pipeline'
    <3>1. shown' \subseteq Ages
        BY <1>2, <2>1, <2>3 DEF LiveInv, LiveTypes
    <3> QED
        BY <1>2, <2>1, <3>1, NowAt DEF LiveInv, LiveTypes, Pipeline
  <2>5. Aging'
      BY <1>2, <2>1, NowAt DEF Aging, Asleep
  <2>6. Measured'
      BY <1>2, <2>1 DEF LiveInv, Measured, Tells
  <2>7. Injected'
      BY <1>2, <2>1, <2>2, Script DEF LiveInv, Injected
  <2>8. L!ShownIsInjected'
    <3> SUFFICES ASSUME pc > 1, NEW q \in stored, q.age < program[pc].window
                 PROVE  /\ smooth => L!Printed(q).fresh
                        /\ L!Printed(q).fresh /\ steady =>
                              /\ L!Printed(q).obstacle = ("obstacle" \in robot_faults)
                              /\ "obstacle" \notin robot_faults =>
                                    L!Printed(q).overload = ("motor" \in robot_faults)
      <4>1. pc' > 2 => pc > 1
          BY <1>2, <2>1, NowAt
      <4>2. UNCHANGED <<robot_faults, steady, smooth>>
          BY <2>1
      <4> QED
          BY <2>1, <4>1, <4>2 DEF L!ShownIsInjected
    <3>1. /\ program[pc - 1].op = "sleep" /\ pc > 2 /\ program[pc].window \in 0..15
          /\ program[pc].window + 2 <= program[pc - 1].seconds
        BY <2>2, Script
    <3>2. program[pc - 1].seconds \in 0..20
        BY <2>2, <3>1, Script
    <3>3. Asleep /\ Slept = program[pc - 1].seconds /\ Slept \in 0..20
        BY <2>2, <3>1, <3>2 DEF Asleep, Slept
    <3>4. q \in Ages /\ q.age \in 0..15
        BY <1>2 DEF LiveInv, LiveTypes, Ages
    <3>5. smooth => q.fresh \/ q.age >= Slept - LAG \/ q.age = 15
        BY <1>2, <3>3 DEF LiveInv, Aging
    <3>6. smooth => q.fresh
        BY <3>1, <3>2, <3>3, <3>4, <3>5, LagAssumption
    <3>7. q.fresh /\ steady => Tells(q)
        BY <1>2, <2>2 DEF LiveInv, Measured
    <3>8. program \in MotorPrograms => "motor" \in robot_faults
        BY <1>2, <2>2, Script DEF LiveInv, Injected, MotorPrograms
    <3> QED
        BY <2>3, <3>4, <3>6, <3>7, <3>8 DEF Tells
  <2>9. Looked'
      BY <1>2, <2>1, <2>8, NowAt DEF Looked
  <2> QED
      BY <2>4, <2>5, <2>6, <2>7, <2>9 DEF LiveInv
<1>3. ASSUME LiveInv, L!End PROVE LiveInv'
  <2>1. /\ status = "running" /\ status' = "done"
        /\ UNCHANGED <<program, pc, wait, shown, robot_faults, situation, steady, obstacle,
                       overload, flight, stored, flowing, smooth>>
      BY <1>3 DEF L!End, L!robot, L!pipeline
  <2>2. LiveTypes' /\ Pipeline'
      BY <1>3, <2>1 DEF LiveInv, LiveTypes, Pipeline
  <2>3. Aging' /\ Injected' /\ Looked'
      BY <1>3, <2>1 DEF LiveInv, Aging, Asleep, Injected, Looked, L!ShownIsInjected
  <2>4. Measured'
      BY <1>3, <2>1 DEF LiveInv, Measured, Tells
  <2> QED
      BY <2>2, <2>3, <2>4 DEF LiveInv
<1> QED
    BY <1>1, <1>2, <1>3

LEMMA LiveStep == LiveInv /\ [L!Next]_(L!vars) => LiveInv'
<1> SUFFICES ASSUME LiveInv, [L!Next]_(L!vars) PROVE LiveInv'
    OBVIOUS
<1>1. CASE L!Next
    BY <1>1, LiveTick, LiveStore, LivePipeline, LivePost, LiveScript DEF L!Next
<1>2. CASE UNCHANGED L!vars
  <2>1. UNCHANGED <<program, pc, wait, status, shown, robot_faults, situation, steady, obstacle,
                    overload, flight, stored, flowing, smooth>>
      BY <1>2 DEF L!vars, L!script, L!robot, L!pipeline
  <2>2. LiveTypes' /\ Pipeline'
      BY <2>1 DEF LiveInv, LiveTypes, Pipeline
  <2>3. Aging' /\ Injected' /\ Looked'
      BY <2>1 DEF LiveInv, Aging, Asleep, Slept, Injected, Looked, L!ShownIsInjected
  <2>4. Measured'
      BY <2>1 DEF LiveInv, Measured, Tells
  <2> QED
      BY <2>2, <2>3, <2>4 DEF LiveInv
<1> QED
    BY <1>1, <1>2

LEMMA LiveImplies == LiveInv => L!TypeOK /\ L!ShownIsInjected
<1> SUFFICES ASSUME LiveInv PROVE L!TypeOK /\ L!ShownIsInjected
    OBVIOUS
<1>1. \A r \in stored \cup shown : r.age \in 0..15 /\ r.obstacle \in BOOLEAN
    BY DEF LiveInv, LiveTypes, Ages
<1> QED
    BY <1>1 DEF LiveInv, LiveTypes, Pipeline, Looked, L!TypeOK, L!LONGEST

-----------------------------------------------------------------------------
(* What is written and asked: InfluxRecords *)

\* A name has one type, whatever the measurement.
Tags == {"robot_id", "reason", "alarm_type", "severity", "model", "command", "accepted"}
Strings == I!Judgements \cup {"raw_preview", "description", "health_state", "recommendation",
                              "command_id", "status"}
Wholes == I!Switches \cup {"sequence", "count", "alarm_count", "is_anomaly"}
TypeOf(name) ==
    IF name \in Tags THEN "tag" ELSE IF name \in Strings THEN "string"
    ELSE IF name \in Wholes THEN "integer" ELSE "float"

Typed(columns) == \A c \in columns : c.type = TypeOf(c.name)

\* What the writer of a measurement is sure to write of it.
Sure == [robot_telemetry |-> I!Telemetry, robot_telemetry_invalid |-> I!Invalid,
         robot_state |-> I!State, robot_alarm |-> I!Alarm, robot_prediction |-> I!Prediction({}),
         robot_command |-> I!Command, robot_acknowledgement |-> I!Acknowledgement]
Measurements == {"robot_telemetry", "robot_telemetry_invalid", "robot_state", "robot_alarm",
             "robot_prediction", "robot_command", "robot_acknowledgement"}

Forecast(n) == [measurement |-> "robot_prediction", name |-> n, type |-> "float"]

\* No point was refused; what is sure of a measurement is there once its writer has written;
\* and a forecast is there exactly when one was written.
RecordsInv ==
    /\ refused = {} /\ Typed(schema)
    /\ \A m \in Measurements : I!Writer[m] \in wrote => Sure[m] \subseteq schema
    /\ \A n \in I!Forecasts \cap wrote : Forecast(n) \in schema
    /\ \A c \in schema : c.name \in I!Forecasts => c.name \in wrote

LEMMA RecordsInit == I!Init => RecordsInv
  BY DEF I!Init, RecordsInv, Typed, I!Writer, Measurements, Sure

LEMMA ColumnsTyped ==
    ASSUME NEW m, NEW type, NEW names, \A n \in names : TypeOf(n) = type
    PROVE  Typed(I!Columns(m, type, names))
  BY DEF Typed, I!Columns

LEMMA TypedUnion ==
    ASSUME NEW C, NEW E, Typed(C), Typed(E) PROVE Typed(C \cup E)
  BY DEF Typed

LEMMA NamesTyped ==
    /\ \A n \in I!Pose \cup I!Sensors : TypeOf(n) = "float"
    /\ \A n \in I!Switches \cup {"sequence"} : TypeOf(n) = "integer"
    /\ \A n \in I!Judgements : TypeOf(n) = "string"
  BY DEF TypeOf, Tags, Strings, Wholes, I!Pose, I!Sensors, I!Switches, I!Judgements

LEMMA PointsTyped ==
    /\ Typed(I!Telemetry) /\ Typed(I!Invalid) /\ Typed(I!State) /\ Typed(I!Alarm)
    /\ Typed(I!Command) /\ Typed(I!Acknowledgement)
    /\ \A forecasts \in SUBSET I!Forecasts : Typed(I!Prediction(forecasts))
    /\ Typed(I!DemoTelemetry) /\ Typed(I!DemoState) /\ Typed(I!DemoPrediction)
<1>1. \A n \in Tags : TypeOf(n) = "tag"
    BY DEF TypeOf
<1>2. Typed(I!Telemetry) /\ Typed(I!DemoTelemetry)
  <2>1. /\ Typed(I!Columns("robot_telemetry", "float", I!Pose \cup I!Sensors))
        /\ Typed(I!Columns("robot_telemetry", "integer", I!Switches \cup {"sequence"}))
        /\ Typed(I!Columns("robot_telemetry", "tag", {"robot_id"}))
      BY <1>1, NamesTyped, ColumnsTyped DEF Tags
  <2> QED
      BY <2>1, TypedUnion DEF I!Telemetry, I!DemoTelemetry
<1>3. Typed(I!Invalid)
  <2>1. /\ Typed(I!Columns("robot_telemetry_invalid", "integer", {"count"}))
        /\ Typed(I!Columns("robot_telemetry_invalid", "string", {"raw_preview"}))
        /\ Typed(I!Columns("robot_telemetry_invalid", "tag", {"reason"}))
      BY ColumnsTyped DEF TypeOf, Tags, Strings, Wholes, I!Judgements
  <2> QED
      BY <2>1, TypedUnion DEF I!Invalid
<1>4. Typed(I!State) /\ Typed(I!DemoState)
  <2>1. /\ Typed(I!Columns("robot_state", "string", I!Judgements))
        /\ Typed(I!Columns("robot_state", "string",
                           {"safety_state", "battery_state", "motor_health", "mission_state"}))
      BY NamesTyped, ColumnsTyped DEF I!Judgements
  <2>2. /\ Typed(I!Columns("robot_state", "float", {"cleaning_coverage_pct"}))
        /\ Typed(I!Columns("robot_state", "integer", {"alarm_count"}))
        /\ Typed(I!Columns("robot_state", "tag", {"robot_id"}))
      BY ColumnsTyped DEF TypeOf, Tags, Strings, Wholes, I!Judgements, I!Switches
  <2> QED
      BY <2>1, <2>2, TypedUnion DEF I!State, I!DemoState
<1>5. Typed(I!Alarm)
  <2>1. /\ Typed(I!Columns("robot_alarm", "string", {"description"}))
        /\ Typed(I!Columns("robot_alarm", "float", {"value", "threshold"}))
        /\ Typed(I!Columns("robot_alarm", "tag", {"robot_id", "alarm_type", "severity"}))
      BY ColumnsTyped DEF TypeOf, Tags, Strings, Wholes, I!Judgements, I!Switches
  <2> QED
      BY <2>1, TypedUnion DEF I!Alarm
<1>6. Typed(I!Command) /\ Typed(I!Acknowledgement)
  <2>1. /\ Typed(I!Columns("robot_command", "string", {"command_id", "status"}))
        /\ Typed(I!Columns("robot_command", "tag", {"robot_id", "command"}))
        /\ Typed(I!Columns("robot_acknowledgement", "string", {"command_id"}))
        /\ Typed(I!Columns("robot_acknowledgement", "float", {"latency_ms"}))
        /\ Typed(I!Columns("robot_acknowledgement", "tag", {"robot_id", "command", "accepted"}))
      BY ColumnsTyped DEF TypeOf, Tags, Strings, Wholes, I!Judgements, I!Switches
  <2> QED
      BY <2>1, TypedUnion DEF I!Command, I!Acknowledgement
<1>7. Typed(I!DemoPrediction) /\ \A forecasts \in SUBSET I!Forecasts : Typed(I!Prediction(forecasts))
  <2>1. /\ Typed(I!Columns("robot_prediction", "string", {"motor_health", "dirt_level"}))
        /\ Typed(I!Columns("robot_prediction", "float",
                           {"motor_health_confidence", "dirt_level_confidence"}))
        /\ Typed(I!Columns("robot_prediction", "tag", {"robot_id", "model"}))
        /\ Typed(I!Columns("robot_prediction", "string",
                           {"motor_health", "dirt_level", "health_state", "recommendation"}))
        /\ Typed(I!Columns("robot_prediction", "integer", {"is_anomaly"}))
      BY ColumnsTyped DEF TypeOf, Tags, Strings, Wholes, I!Judgements, I!Switches
  <2>2. ASSUME NEW forecasts \in SUBSET I!Forecasts
        PROVE  Typed(I!Columns("robot_prediction", "float",
                    {"motor_health_confidence", "dirt_level_confidence",
                     "health_state_confidence", "predicted_rul_minutes", "anomaly_score"}
                    \cup forecasts))
      BY ColumnsTyped DEF TypeOf, Tags, Strings, Wholes, I!Judgements, I!Switches, I!Forecasts
  <2> QED
      BY <2>1, <2>2, TypedUnion DEF I!Prediction, I!DemoPrediction
<1> QED
    BY <1>2, <1>3, <1>4, <1>5, <1>6, <1>7

\* The forecasts are fields of the predictions only.
LEMMA ForecastColumns ==
    /\ \A c \in I!Telemetry \cup I!Invalid \cup I!State \cup I!Alarm \cup I!Command
             \cup I!Acknowledgement \cup I!DemoTelemetry \cup I!DemoState \cup I!DemoPrediction :
          c.name \notin I!Forecasts
    /\ \A forecasts \in SUBSET I!Forecasts :
          /\ \A c \in I!Prediction(forecasts) : c.name \in I!Forecasts => c.name \in forecasts
          /\ \A n \in forecasts : Forecast(n) \in I!Prediction(forecasts)
<1> DEFINE Plain(names) == \A n \in names : n \notin I!Forecasts
<1>1. ASSUME NEW m, NEW type, NEW names, NEW c \in I!Columns(m, type, names) PROVE c.name \in names
    BY DEF I!Columns
<1>2. /\ Plain(I!Pose \cup I!Sensors) /\ Plain(I!Switches \cup {"sequence"})
      /\ Plain(I!Judgements)
    BY DEF I!Forecasts, I!Pose, I!Sensors, I!Switches, I!Judgements
<1>3. Plain({"robot_id", "reason", "alarm_type", "severity", "model", "command", "accepted",
             "count", "raw_preview", "cleaning_coverage_pct", "alarm_count", "description",
             "value", "threshold", "command_id", "status", "latency_ms", "motor_health",
             "dirt_level", "health_state", "recommendation", "motor_health_confidence",
             "dirt_level_confidence", "health_state_confidence", "predicted_rul_minutes",
             "anomaly_score", "is_anomaly", "safety_state", "battery_state", "mission_state"})
    BY DEF I!Forecasts
<1>4. \A c \in I!Telemetry \cup I!DemoTelemetry : c.name \notin I!Forecasts
    BY <1>1, <1>2, <1>3 DEF I!Telemetry, I!DemoTelemetry
<1>5. \A c \in I!Invalid \cup I!Alarm \cup I!Command \cup I!Acknowledgement : c.name \notin I!Forecasts
    BY <1>1, <1>3 DEF I!Invalid, I!Alarm, I!Command, I!Acknowledgement
<1>6. \A c \in I!State \cup I!DemoState \cup I!DemoPrediction : c.name \notin I!Forecasts
    BY <1>1, <1>2, <1>3 DEF I!State, I!DemoState, I!DemoPrediction
<1>7. ASSUME NEW forecasts \in SUBSET I!Forecasts, NEW c \in I!Prediction(forecasts),
             c.name \in I!Forecasts
      PROVE  c.name \in forecasts
    BY <1>1, <1>3, <1>7 DEF I!Prediction
<1>8. ASSUME NEW forecasts \in SUBSET I!Forecasts, NEW n \in forecasts
      PROVE  Forecast(n) \in I!Prediction(forecasts)
    BY DEF Forecast, I!Prediction, I!Columns
<1> QED
    BY <1>4, <1>5, <1>6, <1>7, <1>8

\* Writers whose points have the types of their names, and who write at least what is
\* sure of their measurement and the forecasts they claim, and no others.
LEMMA RecordsWrite ==
    ASSUME RecordsInv, NEW writers, NEW point, I!Write(writers, point), Typed(point),
           \A m \in Measurements : I!Writer[m] \in writers => Sure[m] \subseteq point,
           \A n \in I!Forecasts \cap writers : Forecast(n) \in point,
           \A c \in point : c.name \in I!Forecasts => c.name \in writers
    PROVE  RecordsInv'
<1>1. ~\E c \in point, d \in schema : I!Conflict(c, d)
    BY DEF I!Conflict, Typed, RecordsInv
<1>2. wrote' = wrote \cup writers /\ schema' = schema \cup point /\ refused' = refused
    BY <1>1 DEF I!Write
<1> QED
    BY <1>2, TypedUnion DEF RecordsInv

LEMMA RecordsStep == RecordsInv /\ [I!Next]_(I!vars) => RecordsInv'
<1> SUFFICES ASSUME RecordsInv, [I!Next]_(I!vars) PROVE RecordsInv'
    OBVIOUS
<1> DEFINE Fits(writers, point) ==
        /\ \A m \in Measurements : I!Writer[m] \in writers => Sure[m] \subseteq point
        /\ \A n \in I!Forecasts \cap writers : Forecast(n) \in point
        /\ \A c \in point : c.name \in I!Forecasts => c.name \in writers
<1>1. /\ I!Writer["robot_telemetry"] = "telemetry-ingestion"
      /\ I!Writer["robot_telemetry_invalid"] = "validation gate"
      /\ I!Writer["robot_state"] = "state-engine" /\ I!Writer["robot_alarm"] = "alarms"
      /\ I!Writer["robot_prediction"] = "ai-service" /\ I!Writer["robot_command"] = "commands"
      /\ I!Writer["robot_acknowledgement"] = "acknowledgements"
    BY DEF I!Writer
<1>2. /\ Sure["robot_telemetry"] = I!Telemetry /\ Sure["robot_telemetry_invalid"] = I!Invalid
      /\ Sure["robot_state"] = I!State /\ Sure["robot_alarm"] = I!Alarm
      /\ Sure["robot_prediction"] = I!Prediction({}) /\ Sure["robot_command"] = I!Command
      /\ Sure["robot_acknowledgement"] = I!Acknowledgement
    BY DEF Sure
<1>3. /\ Fits({"telemetry-ingestion"}, I!Telemetry) /\ Fits({"validation gate"}, I!Invalid)
      /\ Fits({"state-engine"}, I!State) /\ Fits({"alarms"}, I!Alarm)
      /\ Fits({"commands"}, I!Command) /\ Fits({"acknowledgements"}, I!Acknowledgement)
      /\ Fits({"demo telemetry"}, I!DemoTelemetry) /\ Fits({"demo states"}, I!DemoState)
      /\ Fits({"demo predictions"}, I!DemoPrediction)
  <2> DEFINE Plain(writer, point) == /\ writer \notin I!Forecasts
                                     /\ \A c \in point : c.name \notin I!Forecasts
             Sures(writer, point) ==
                 \A m \in Measurements : I!Writer[m] = writer => Sure[m] \subseteq point
  <2>1. /\ Plain("telemetry-ingestion", I!Telemetry) /\ Plain("validation gate", I!Invalid)
        /\ Plain("state-engine", I!State) /\ Plain("alarms", I!Alarm)
        /\ Plain("commands", I!Command) /\ Plain("acknowledgements", I!Acknowledgement)
        /\ Plain("demo telemetry", I!DemoTelemetry) /\ Plain("demo states", I!DemoState)
        /\ Plain("demo predictions", I!DemoPrediction)
      BY ForecastColumns DEF I!Forecasts
  <2>2. /\ Sures("telemetry-ingestion", I!Telemetry) /\ Sures("validation gate", I!Invalid)
        /\ Sures("state-engine", I!State) /\ Sures("alarms", I!Alarm)
        /\ Sures("commands", I!Command) /\ Sures("acknowledgements", I!Acknowledgement)
        /\ Sures("demo telemetry", I!DemoTelemetry) /\ Sures("demo states", I!DemoState)
        /\ Sures("demo predictions", I!DemoPrediction)
      BY <1>1, <1>2 DEF Measurements
  <2>3. ASSUME NEW writer, NEW point, Plain(writer, point), Sures(writer, point)
        PROVE  Fits({writer}, point)
      BY <2>3
  <2> HIDE DEF Plain, Sures, Fits
  <2> QED
      BY <2>1, <2>2, <2>3
<1>4. ASSUME NEW forecasts \in SUBSET I!Forecasts
      PROVE  Fits({"ai-service"} \cup forecasts, I!Prediction(forecasts))
  <2>1. I!Prediction({}) \subseteq I!Prediction(forecasts)
    <3>1. ASSUME NEW small, NEW large, small \subseteq large
          PROVE  I!Columns("robot_prediction", "float", small)
                   \subseteq I!Columns("robot_prediction", "float", large)
        BY <3>1 DEF I!Columns
    <3> DEFINE floats == {"motor_health_confidence", "dirt_level_confidence",
                          "health_state_confidence", "predicted_rul_minutes", "anomaly_score"}
    <3>2. I!Columns("robot_prediction", "float", floats \cup {})
            \subseteq I!Columns("robot_prediction", "float", floats \cup forecasts)
      <4> HIDE DEF floats
      <4> QED
          BY <3>1
    <3> QED
        BY <3>2 DEF I!Prediction
  <2>2. \A m \in Measurements : I!Writer[m] \in {"ai-service"} \cup forecasts => m = "robot_prediction"
      BY <1>1 DEF Measurements, I!Forecasts
  <2>3. "ai-service" \notin I!Forecasts
      BY DEF I!Forecasts
  <2> QED
      BY <1>2, <2>1, <2>2, <2>3, ForecastColumns
<1>5. ASSUME NEW writers, NEW point, I!Write(writers, point), Typed(point), Fits(writers, point)
      PROVE  RecordsInv'
    BY <1>5, RecordsWrite
<1> HIDE DEF Fits
<1>6. CASE I!Next
  <2>1. CASE I!Write({"telemetry-ingestion"}, I!Telemetry)
      BY <1>3, <1>5, <2>1, PointsTyped
  <2>2. CASE I!Write({"validation gate"}, I!Invalid)
      BY <1>3, <1>5, <2>2, PointsTyped
  <2>3. CASE I!Write({"state-engine"}, I!State)
      BY <1>3, <1>5, <2>3, PointsTyped
  <2>4. CASE I!Write({"alarms"}, I!Alarm)
      BY <1>3, <1>5, <2>4, PointsTyped
  <2>5. ASSUME NEW forecasts \in SUBSET I!Forecasts,
               I!Write({"ai-service"} \cup forecasts, I!Prediction(forecasts))
        PROVE  RecordsInv'
      BY <1>4, <1>5, <2>5, PointsTyped
  <2>6. CASE I!Write({"commands"}, I!Command)
      BY <1>3, <1>5, <2>6, PointsTyped
  <2>7. CASE I!Write({"acknowledgements"}, I!Acknowledgement)
      BY <1>3, <1>5, <2>7, PointsTyped
  <2>8. CASE I!Write({"demo telemetry"}, I!DemoTelemetry)
      BY <1>3, <1>5, <2>8, PointsTyped
  <2>9. CASE I!Write({"demo states"}, I!DemoState)
      BY <1>3, <1>5, <2>9, PointsTyped
  <2>10. CASE I!Write({"demo predictions"}, I!DemoPrediction)
      BY <1>3, <1>5, <2>10, PointsTyped
  <2> QED
      BY <1>6, <2>1, <2>2, <2>3, <2>4, <2>5, <2>6, <2>7, <2>8, <2>9, <2>10 DEF I!Next
<1>7. CASE UNCHANGED I!vars
    BY <1>7 DEF I!vars, RecordsInv
<1> QED
    BY <1>6, <1>7

\* Columns that are sure to be there.
Asked == [robot_telemetry |-> I!Pose \cup I!Sensors, robot_telemetry_invalid |-> {"reason", "count"},
          robot_state |-> I!Judgements \cup {"cleaning_coverage_pct", "alarm_count"},
          robot_alarm |-> {"description"},
          robot_prediction |-> {"recommendation", "anomaly_score", "health_state", "motor_health",
                                "dirt_level", "is_anomaly", "predicted_rul_minutes"},
          robot_command |-> {"command_id"},
          robot_acknowledgement |-> {"command_id", "command", "accepted"}]

LEMMA InColumns ==
    ASSUME NEW m, NEW type, NEW names, NEW n \in names
    PROVE  \E c \in I!Columns(m, type, names) : c.measurement = m /\ c.name = n /\ c.type = type
<1>1. [measurement |-> m, name |-> n, type |-> type] \in I!Columns(m, type, names)
    BY DEF I!Columns
<1> QED
    BY <1>1

LEMMA SureColumns ==
    ASSUME NEW m \in Measurements
    PROVE  /\ \A n \in Asked[m] : \E c \in Sure[m] : c.measurement = m /\ c.name = n
           /\ \E c \in Sure[m] : c.measurement = m /\ c.type # "tag"
<1> DEFINE Has(names) == \A n \in names : \E c \in Sure[m] : c.measurement = m /\ c.name = n
           Bears == \E c \in Sure[m] : c.measurement = m /\ c.type # "tag"
<1>1. ASSUME NEW type, NEW names, I!Columns(m, type, names) \subseteq Sure[m]
      PROVE  Has(names) /\ (type # "tag" /\ names # {} => Bears)
    BY <1>1, InColumns
<1> HIDE DEF Has, Bears
<1>2. CASE m = "robot_telemetry"
  <2>1. I!Columns(m, "float", I!Pose \cup I!Sensors) \subseteq Sure[m] /\ Asked[m] = I!Pose \cup I!Sensors
      BY <1>2 DEF Sure, Asked, I!Telemetry
  <2> QED
      BY <1>1, <2>1 DEF I!Pose, Has, Bears
<1>3. CASE m = "robot_telemetry_invalid"
  <2>1. /\ I!Columns(m, "integer", {"count"}) \subseteq Sure[m]
        /\ I!Columns(m, "tag", {"reason"}) \subseteq Sure[m] /\ Asked[m] = {"reason", "count"}
      BY <1>3 DEF Sure, Asked, I!Invalid
  <2>2. Has({"count"}) /\ Has({"reason"}) /\ Bears
      BY <1>1, <2>1
  <2> QED
      BY <2>1, <2>2 DEF Has, Bears
<1>4. CASE m = "robot_state"
  <2>1. /\ I!Columns(m, "string", I!Judgements) \subseteq Sure[m]
        /\ I!Columns(m, "float", {"cleaning_coverage_pct"}) \subseteq Sure[m]
        /\ I!Columns(m, "integer", {"alarm_count"}) \subseteq Sure[m]
        /\ Asked[m] = I!Judgements \cup {"cleaning_coverage_pct", "alarm_count"}
      BY <1>4 DEF Sure, Asked, I!State
  <2>2. Has(I!Judgements) /\ Has({"cleaning_coverage_pct"}) /\ Has({"alarm_count"}) /\ Bears
      BY <1>1, <2>1
  <2> QED
      BY <2>1, <2>2 DEF Has, Bears
<1>5. CASE m = "robot_alarm"
  <2>1. I!Columns(m, "string", {"description"}) \subseteq Sure[m] /\ Asked[m] = {"description"}
      BY <1>5 DEF Sure, Asked, I!Alarm
  <2> QED
      BY <1>1, <2>1 DEF Has, Bears
<1>6. CASE m = "robot_prediction"
  <2> DEFINE strings == {"motor_health", "dirt_level", "health_state", "recommendation"}
             floats == {"motor_health_confidence", "dirt_level_confidence",
                        "health_state_confidence", "predicted_rul_minutes", "anomaly_score"} \cup {}
  <2>1. /\ I!Columns(m, "string", strings) \subseteq Sure[m]
        /\ I!Columns(m, "float", floats) \subseteq Sure[m]
        /\ I!Columns(m, "integer", {"is_anomaly"}) \subseteq Sure[m]
    <3> HIDE DEF strings, floats
    <3> QED
        BY <1>6 DEF Sure, I!Prediction, strings, floats
  <2>2. Has(strings) /\ Has(floats) /\ Has({"is_anomaly"}) /\ Bears
      BY <1>1, <2>1
  <2>3. Asked[m] \subseteq strings \cup floats \cup {"is_anomaly"}
      BY <1>6 DEF Asked
  <2> QED
      BY <2>2, <2>3 DEF Has, Bears
<1>7. CASE m = "robot_command"
  <2>1. I!Columns(m, "string", {"command_id", "status"}) \subseteq Sure[m]
        /\ Asked[m] = {"command_id"}
      BY <1>7 DEF Sure, Asked, I!Command
  <2> QED
      BY <1>1, <2>1 DEF Has, Bears
<1>8. CASE m = "robot_acknowledgement"
  <2>1. /\ I!Columns(m, "string", {"command_id"}) \subseteq Sure[m]
        /\ I!Columns(m, "tag", {"robot_id", "command", "accepted"}) \subseteq Sure[m]
        /\ Asked[m] = {"command_id", "command", "accepted"}
      BY <1>8 DEF Sure, Asked, I!Acknowledgement
  <2>2. Has({"command_id"}) /\ Has({"robot_id", "command", "accepted"}) /\ Bears
      BY <1>1, <2>1
  <2> QED
      BY <2>1, <2>2 DEF Has, Bears
<1> QED
    BY <1>2, <1>3, <1>4, <1>5, <1>6, <1>7, <1>8 DEF Measurements

\* A query that asks for what is sure to be there or for a forecast, calculates with numbers
\* and compares strings only, and looks by name unless its answer has a time.
Sound(q) ==
    /\ q.measurements # {} /\ q.measurements \subseteq Measurements
    /\ \A m \in q.measurements : q.names \ I!Forecasts \subseteq Asked[m]
    /\ q.names \cap I!Forecasts # {} => "robot_prediction" \in q.measurements
    /\ q.needs # "alike"
    /\ q.needs = "number" => q.names # {} /\ \A n \in q.names : TypeOf(n) \in {"integer", "float"}
    /\ q.needs = "text" => q.names # {} /\ \A n \in q.names : TypeOf(n) = "string"
    /\ q.reads = "position" => q.timed

LEMMA SoundIsServed ==
    ASSUME RecordsInv, NEW q, Sound(q), \A m \in q.measurements : I!Writer[m] \in wrote,
           q.names \cap I!Forecasts \subseteq wrote
    PROVE  I!Served(q)
<1>1. \A m \in q.measurements : Sure[m] \subseteq schema
    BY DEF RecordsInv, Sound
<1>2. PICK m \in q.measurements : m \in Measurements
    BY DEF Sound
<1>3. \A n \in q.names : \E c \in I!Found(q) : c.name = n
  <2> SUFFICES ASSUME NEW n \in q.names PROVE \E c \in I!Found(q) : c.name = n
      OBVIOUS
  <2>1. CASE n \in I!Forecasts
    <3>1. /\ Forecast(n) \in schema /\ Forecast(n).name = n
          /\ Forecast(n).measurement \in q.measurements
        BY <2>1 DEF RecordsInv, Forecast, Sound
    <3>2. Forecast(n) \in I!Found(q)
        BY <3>1 DEF I!Found
    <3> QED
        BY <3>1, <3>2
  <2>2. CASE n \notin I!Forecasts
    <3>1. PICK c \in Sure[m] : c.measurement = m /\ c.name = n
        BY <1>2, <2>2, SureColumns DEF Sound
    <3>2. c \in I!Found(q)
        BY <1>1, <1>2, <3>1 DEF I!Found
    <3> QED
        BY <3>1, <3>2
  <2> QED
      BY <2>1, <2>2
<1>4. I!Found(q) # {}
  <2>1. CASE q.names # {}
      BY <1>3, <2>1
  <2>2. CASE q.names = {}
    <3>1. PICK c \in Sure[m] : c.measurement = m /\ c.type # "tag"
        BY <1>2, SureColumns
    <3>2. c \in I!Found(q)
        BY <1>1, <1>2, <2>2, <3>1 DEF I!Found
    <3> QED
        BY <3>2
  <2> QED
      BY <2>1, <2>2
<1>5. ASSUME q.names # {}, NEW c \in I!Found(q) PROVE c.name \in q.names /\ c.type = TypeOf(c.name)
    BY <1>5 DEF I!Found, RecordsInv, Typed
<1>6. q.needs = "number" => \A c \in I!Found(q) : c.type \in {"integer", "float"}
    BY <1>5 DEF Sound
<1>7. q.needs = "text" => \A c \in I!Found(q) : c.type = "string"
    BY <1>5 DEF Sound
<1> QED
    BY <1>3, <1>4, <1>6, <1>7 DEF I!Served, Sound

\* A forecast that was never written is not found.
LEMMA NotYetServed ==
    ASSUME RecordsInv, NEW q, ~(q.names \cap I!Forecasts \subseteq wrote)
    PROVE  ~I!Served(q)
<1>1. PICK n \in q.names : n \in I!Forecasts /\ n \notin wrote
    OBVIOUS
<1>2. \A c \in I!Found(q) : c.name # n
    BY <1>1 DEF I!Found, RecordsInv
<1> QED
    BY <1>1, <1>2 DEF I!Served

LEMMA AskedIsSure == \A m \in Measurements : Asked[m] \cap I!Forecasts = {}
  BY DEF Asked, Measurements, I!Pose, I!Sensors, I!Judgements, I!Forecasts

LEMMA SoundAny ==
    ASSUME NEW m \in Measurements, NEW names, names \subseteq Asked[m], NEW needs \in {"any", "cast"},
           NEW timed \in BOOLEAN, NEW reads \in {"name", "position"}, reads = "position" => timed
    PROVE  Sound(I!Query({m}, names, needs, timed, reads))
  BY AskedIsSure DEF Sound, I!Query

LEMMA SoundNumber ==
    ASSUME NEW m \in Measurements, NEW names, names \subseteq Asked[m], names # {},
           NEW timed \in BOOLEAN, NEW reads \in {"name", "position"}, reads = "position" => timed,
           \A n \in names : TypeOf(n) \in {"integer", "float"}
    PROVE  Sound(I!Query({m}, names, "number", timed, reads))
  BY AskedIsSure DEF Sound, I!Query

LEMMA AskedNames ==
    /\ Asked["robot_telemetry"] =
         {"x_m", "y_m", "heading_deg", "speed_mps", "obstacle_cm", "battery_v", "battery_soc",
          "battery_a", "motor_current_a", "motor_temperature_c", "dirt_score", "water_level_pct"}
    /\ Asked["robot_telemetry_invalid"] = {"reason", "count"}
    /\ Asked["robot_state"] =
         {"safety_state", "battery_state", "mission_state", "motion_state", "operation_mode",
          "motor_health", "dirt_level", "connection_state", "twin_quality", "cleaning_coverage_pct",
          "alarm_count"}
    /\ Asked["robot_prediction"] =
         {"recommendation", "anomaly_score", "health_state", "motor_health", "dirt_level",
          "is_anomaly", "predicted_rul_minutes"}
    /\ Asked["robot_alarm"] = {"description"}
    /\ Asked["robot_acknowledgement"] = {"command_id", "command", "accepted"}
  BY DEF Asked, I!Pose, I!Sensors, I!Judgements

LEMMA NumberNames ==
    \A n \in Asked["robot_telemetry"] \cup
             {"cleaning_coverage_pct", "anomaly_score", "predicted_rul_minutes", "alarm_count"}
             \cup I!Forecasts :
        TypeOf(n) \in {"integer", "float"}
<1>1. \A n \in {"cleaning_coverage_pct", "anomaly_score", "predicted_rul_minutes", "alarm_count"}
               \cup I!Forecasts :
        TypeOf(n) \in {"integer", "float"}
    BY DEF TypeOf, Tags, Strings, Wholes, I!Judgements, I!Switches, I!Forecasts
<1>2. \A n \in Asked["robot_telemetry"] : TypeOf(n) = "float"
    BY NamesTyped DEF Asked
<1> QED
    BY <1>1, <1>2

LEMMA MeasuredNames ==
    /\ "robot_telemetry" \in Measurements /\ "robot_telemetry_invalid" \in Measurements
    /\ "robot_state" \in Measurements /\ "robot_alarm" \in Measurements
    /\ "robot_prediction" \in Measurements /\ "robot_command" \in Measurements
    /\ "robot_acknowledgement" \in Measurements
  BY DEF Measurements

LEMMA DashboardSound ==
    \A q \in I!DashboardTables \cup I!DashboardCells : Sound(q)
<1>1. Sound(I!Query({"robot_telemetry", "robot_state", "robot_prediction"}, {}, "cast", TRUE, "name"))
    BY MeasuredNames DEF Sound, I!Query
<1>2. /\ Sound(I!Query({"robot_state"}, {}, "cast", TRUE, "name"))
      /\ Sound(I!Query({"robot_acknowledgement"}, {"command", "accepted"}, "any", TRUE, "name"))
      /\ Sound(I!Query({"robot_telemetry_invalid"}, {"reason"}, "cast", TRUE, "name"))
    BY SoundAny, MeasuredNames, AskedNames
<1>3. \A q \in I!DashboardTables : Sound(q)
    BY <1>1, <1>2 DEF I!DashboardTables, I!TableView
<1>4. /\ Sound(I!Query({"robot_telemetry"}, {"x_m", "y_m"}, "number", TRUE, "name"))
      /\ Sound(I!Query({"robot_telemetry"}, {"battery_soc"}, "number", TRUE, "name"))
      /\ Sound(I!Query({"robot_telemetry"}, {"motor_temperature_c"}, "number", TRUE, "name"))
      /\ Sound(I!Query({"robot_telemetry"}, {"battery_soc"}, "number", FALSE, "name"))
    BY SoundNumber, NumberNames, MeasuredNames, AskedNames
<1>5. /\ Sound(I!Query({"robot_prediction"}, {"anomaly_score"}, "number", TRUE, "name"))
      /\ Sound(I!Query({"robot_prediction"}, {"predicted_rul_minutes"}, "number", TRUE, "name"))
      /\ Sound(I!Query({"robot_state"}, {"cleaning_coverage_pct"}, "number", TRUE, "name"))
    BY SoundNumber, NumberNames, MeasuredNames, AskedNames
<1>6. \A q \in I!DashboardCells : Sound(q)
    BY <1>4, <1>5 DEF I!DashboardCells, I!XyView, I!SingleStat
<1> QED
    BY <1>3, <1>6

LEMMA PanelsSound ==
    ASSUME NEW m \in Measurements, NEW names, NEW needs, needs \in {"number", "text", "any"},
           \A n \in names : n \in Asked[m] \/ (m = "robot_prediction" /\ n \in I!Forecasts),
           needs = "number" => \A n \in names : TypeOf(n) \in {"integer", "float"},
           needs = "text" => \A n \in names : TypeOf(n) = "string"
    PROVE  \A q \in I!Panels(m, names, needs) : Sound(q)
<1>1. ASSUME NEW n \in names PROVE Sound(I!Query({m}, {n}, needs, TRUE, "name"))
    BY AskedIsSure DEF Sound, I!Query
<1> QED
    BY <1>1 DEF I!Panels, I!TableView

\* The panels that show a forecast are sound: they ask for a field of the right type.
LEMMA GrafanaSound == \A q \in I!GrafanaPanels : Sound(q)
<1>1. \A n \in {"safety_state", "mission_state", "motor_health", "dirt_level"} :
        TypeOf(n) = "string"
    BY DEF TypeOf, Tags, Strings, I!Judgements
<1>2. \A q \in I!Panels("robot_state", {"safety_state", "mission_state"}, "text") : Sound(q)
    BY <1>1, PanelsSound, MeasuredNames, AskedNames
<1>3. \A q \in I!Panels("robot_prediction", {"motor_health", "dirt_level"}, "text") : Sound(q)
    BY <1>1, PanelsSound, MeasuredNames, AskedNames
<1>4. \A q \in I!Panels("robot_prediction", {"health_state", "is_anomaly", "recommendation"}, "any") :
        Sound(q)
    BY PanelsSound, MeasuredNames, AskedNames
<1>5. \A q \in I!Panels("robot_prediction",
                       {"predicted_rul_minutes", "anomaly_score"} \cup I!Forecasts, "number") : Sound(q)
  <2> DEFINE names == {"predicted_rul_minutes", "anomaly_score"} \cup I!Forecasts
  <2>1. \A n \in names : n \in Asked["robot_prediction"] \cup I!Forecasts
      BY AskedNames
  <2>2. \A n \in names : TypeOf(n) \in {"integer", "float"}
      BY NumberNames
  <2> HIDE DEF names
  <2>3. \A q \in I!Panels("robot_prediction", names, "number") : Sound(q)
      BY <2>1, <2>2, PanelsSound, MeasuredNames
  <2> QED
      BY <2>3 DEF names
<1>6. \A q \in I!Panels("robot_state", {"cleaning_coverage_pct", "alarm_count"}, "number") : Sound(q)
    BY PanelsSound, NumberNames, MeasuredNames, AskedNames
<1>7. \A q \in I!Panels("robot_telemetry",
                       {"battery_soc", "battery_v", "obstacle_cm", "motor_current_a",
                        "motor_temperature_c", "dirt_score"}, "number") : Sound(q)
    BY PanelsSound, NumberNames, MeasuredNames, AskedNames
<1>8. /\ Sound(I!XyView("robot_telemetry", {"x_m", "y_m"}))
      /\ Sound(I!TableView({"robot_alarm"}, {"description"}, "any"))
      /\ Sound(I!TableView({"robot_alarm"}, {}, "any"))
  <2>1. Sound(I!Query({"robot_telemetry"}, {"x_m", "y_m"}, "number", TRUE, "name"))
      BY SoundNumber, NumberNames, MeasuredNames, AskedNames
  <2>2. /\ Sound(I!Query({"robot_alarm"}, {"description"}, "any", TRUE, "name"))
        /\ Sound(I!Query({"robot_alarm"}, {}, "any", TRUE, "name"))
      BY SoundAny, MeasuredNames, AskedNames
  <2> QED
      BY <2>1, <2>2 DEF I!XyView, I!TableView
<1> QED
    BY <1>2, <1>3, <1>4, <1>5, <1>6, <1>7, <1>8 DEF I!GrafanaPanels

LEMMA SceneAndConsoleSound ==
    \A q \in I!SceneQueries \cup I!ConsoleQueries \cup I!VisualizationCells \cup I!ModelCells :
        Sound(q)
<1>1. Sound(I!Query({"robot_telemetry"}, {"x_m", "y_m", "heading_deg", "battery_soc"},
                    "cast", TRUE, "name"))
    BY SoundAny, MeasuredNames, AskedNames
<1>2. Sound(I!Query({"robot_state"}, {"safety_state", "mission_state", "cleaning_coverage_pct"},
                    "cast", TRUE, "name"))
    BY SoundAny, MeasuredNames, AskedNames
<1>3. ASSUME NEW m \in {"robot_telemetry", "robot_state", "robot_prediction"}
      PROVE  Sound(I!LastOf(m, {}))
  <2>1. m \in Measurements /\ {} \subseteq Asked[m]
      BY MeasuredNames
  <2> QED
      BY <2>1, SoundAny DEF I!LastOf
<1>4. \A q \in I!SceneQueries : Sound(q)
    BY <1>1, <1>2 DEF I!SceneQueries
<1>5. \A q \in I!ConsoleQueries : Sound(q)
    BY <1>3 DEF I!ConsoleQueries
<1>6. \A q \in I!ModelCells : Sound(q)
    BY <1>3 DEF I!ModelCells
<1> QED
    BY <1>4, <1>5, <1>6 DEF I!VisualizationCells

LEMMA NotebooksSound ==
    \A q \in I!WalkthroughCells \cup I!StreamingCells : Sound(q)
<1>1. /\ Sound(I!Query({"robot_telemetry"}, {}, "any", TRUE, "position"))
      /\ Sound(I!Query({"robot_state"}, {}, "any", TRUE, "position"))
    BY SoundAny, MeasuredNames
<1>2. Sound(I!Query({"robot_telemetry"}, {"speed_mps"}, "any", TRUE, "position"))
    BY SoundAny, MeasuredNames, AskedNames
<1>3. Sound(I!Query({"robot_prediction"}, {"recommendation", "anomaly_score", "health_state"},
                    "any", TRUE, "position"))
    BY SoundAny, MeasuredNames, AskedNames
<1>4. \A q \in I!WalkthroughCells : Sound(q)
    BY <1>1, <1>2, <1>3 DEF I!WalkthroughCells, I!LastOf
<1>5. /\ Sound(I!Query({"robot_telemetry"}, {"motor_current_a"}, "number", TRUE, "position"))
      /\ Sound(I!Query({"robot_telemetry"}, {"motor_temperature_c"}, "number", TRUE, "position"))
      /\ Sound(I!Query({"robot_telemetry"}, {"battery_soc"}, "number", TRUE, "position"))
      /\ Sound(I!Query({"robot_state"}, {"cleaning_coverage_pct"}, "number", TRUE, "position"))
    BY SoundNumber, NumberNames, MeasuredNames, AskedNames
<1>6. \A q \in I!StreamingCells : Sound(q)
    BY <1>1, <1>5 DEF I!StreamingCells, I!LastOf, I!Aggregate
<1> QED
    BY <1>4, <1>6

LEMMA PresentationSound ==
    \A q \in I!PresentedTelemetry \cup I!PresentedState \cup I!PresentedRejections
             \cup I!PresentedScene \cup I!PresentedPrediction \cup I!PresentedPosition
             \cup I!PresentedCounts : Sound(q)
<1>1. \A q \in I!PresentedTelemetry : Sound(q)
  <2>1. Sound(I!Query({"robot_telemetry"},
              {"x_m", "y_m", "heading_deg", "battery_soc", "motor_temperature_c",
               "water_level_pct", "obstacle_cm"}, "any", TRUE, "name"))
      BY SoundAny, MeasuredNames, AskedNames
  <2> QED
      BY <2>1 DEF I!PresentedTelemetry, I!FrameOf
<1>2. \A q \in I!PresentedState : Sound(q)
  <2>1. Sound(I!Query({"robot_state"},
              {"safety_state", "battery_state", "motor_health", "dirt_level",
               "cleaning_coverage_pct", "twin_quality"}, "any", TRUE, "name"))
      BY SoundAny, MeasuredNames, AskedNames
  <2>2. Sound(I!Query({"robot_telemetry"},
              {"obstacle_cm", "battery_soc", "motor_temperature_c", "dirt_score"},
              "any", TRUE, "name"))
      BY SoundAny, MeasuredNames, AskedNames
  <2> QED
      BY <2>1, <2>2 DEF I!PresentedState, I!FrameOf
<1>3. \A q \in I!PresentedRejections : Sound(q)
  <2>1. Sound(I!Query({"robot_telemetry_invalid"}, {"reason"}, "any", TRUE, "name"))
      BY SoundAny, MeasuredNames, AskedNames
  <2> QED
      BY <2>1 DEF I!PresentedRejections, I!FrameOf
<1>4. \A q \in I!PresentedScene : Sound(q)
  <2>1. Sound(I!Query({"robot_telemetry"}, {"x_m", "y_m", "heading_deg", "battery_soc"}, "any", TRUE, "name"))
      BY SoundAny, MeasuredNames, AskedNames
  <2> QED
      BY <2>1 DEF I!PresentedScene, I!FrameOf
<1>5. \A q \in I!PresentedPrediction : Sound(q)
    BY SoundAny, MeasuredNames DEF I!PresentedPrediction, I!FrameOf
<1>6. \A q \in I!PresentedPosition : Sound(q)
  <2>1. Sound(I!Query({"robot_telemetry"}, {"x_m", "y_m"}, "any", TRUE, "name"))
      BY SoundAny, MeasuredNames, AskedNames
  <2> QED
      BY <2>1 DEF I!PresentedPosition, I!FrameOf
<1>7. \A q \in I!PresentedCounts : Sound(q)
  <2>1. ASSUME NEW m \in {"robot_telemetry", "robot_state", "robot_prediction",
                          "robot_command", "robot_acknowledgement", "robot_alarm"}
        PROVE  Sound(I!Query({m}, {}, "any", FALSE, "name"))
    <3>1. m \in Measurements /\ {} \subseteq Asked[m]
        BY MeasuredNames
    <3> QED
        BY <3>1, SoundAny
  <2> QED
      BY <2>1 DEF I!PresentedCounts
<1> QED
    BY <1>1, <1>2, <1>3, <1>4, <1>5, <1>6, <1>7

\* The counts of the streaming notebook look for a position in an answer without a time.
LEMMA CountsAreNotServed ==
    \A q \in I!CountCells : ~I!Served(q) /\ ~Sound(q)
<1>1. \A q \in I!CountCells : q.reads = "position" /\ ~q.timed
    BY DEF I!CountCells, I!Query
<1> QED
    BY <1>1 DEF I!Served, Sound

LEMMA RecordsImplies == RecordsInv => I!ReadersServed
<1> SUFFICES ASSUME RecordsInv PROVE I!ReadersServed
    OBVIOUS
<1>1. \A q \in I!Queries : q \in I!CountCells \/ Sound(q)
    BY DashboardSound, GrafanaSound, SceneAndConsoleSound, NotebooksSound, PresentationSound
    DEF I!Queries
<1> QED
    BY <1>1, SoundIsServed, NotYetServed, CountsAreNotServed DEF I!ReadersServed, RecordsInv

-----------------------------------------------------------------------------
(* How notebooks are exported: NotebookExport *)

Dirs == {"printable-html", "submission-pdfs"}
Scratch == [html : X!Files, pdf : X!Files]
Editions == [file : X!Files, by : X!Scripts \cup {"nobody"}]

\* version is no file, or made from the notebook as it was at the start or later.
Recent(s, n, version) == version = 0 \/ version >= begun[s][n]

\* A file no script has failed to write to its end, and webpdf's are whole.
Finished(s, file) == file.cut # "writing" /\ (s = "webpdf" => file.cut = "no")

\* What the temporary folder may hold of a notebook: nothing, or a file of this run.
Fresh(s, n, file) == Recent(s, n, file.of) /\ Finished(s, file) /\ (file.of = 0 => file = X!NoFile)

ExportTypes ==
    /\ edits \in Nat /\ source \in [X!Names -> 0..edits]
    /\ outputs \in [Dirs -> [X!Names -> Editions]]
    /\ at \in [X!Scripts -> 0..Len(NOTEBOOKS) + 1]
    /\ step \in [X!Scripts -> {"convert", "print", "write"}]
    /\ tmp \in [X!Scripts -> [X!Names -> Scratch]]
    /\ ok \in [X!Scripts -> SUBSET X!Names]
    /\ begun \in [X!Scripts -> [X!Names -> 0..edits]]

\* While a script runs, its temporary folder holds nothing older than the run, it is
\* about to write what is there, and has reported OK only what it has passed.
Underway(s) ==
    /\ \A n \in X!Names : Fresh(s, n, tmp[s][n].html) /\ Fresh(s, n, tmp[s][n].pdf)
    /\ step[s] = "write" /\ at[s] \in DOMAIN NOTEBOOKS => X!Made(s, NOTEBOOKS[at[s]]).of # 0
    /\ step[s] = "print" /\ at[s] \in DOMAIN NOTEBOOKS => tmp[s][NOTEBOOKS[at[s]]].html.of # 0
    /\ \A n \in ok[s] : \E j \in 1..at[s] - 1 : NOTEBOOKS[j] = n

Kept(s) ==
    \A n \in ok[s] :
        LET output == outputs[X!OUT_DIR[s]][n]
        IN  output.by = s =>
                /\ output.file.of # 0 /\ output.file.of >= begun[s][n]
                /\ Finished(s, output.file)

ExportInv ==
    /\ ExportTypes
    /\ \A s \in X!Scripts : \A n \in X!Names : Recent(s, n, source[n])
    /\ \A s \in X!Scripts : (at[s] > 0 => Underway(s)) /\ Kept(s)

LEMMA NoFileTyped ==
    /\ X!NoFile \in X!Files /\ X!NoFile.of = 0 /\ X!NoFile.cut = "no"
    /\ X!NoFiles \in [X!Names -> Scratch]
    /\ \A n \in X!Names : X!NoFiles[n].html = X!NoFile /\ X!NoFiles[n].pdf = X!NoFile
<1>1. X!NoFile \in X!Files /\ X!NoFile.of = 0 /\ X!NoFile.cut = "no"
    BY DEF X!NoFile, X!Files
<1> QED
    BY <1>1 DEF X!NoFiles, Scratch

\* What a converter or a writer makes of a file.
LEMMA WholeTyped ==
    ASSUME NEW version \in Nat
    PROVE  X!Whole(version) \in X!Files /\ X!Whole(version).of = version
           /\ X!Whole(version).cut = "no"
  BY DEF X!Whole, X!Files

LEMMA CutTyped ==
    ASSUME NEW file \in X!Files, NEW by \in {"converting", "writing"}
    PROVE  X!Cut(file, by) \in X!Files /\ X!Cut(file, by).of = file.of /\ X!Cut(file, by).cut = by
  BY DEF X!Cut, X!Files

LEMMA ExportInit == X!Init => ExportInv
<1> SUFFICES ASSUME X!Init PROVE ExportInv
    OBVIOUS
<1>1. Len(NOTEBOOKS) \in Nat
    BY NotebookAssumption
<1>2. X!NoFiles \in [X!Names -> Scratch]
    BY NoFileTyped
<1>3. [n \in X!Names |-> [file |-> X!NoFile, by |-> "nobody"]] \in [X!Names -> Editions]
    BY NoFileTyped DEF Editions
<1>4. outputs \in [Dirs -> [X!Names -> Editions]]
    BY <1>3 DEF X!Init, Dirs
<1>5. ExportTypes
    BY <1>1, <1>2, <1>4 DEF X!Init, ExportTypes
<1> QED
    BY <1>5 DEF X!Init, ExportInv, Recent, Kept

\* What a script that is at n is allowed to assume.
LEMMA Doing ==
    ASSUME ExportInv, NEW s \in X!Scripts, NEW n, NEW what, X!Does(s, what, n)
    PROVE  /\ at[s] \in 1..Len(NOTEBOOKS) /\ n = NOTEBOOKS[at[s]] /\ n \in X!Names
           /\ step[s] = what /\ Underway(s) /\ n \notin ok[s]
           /\ at[s] \in DOMAIN NOTEBOOKS
           /\ \A k \in ok[s] : \E j \in 1..at[s] : NOTEBOOKS[j] = k
<1>1. /\ at[s] \in 1..Len(NOTEBOOKS) /\ n = NOTEBOOKS[at[s]] /\ step[s] = what
      /\ DOMAIN NOTEBOOKS = 1..Len(NOTEBOOKS) /\ Len(NOTEBOOKS) \in Nat
    BY NotebookAssumption DEF X!Does
<1>2. n \in X!Names
    BY <1>1 DEF X!Names
<1>3. Underway(s)
    BY <1>1 DEF ExportInv
<1>4. n \notin ok[s]
  <2> SUFFICES ASSUME n \in ok[s] PROVE FALSE
      OBVIOUS
  <2>1. PICK j \in 1..at[s] - 1 : NOTEBOOKS[j] = n
      BY <1>3 DEF Underway
  <2>2. j \in DOMAIN NOTEBOOKS /\ at[s] \in DOMAIN NOTEBOOKS /\ j # at[s]
      BY <1>1, <2>1
  <2> QED
      BY <1>1, <2>1, <2>2, NotebookAssumption
<1>5. \A k \in ok[s] : \E j \in 1..at[s] : NOTEBOOKS[j] = k
    BY <1>1, <1>3 DEF Underway
<1> QED
    BY <1>1, <1>2, <1>3, <1>4, <1>5

\* A step of script s alone, that leaves outputs and reports as they are, keeps the
\* invariant if it keeps s in order.
LEMMA Alone ==
    ASSUME ExportInv, NEW s \in X!Scripts,
           UNCHANGED <<source, outputs, ok, begun, edits>>,
           \A r \in X!Scripts \ {s} : at'[r] = at[r] /\ step'[r] = step[r] /\ tmp'[r] = tmp[r],
           at' \in [X!Scripts -> 0..Len(NOTEBOOKS) + 1],
           step' \in [X!Scripts -> {"convert", "print", "write"}],
           tmp' \in [X!Scripts -> [X!Names -> Scratch]],
           at'[s] > 0 => Underway(s)'
    PROVE  ExportInv'
<1>1. ExportTypes'
    BY DEF ExportInv, ExportTypes
<1>2. \A r \in X!Scripts : at'[r] > 0 => Underway(r)'
    BY DEF ExportInv, Underway, Fresh, Recent, X!Made
<1>3. \A r \in X!Scripts : Kept(r)'
    BY DEF ExportInv, Kept
<1>4. \A r \in X!Scripts : \A n \in X!Names : Recent(r, n, source[n])'
    BY DEF ExportInv, Recent
<1> QED
    BY <1>1, <1>2, <1>3, <1>4 DEF ExportInv

\* The step and the place of a script that goes on.
LEMMA GoesOn ==
    ASSUME ExportInv, NEW s \in X!Scripts, NEW n, NEW what, X!Does(s, what, n)
    PROVE  /\ X!NextNotebook(s) =>
                  /\ at'[s] = at[s] + 1 /\ step'[s] = "convert"
                  /\ \A r \in X!Scripts \ {s} : at'[r] = at[r] /\ step'[r] = step[r]
                  /\ at' \in [X!Scripts -> 0..Len(NOTEBOOKS) + 1]
                  /\ step' \in [X!Scripts -> {"convert", "print", "write"}]
           /\ \A done \in {"print", "write"} : X!Goes(s, done) =>
                  /\ at'[s] = at[s] /\ step'[s] = done
                  /\ \A r \in X!Scripts \ {s} : at'[r] = at[r] /\ step'[r] = step[r]
                  /\ at' \in [X!Scripts -> 0..Len(NOTEBOOKS) + 1]
                  /\ step' \in [X!Scripts -> {"convert", "print", "write"}]
           /\ X!Ends(s) =>
                  /\ at'[s] = 0
                  /\ \A r \in X!Scripts \ {s} : at'[r] = at[r] /\ step'[r] = step[r]
                  /\ at' \in [X!Scripts -> 0..Len(NOTEBOOKS) + 1]
                  /\ step' \in [X!Scripts -> {"convert", "print", "write"}]
<1>1. /\ at \in [X!Scripts -> 0..Len(NOTEBOOKS) + 1]
      /\ step \in [X!Scripts -> {"convert", "print", "write"}]
    BY DEF ExportInv, ExportTypes
<1>2. at[s] \in 1..Len(NOTEBOOKS) /\ Len(NOTEBOOKS) \in Nat
    BY Doing, NotebookAssumption
<1>3. ASSUME X!NextNotebook(s)
      PROVE  /\ at'[s] = at[s] + 1 /\ step'[s] = "convert"
             /\ \A r \in X!Scripts \ {s} : at'[r] = at[r] /\ step'[r] = step[r]
             /\ at' \in [X!Scripts -> 0..Len(NOTEBOOKS) + 1]
             /\ step' \in [X!Scripts -> {"convert", "print", "write"}]
    BY <1>1, <1>2, <1>3 DEF X!NextNotebook
<1>4. ASSUME NEW done \in {"print", "write"}, X!Goes(s, done)
      PROVE  /\ at'[s] = at[s] /\ step'[s] = done
             /\ \A r \in X!Scripts \ {s} : at'[r] = at[r] /\ step'[r] = step[r]
             /\ at' \in [X!Scripts -> 0..Len(NOTEBOOKS) + 1]
             /\ step' \in [X!Scripts -> {"convert", "print", "write"}]
    BY <1>1, <1>2, <1>4 DEF X!Goes
<1>5. ASSUME X!Ends(s)
      PROVE  /\ at'[s] = 0
             /\ \A r \in X!Scripts \ {s} : at'[r] = at[r] /\ step'[r] = step[r]
             /\ at' \in [X!Scripts -> 0..Len(NOTEBOOKS) + 1]
             /\ step' \in [X!Scripts -> {"convert", "print", "write"}]
    BY <1>1, <1>2, <1>5 DEF X!Ends
<1> QED
    BY <1>3, <1>4, <1>5

\* HTML put into the temporary folder.
LEMMA PutHtml ==
    ASSUME ExportInv, NEW s \in X!Scripts, NEW n \in X!Names, NEW version \in X!Files,
           tmp' = [tmp EXCEPT ![s][n].html = version]
    PROVE  /\ tmp' \in [X!Scripts -> [X!Names -> Scratch]]
           /\ \A r \in X!Scripts \ {s} : tmp'[r] = tmp[r]
           /\ \A k \in X!Names \ {n} : tmp'[s][k] = tmp[s][k]
           /\ tmp'[s][n].html = version /\ tmp'[s][n].pdf = tmp[s][n].pdf
<1>1. tmp \in [X!Scripts -> [X!Names -> Scratch]] /\ tmp[s] \in [X!Names -> Scratch]
      /\ tmp[s][n] \in Scratch
    BY DEF ExportInv, ExportTypes
<1> DEFINE new == [tmp[s][n] EXCEPT !.html = version]
<1>2. new \in Scratch /\ new.html = version /\ new.pdf = tmp[s][n].pdf
    BY <1>1 DEF Scratch
<1>3. tmp' = [tmp EXCEPT ![s] = [@ EXCEPT ![n] = new]]
    OBVIOUS
<1> HIDE DEF new
<1> QED
    BY <1>1, <1>2, <1>3

\* A PDF put into the temporary folder.
LEMMA PutPdf ==
    ASSUME ExportInv, NEW s \in X!Scripts, NEW n \in X!Names, NEW version \in X!Files,
           tmp' = [tmp EXCEPT ![s][n].pdf = version]
    PROVE  /\ tmp' \in [X!Scripts -> [X!Names -> Scratch]]
           /\ \A r \in X!Scripts \ {s} : tmp'[r] = tmp[r]
           /\ \A k \in X!Names \ {n} : tmp'[s][k] = tmp[s][k]
           /\ tmp'[s][n].pdf = version /\ tmp'[s][n].html = tmp[s][n].html
<1>1. tmp \in [X!Scripts -> [X!Names -> Scratch]] /\ tmp[s] \in [X!Names -> Scratch]
      /\ tmp[s][n] \in Scratch
    BY DEF ExportInv, ExportTypes
<1> DEFINE new == [tmp[s][n] EXCEPT !.pdf = version]
<1>2. new \in Scratch /\ new.pdf = version /\ new.html = tmp[s][n].html
    BY <1>1 DEF Scratch
<1>3. tmp' = [tmp EXCEPT ![s] = [@ EXCEPT ![n] = new]]
    OBVIOUS
<1> HIDE DEF new
<1> QED
    BY <1>1, <1>2, <1>3


\* An output file written.
LEMMA Filed ==
    ASSUME ExportInv, NEW s \in X!Scripts, NEW n \in X!Names, NEW file \in X!Files,
           X!File(s, n, file)
    PROVE  /\ outputs' \in [Dirs -> [X!Names -> Editions]] /\ X!OUT_DIR[s] \in Dirs
           /\ outputs'[X!OUT_DIR[s]][n].file = file /\ outputs'[X!OUT_DIR[s]][n].by = s
           /\ \A d \in Dirs, k \in X!Names :
                 d # X!OUT_DIR[s] \/ k # n => outputs'[d][k] = outputs[d][k]
<1>1. outputs \in [Dirs -> [X!Names -> Editions]]
    BY DEF ExportInv, ExportTypes
<1>2. X!OUT_DIR[s] \in Dirs
    BY DEF X!OUT_DIR, X!Scripts, Dirs
<1> DEFINE new == [file |-> file, by |-> s]
           dir == X!OUT_DIR[s]
<1>3. new \in Editions /\ new.file = file /\ new.by = s
    BY DEF Editions
<1>4. outputs' = [outputs EXCEPT ![dir] = [@ EXCEPT ![n] = new]]
    BY DEF X!File
<1> HIDE DEF new, dir
<1>5. dir \in Dirs
    BY <1>2 DEF dir
<1>6. /\ outputs' \in [Dirs -> [X!Names -> Editions]]
      /\ outputs'[dir][n] = new
      /\ \A d \in Dirs, k \in X!Names : d # dir \/ k # n => outputs'[d][k] = outputs[d][k]
    BY <1>1, <1>3, <1>4, <1>5
<1> QED
    BY <1>2, <1>3, <1>6 DEF dir

LEMMA ExportStep == ExportInv /\ [X!Next]_(X!vars) => ExportInv'
<1> SUFFICES ASSUME ExportInv, [X!Next]_(X!vars) PROVE ExportInv'
    OBVIOUS
<1>1. ASSUME NEW n \in X!Names, X!Edit(n) PROVE ExportInv'
  <2>1. /\ edits' = edits + 1 /\ edits \in Nat /\ UNCHANGED <<outputs, at, step, tmp, ok, begun, runs>>
        /\ \E version \in {0, edits + 1} : source' = [source EXCEPT ![n] = version]
      BY <1>1 DEF X!Edit, ExportInv, ExportTypes
  <2>2. /\ source' \in [X!Names -> 0..edits'] /\ 0..edits \subseteq 0..edits'
        /\ source'[n] = 0 \/ source'[n] = edits'
        /\ \A k \in X!Names \ {n} : source'[k] = source[k]
      BY <2>1 DEF ExportInv, ExportTypes
  <2>3. ExportTypes'
    <3>1. begun' \in [X!Scripts -> [X!Names -> 0..edits']]
        BY <2>1, <2>2 DEF ExportInv, ExportTypes
    <3> QED
        BY <2>1, <2>2, <3>1 DEF ExportInv, ExportTypes
  <2>4. \A s \in X!Scripts : \A k \in X!Names : Recent(s, k, source[k])'
    <3> SUFFICES ASSUME NEW s \in X!Scripts, NEW k \in X!Names PROVE Recent(s, k, source[k])'
        OBVIOUS
    <3>1. begun'[s][k] = begun[s][k] /\ begun[s][k] \in 0..edits /\ Recent(s, k, source[k])
        BY <2>1 DEF ExportInv, ExportTypes
    <3> QED
        BY <2>1, <2>2, <3>1 DEF Recent
  <2> QED
      BY <2>1, <2>3, <2>4 DEF ExportInv, Underway, Fresh, Recent, Kept, X!Made
<1>2. ASSUME NEW s \in X!Scripts, X!Start(s) PROVE ExportInv'
  <2>1. /\ at' = [at EXCEPT ![s] = 1] /\ step' = [step EXCEPT ![s] = "convert"]
        /\ tmp' = [tmp EXCEPT ![s] = X!NoFiles]
        /\ ok' = [ok EXCEPT ![s] = {}] /\ begun' = [begun EXCEPT ![s] = source]
        /\ UNCHANGED <<source, outputs, edits>>
      BY <1>2 DEF X!Start, X!Mkdtemp
  <2>2. X!NoFiles \in [X!Names -> Scratch]
        /\ \A n \in X!Names : X!NoFiles[n].html = X!NoFile /\ X!NoFiles[n].pdf = X!NoFile
        /\ X!NoFile.of = 0 /\ X!NoFile.cut = "no"
      BY NoFileTyped
  <2>3. Len(NOTEBOOKS) \in Nat
      BY NotebookAssumption
  <2>4. ExportTypes'
      BY <2>1, <2>2, <2>3 DEF ExportInv, ExportTypes
  <2>5. /\ step'[s] = "convert" /\ tmp'[s] = X!NoFiles /\ ok'[s] = {} /\ begun'[s] = source
        /\ \A r \in X!Scripts \ {s} : /\ at'[r] = at[r] /\ step'[r] = step[r] /\ tmp'[r] = tmp[r]
                                      /\ ok'[r] = ok[r] /\ begun'[r] = begun[r]
      BY <2>1 DEF ExportInv, ExportTypes
  <2>6. Underway(s)' /\ Kept(s)'
      BY <2>2, <2>5 DEF Underway, Fresh, Recent, Finished, Kept
  <2>7. \A r \in X!Scripts \ {s} : (at'[r] > 0 => Underway(r)') /\ Kept(r)'
      BY <2>1, <2>5 DEF ExportInv, Underway, Fresh, Recent, Kept, X!Made
  <2>8. \A r \in X!Scripts : \A n \in X!Names : Recent(r, n, source[n])'
    <3> SUFFICES ASSUME NEW r \in X!Scripts, NEW n \in X!Names PROVE Recent(r, n, source[n])'
        OBVIOUS
    <3>1. source[n] \in Int /\ source'[n] = source[n]
        BY <2>1 DEF ExportInv, ExportTypes
    <3> QED
        BY <2>1, <2>5, <3>1 DEF ExportInv, Recent
  <2> QED
      BY <2>4, <2>6, <2>7, <2>8 DEF ExportInv
<1>3. ASSUME NEW s \in X!Scripts, NEW n \in X!Names, X!Skip(s, n) PROVE ExportInv'
  <2>1. X!Does(s, "convert", n) /\ X!NextNotebook(s) /\ UNCHANGED <<source, outputs, tmp, ok, begun, edits>>
      BY <1>3 DEF X!Skip
  <2>2. Underway(s)'
      BY <2>1, Doing, GoesOn DEF Underway, Fresh, Recent
  <2> QED
      BY <2>1, <2>2, Alone, GoesOn DEF ExportInv, ExportTypes
<1>4. ASSUME NEW s \in X!Scripts, NEW n \in X!Names, X!NbConvert(s, n) PROVE ExportInv'
  <2>1. /\ X!Does(s, "convert", n) /\ source[n] # 0 /\ s # "webpdf"
        /\ UNCHANGED <<source, outputs, ok, begun, edits>>
      BY <1>4 DEF X!NbConvert
  <2>2. PICK html \in {tmp[s][n].html, X!Whole(source[n]),
                        X!Cut(X!Whole(source[n]), "converting")} :
          /\ tmp' = [tmp EXCEPT ![s][n].html = html]
          /\ IF html = X!NoFile THEN X!NextNotebook(s)
             ELSE X!Goes(s, IF s = "pdf" THEN "print" ELSE "write")
      BY <1>4 DEF X!NbConvert
  <2>3. html \in X!Files /\ Fresh(s, n, html)
    <3>1. tmp[s][n].html \in X!Files /\ Fresh(s, n, tmp[s][n].html)
        BY <2>1, Doing DEF ExportInv, ExportTypes, Scratch, Underway
    <3>2. source[n] \in Nat /\ Recent(s, n, source[n])
        BY DEF ExportInv, ExportTypes
    <3>3. \A file \in {X!Whole(source[n]), X!Cut(X!Whole(source[n]), "converting")} :
              file \in X!Files /\ Fresh(s, n, file)
        BY <2>1, <3>2, WholeTyped, CutTyped DEF Fresh, Finished
    <3> QED
        BY <3>1, <3>3
  <2>4. /\ tmp' \in [X!Scripts -> [X!Names -> Scratch]]
        /\ \A r \in X!Scripts \ {s} : tmp'[r] = tmp[r]
        /\ \A k \in X!Names \ {n} : tmp'[s][k] = tmp[s][k]
        /\ tmp'[s][n].html = html /\ tmp'[s][n].pdf = tmp[s][n].pdf
      BY <2>2, <2>3, PutHtml
  <2>5. \A k \in X!Names : Fresh(s, k, tmp[s][k].html)' /\ Fresh(s, k, tmp[s][k].pdf)'
      BY <2>1, <2>3, <2>4, Doing DEF Underway, Fresh, Recent
  <2>6. /\ at'[s] \in {at[s], at[s] + 1} /\ at[s] \in 1..Len(NOTEBOOKS)
        /\ step'[s] = "write" => at'[s] = at[s] /\ s = "html" /\ html # X!NoFile
        /\ \A r \in X!Scripts \ {s} : at'[r] = at[r] /\ step'[r] = step[r]
        /\ at' \in [X!Scripts -> 0..Len(NOTEBOOKS) + 1]
        /\ step' \in [X!Scripts -> {"convert", "print", "write"}]
      BY <2>1, <2>2, Doing, GoesOn DEF X!Scripts
  <2>7. Underway(s)'
    <3>1. \A k \in ok'[s] : \E j \in 1..at'[s] - 1 : NOTEBOOKS[j] = k
        BY <2>1, <2>6, Doing DEF Underway
    <3>2. step'[s] = "write" => X!Made(s, NOTEBOOKS[at[s]])'.of # 0
        BY <2>1, <2>3, <2>4, <2>6, Doing DEF X!Made, Fresh
    <3>3. step'[s] = "print" => at'[s] = at[s] /\ tmp'[s][n].html.of # 0
        BY <2>1, <2>2, <2>3, <2>4, Doing, GoesOn DEF Fresh
    <3>4. (step[s] = "print" /\ at[s] \in DOMAIN NOTEBOOKS => tmp[s][NOTEBOOKS[at[s]]].html.of # 0)'
        BY <2>1, <3>3, Doing
    <3> QED
        BY <2>5, <3>1, <3>2, <3>4, <2>6, Doing DEF Underway
  <2> QED
      BY <2>1, <2>4, <2>6, <2>7, Alone
<1>5. ASSUME NEW n \in X!Names, X!PrintPdf(n) PROVE ExportInv'
  <2> DEFINE s == "pdf"
  <2>1. /\ X!Does(s, "print", n) /\ s \in X!Scripts /\ UNCHANGED <<source, outputs, ok, begun, edits>>
      BY <1>5 DEF X!PrintPdf, X!Scripts
  <2>2. PICK pdf \in {tmp[s][n].pdf, tmp[s][n].html, X!Cut(tmp[s][n].html, "converting")} :
          /\ tmp' = [tmp EXCEPT ![s][n].pdf = pdf]
          /\ IF pdf = X!NoFile THEN X!NextNotebook(s) ELSE X!Goes(s, "write")
      BY <1>5 DEF X!PrintPdf
  <2>3. pdf \in X!Files /\ Fresh(s, n, pdf)
    <3>1. /\ tmp[s][n].pdf \in X!Files /\ Fresh(s, n, tmp[s][n].pdf)
          /\ tmp[s][n].html \in X!Files /\ Fresh(s, n, tmp[s][n].html)
        BY <2>1, Doing DEF ExportInv, ExportTypes, Scratch, Underway
    <3>2. tmp[s][n].html.of # 0
        BY <2>1, Doing DEF Underway
    <3>3. /\ X!Cut(tmp[s][n].html, "converting") \in X!Files
          /\ Fresh(s, n, X!Cut(tmp[s][n].html, "converting"))
        BY <3>1, <3>2, CutTyped DEF Fresh, Finished
    <3> QED
        BY <3>1, <3>3
  <2>4. /\ tmp' \in [X!Scripts -> [X!Names -> Scratch]]
        /\ \A r \in X!Scripts \ {s} : tmp'[r] = tmp[r]
        /\ \A k \in X!Names \ {n} : tmp'[s][k] = tmp[s][k]
        /\ tmp'[s][n].pdf = pdf /\ tmp'[s][n].html = tmp[s][n].html
      BY <2>1, <2>2, <2>3, PutPdf
  <2>5. \A k \in X!Names : Fresh(s, k, tmp[s][k].html)' /\ Fresh(s, k, tmp[s][k].pdf)'
      BY <2>1, <2>3, <2>4, Doing DEF Underway, Fresh, Recent
  <2>6. /\ at'[s] \in {at[s], at[s] + 1} /\ at[s] \in 1..Len(NOTEBOOKS)
        /\ step'[s] = "write" => at'[s] = at[s] /\ pdf # X!NoFile
        /\ \A r \in X!Scripts \ {s} : at'[r] = at[r] /\ step'[r] = step[r]
        /\ at' \in [X!Scripts -> 0..Len(NOTEBOOKS) + 1]
        /\ step' \in [X!Scripts -> {"convert", "print", "write"}]
      BY <2>1, <2>2, Doing, GoesOn
  <2>7. Underway(s)'
    <3>1. \A k \in ok'[s] : \E j \in 1..at'[s] - 1 : NOTEBOOKS[j] = k
        BY <2>1, <2>6, Doing DEF Underway
    <3>2. step'[s] = "write" => X!Made(s, NOTEBOOKS[at[s]])'.of # 0
        BY <2>1, <2>3, <2>4, <2>6, Doing DEF X!Made, Fresh
    <3>3. step'[s] # "print"
        BY <2>1, <2>2, Doing, GoesOn
    <3> QED
        BY <2>5, <3>1, <3>2, <3>3, <2>6, Doing DEF Underway
  <2> QED
      BY <2>1, <2>4, <2>6, <2>7, Alone
<1>6. ASSUME NEW n \in X!Names, X!ReadAndRender(n) PROVE ExportInv'
  <2> DEFINE s == "webpdf"
  <2>1. /\ X!Does(s, "convert", n) /\ s \in X!Scripts /\ source[n] # 0
        /\ UNCHANGED <<source, outputs, ok, begun, edits>>
      BY <1>6 DEF X!ReadAndRender, X!Scripts
  <2> DEFINE pdf == X!Whole(source[n])
  <2>2. pdf \in X!Files /\ pdf.of # 0 /\ Fresh(s, n, pdf)
    <3>1. source[n] \in Nat /\ Recent(s, n, source[n])
        BY <2>1 DEF ExportInv, ExportTypes
    <3> QED
        BY <2>1, <3>1, WholeTyped DEF Fresh, Finished
  <2>3. CASE tmp' = [tmp EXCEPT ![s][n].pdf = pdf] /\ X!Goes(s, "write")
    <3>1. /\ tmp' \in [X!Scripts -> [X!Names -> Scratch]]
          /\ \A r \in X!Scripts \ {s} : tmp'[r] = tmp[r]
          /\ \A k \in X!Names \ {n} : tmp'[s][k] = tmp[s][k]
          /\ tmp'[s][n].pdf = pdf /\ tmp'[s][n].html = tmp[s][n].html
        BY <2>1, <2>2, <2>3, PutPdf
    <3>2. \A k \in X!Names : Fresh(s, k, tmp[s][k].html)' /\ Fresh(s, k, tmp[s][k].pdf)'
        BY <2>1, <2>2, <3>1, Doing DEF Underway, Fresh, Recent
    <3>3. /\ at'[s] = at[s] /\ at[s] \in 1..Len(NOTEBOOKS)
          /\ \A r \in X!Scripts \ {s} : at'[r] = at[r] /\ step'[r] = step[r]
          /\ at' \in [X!Scripts -> 0..Len(NOTEBOOKS) + 1]
          /\ step' \in [X!Scripts -> {"convert", "print", "write"}]
        BY <2>1, <2>3, Doing, GoesOn
    <3>4. X!Made(s, NOTEBOOKS[at[s]])'.of # 0
        BY <2>1, <2>2, <3>1, <3>3, Doing DEF X!Made
    <3>5. Underway(s)'
        BY <2>1, <2>3, <3>2, <3>3, <3>4, Doing, GoesOn DEF Underway
    <3> QED
        BY <2>1, <3>1, <3>3, <3>5, Alone
  <2>4. CASE X!NextNotebook(s) /\ UNCHANGED tmp
    <3>1. Underway(s)'
        BY <2>1, <2>4, Doing, GoesOn DEF Underway, Fresh, Recent
    <3> QED
        BY <2>1, <2>4, <3>1, Alone, GoesOn DEF ExportInv, ExportTypes
  <2> QED
      BY <1>6, <2>3, <2>4 DEF X!ReadAndRender
<1>7. ASSUME NEW s \in X!Scripts, NEW n \in X!Names, X!WriteOutput(s, n) PROVE ExportInv'
  <2> DEFINE file == X!Made(s, n)
  <2>1. /\ X!Does(s, "write", n) /\ X!File(s, n, file) /\ X!NextNotebook(s)
        /\ ok' = [ok EXCEPT ![s] = @ \cup {n}] /\ UNCHANGED <<source, tmp, begun, edits>>
      BY <1>7 DEF X!WriteOutput
  <2>2. tmp[s][n] \in Scratch /\ begun[s][n] \in Int
      BY DEF ExportInv, ExportTypes
  <2>3. file \in X!Files /\ file.of # 0 /\ file.of >= begun[s][n] /\ Finished(s, file)
    <3>1. file.of # 0 /\ Fresh(s, n, file)
        BY <2>1, Doing DEF Underway, X!Does, X!Made
    <3> QED
        BY <2>2, <3>1 DEF Fresh, Recent, X!Made, Scratch
  <2> HIDE DEF file
  <2>4. /\ outputs' \in [Dirs -> [X!Names -> Editions]] /\ X!OUT_DIR[s] \in Dirs
        /\ outputs'[X!OUT_DIR[s]][n].file = file /\ outputs'[X!OUT_DIR[s]][n].by = s
        /\ \A d \in Dirs, k \in X!Names :
              d # X!OUT_DIR[s] \/ k # n => outputs'[d][k] = outputs[d][k]
      BY <2>1, <2>3, Filed
  <2>5. /\ at'[s] = at[s] + 1 /\ step'[s] = "convert" /\ at[s] \in 1..Len(NOTEBOOKS)
        /\ \A r \in X!Scripts \ {s} : at'[r] = at[r] /\ step'[r] = step[r]
        /\ at' \in [X!Scripts -> 0..Len(NOTEBOOKS) + 1]
        /\ step' \in [X!Scripts -> {"convert", "print", "write"}]
      BY <2>1, Doing, GoesOn
  <2>6. /\ ok'[s] = ok[s] \cup {n} /\ \A r \in X!Scripts \ {s} : ok'[r] = ok[r]
        /\ ok' \in [X!Scripts -> SUBSET X!Names]
      BY <2>1 DEF ExportInv, ExportTypes
  <2>7. ExportTypes'
      BY <2>1, <2>4, <2>5, <2>6 DEF ExportInv, ExportTypes
  <2>8. Underway(s)'
    <3>1. \A k \in ok'[s] : \E j \in 1..at'[s] - 1 : NOTEBOOKS[j] = k
        BY <2>1, <2>5, <2>6, Doing
    <3>2. \A k \in X!Names : Fresh(s, k, tmp[s][k].html)' /\ Fresh(s, k, tmp[s][k].pdf)'
        BY <2>1, Doing DEF Underway, Fresh, Recent
    <3> QED
        BY <2>5, <3>1, <3>2 DEF Underway
  <2>9. \A r \in X!Scripts : at'[r] > 0 => Underway(r)'
    <3>1. \A r \in X!Scripts \ {s} : Underway(r) => Underway(r)'
        BY <2>1, <2>5, <2>6 DEF Underway, Fresh, Recent, X!Made
    <3>2. \A r \in X!Scripts \ {s} : at'[r] > 0 => Underway(r)
        BY <2>5 DEF ExportInv
    <3> QED
        BY <2>8, <3>1, <3>2
  <2>10. \A r \in X!Scripts : Kept(r)'
    <3> SUFFICES ASSUME NEW r \in X!Scripts, NEW k \in ok'[r], outputs'[X!OUT_DIR[r]][k].by = r
                 PROVE  /\ outputs'[X!OUT_DIR[r]][k].file.of # 0
                        /\ outputs'[X!OUT_DIR[r]][k].file.of >= begun'[r][k]
                        /\ Finished(r, outputs'[X!OUT_DIR[r]][k].file)
        BY DEF Kept
    <3>1. X!OUT_DIR[r] \in Dirs /\ k \in X!Names
        BY <2>6 DEF X!OUT_DIR, X!Scripts, Dirs
    <3>2. CASE X!OUT_DIR[r] = X!OUT_DIR[s] /\ k = n
      <4>1. r = s
          BY <2>4, <3>2
      <4> QED
          BY <2>1, <2>3, <2>4, <3>2, <4>1
    <3>3. CASE X!OUT_DIR[r] # X!OUT_DIR[s] \/ k # n
      <4>1. outputs'[X!OUT_DIR[r]][k] = outputs[X!OUT_DIR[r]][k] /\ k \in ok[r]
          BY <2>4, <2>6, <3>1, <3>3
      <4> QED
          BY <2>1, <4>1 DEF ExportInv, Kept
    <3> QED
        BY <3>2, <3>3
  <2> QED
      BY <2>1, <2>7, <2>9, <2>10 DEF ExportInv, Recent
<1>8. ASSUME NEW s \in X!Scripts, NEW n \in X!Names, X!WriteRaises(s, n) PROVE ExportInv'
  <2>1. /\ X!Does(s, "write", n)
        /\ UNCHANGED outputs \/ X!File(s, n, X!Cut(X!Made(s, n), "writing"))
        /\ X!NextNotebook(s) \/ X!Ends(s)
        /\ UNCHANGED <<source, tmp, ok, begun, edits>>
      BY <1>8 DEF X!WriteRaises
  <2>2. /\ outputs' \in [Dirs -> [X!Names -> Editions]]
        /\ \A d \in Dirs, k \in X!Names : k # n => outputs'[d][k] = outputs[d][k]
        /\ outputs'[X!OUT_DIR[s]][n].by = s \/ UNCHANGED outputs
        /\ \A d \in Dirs : d # X!OUT_DIR[s] => outputs'[d][n] = outputs[d][n]
    <3>1. CASE UNCHANGED outputs
        BY <3>1 DEF ExportInv, ExportTypes
    <3>2. CASE X!File(s, n, X!Cut(X!Made(s, n), "writing"))
      <4>1. X!Made(s, n) \in X!Files
          BY <2>1, Doing DEF ExportInv, ExportTypes, Scratch, X!Made
      <4>2. X!Cut(X!Made(s, n), "writing") \in X!Files
          BY <4>1, CutTyped
      <4> QED
          BY <3>2, <4>2, Filed
    <3> QED
        BY <2>1, <3>1, <3>2
  <2>3. /\ at'[s] = 0 \/ (at'[s] = at[s] + 1 /\ step'[s] = "convert")
        /\ at[s] \in 1..Len(NOTEBOOKS)
        /\ \A r \in X!Scripts \ {s} : at'[r] = at[r] /\ step'[r] = step[r]
        /\ at' \in [X!Scripts -> 0..Len(NOTEBOOKS) + 1]
        /\ step' \in [X!Scripts -> {"convert", "print", "write"}]
      BY <2>1, Doing, GoesOn
  <2>4. ExportTypes'
      BY <2>1, <2>2, <2>3 DEF ExportInv, ExportTypes
  <2>5. at'[s] > 0 => Underway(s)'
    <3> SUFFICES ASSUME at'[s] > 0 PROVE Underway(s)'
        OBVIOUS
    <3>1. \A k \in ok'[s] : \E j \in 1..at'[s] - 1 : NOTEBOOKS[j] = k
        BY <2>1, <2>3, Doing
    <3>2. \A k \in X!Names : Fresh(s, k, tmp[s][k].html)' /\ Fresh(s, k, tmp[s][k].pdf)'
        BY <2>1, Doing DEF Underway, Fresh, Recent
    <3> QED
        BY <2>3, <3>1, <3>2 DEF Underway
  <2>6. \A r \in X!Scripts : at'[r] > 0 => Underway(r)'
      BY <2>1, <2>3, <2>5 DEF ExportInv, Underway, Fresh, Recent, X!Made
  <2>7. \A r \in X!Scripts : Kept(r)'
    <3> SUFFICES ASSUME NEW r \in X!Scripts, NEW k \in ok[r], outputs'[X!OUT_DIR[r]][k].by = r
                 PROVE  outputs'[X!OUT_DIR[r]][k] = outputs[X!OUT_DIR[r]][k]
        BY <2>1 DEF ExportInv, Kept
    <3>1. X!OUT_DIR[r] \in Dirs /\ k \in X!Names
        BY DEF X!OUT_DIR, X!Scripts, Dirs, ExportInv, ExportTypes
    <3>2. CASE k # n
        BY <2>2, <3>1, <3>2
    <3>3. CASE k = n
      <4>1. r # s
          BY <2>1, <3>3, Doing
      <4> QED
          BY <2>2, <3>1, <3>3, <4>1
    <3> QED
        BY <3>2, <3>3
  <2> QED
      BY <2>1, <2>4, <2>6, <2>7 DEF ExportInv, Recent
<1>9. ASSUME NEW s \in X!Scripts, X!Dies(s) PROVE ExportInv'
  <2>1. PICK n \in X!Names : X!Does(s, "print", n)
      BY <1>9 DEF X!Dies
  <2>2. X!Ends(s) /\ UNCHANGED <<source, outputs, tmp, ok, begun, edits>>
      BY <1>9 DEF X!Dies
  <2>3. /\ at'[s] = 0 /\ at' \in [X!Scripts -> 0..Len(NOTEBOOKS) + 1]
        /\ step' \in [X!Scripts -> {"convert", "print", "write"}]
        /\ tmp' \in [X!Scripts -> [X!Names -> Scratch]]
        /\ \A r \in X!Scripts \ {s} : at'[r] = at[r] /\ step'[r] = step[r] /\ tmp'[r] = tmp[r]
      BY <2>1, <2>2, GoesOn DEF ExportInv, ExportTypes
  <2> QED
      BY <2>2, <2>3, Alone
<1>10. ASSUME NEW s \in X!Scripts, X!Finish(s) PROVE ExportInv'
  <2>1. /\ at' = [at EXCEPT ![s] = 0] /\ tmp' = [tmp EXCEPT ![s] = X!NoFiles]
        /\ UNCHANGED <<source, outputs, step, ok, begun, edits>>
      BY <1>10 DEF X!Finish, X!Ends
  <2>2. X!NoFiles \in [X!Names -> Scratch] /\ Len(NOTEBOOKS) \in Nat
      BY NotebookAssumption, NoFileTyped
  <2>3. /\ at' \in [X!Scripts -> 0..Len(NOTEBOOKS) + 1] /\ at'[s] = 0
        /\ tmp' \in [X!Scripts -> [X!Names -> Scratch]]
        /\ step' \in [X!Scripts -> {"convert", "print", "write"}]
        /\ \A r \in X!Scripts \ {s} : at'[r] = at[r] /\ step'[r] = step[r] /\ tmp'[r] = tmp[r]
      BY <2>1, <2>2 DEF ExportInv, ExportTypes
  <2> QED
      BY <2>1, <2>3, Alone
<1>11. CASE UNCHANGED X!vars
  <2>1. UNCHANGED <<source, outputs, at, step, tmp, ok, begun, edits>>
      BY <1>11 DEF X!vars
  <2>2. \A s \in X!Scripts : (at'[s] > 0 => Underway(s)')
      BY <2>1 DEF ExportInv, Underway, Fresh, Recent, X!Made
  <2>3. \A s \in X!Scripts : Kept(s)'
      BY <2>1 DEF ExportInv, Kept, Finished, Recent
  <2>4. ExportTypes'
      BY <2>1 DEF ExportInv, ExportTypes
  <2>5. \A s \in X!Scripts : \A n \in X!Names : Recent(s, n, source[n])'
      BY <2>1 DEF ExportInv, Recent
  <2> QED
      BY <2>2, <2>3, <2>4, <2>5 DEF ExportInv
<1> QED
    BY <1>1, <1>2, <1>3, <1>4, <1>5, <1>6, <1>7, <1>8, <1>9, <1>10, <1>11 DEF X!Next

LEMMA ExportImplies == ExportInv => X!ExportsAreCurrent
  BY DEF ExportInv, Kept, Finished, X!ExportsAreCurrent

-----------------------------------------------------------------------------
(* All parts *)

\* Every part keeps its types, whichever job is done.
THEOREM TypesCorrect == OperationsSpec => []TypesOK
<1> DEFINE Inv == /\ TypeOK /\ TrainingInv /\ DashboardInv /\ DemoInv /\ LiveInv
<1>1. OperationsInit => Inv
    BY Starts, StartupInit, TrainingInit, DashboardInit, DemoInit, LiveInit
<1>2. Inv /\ [OperationsNext]_all => Inv'
    BY Apart, TypeStep, TrainingStep, DashboardStep, DemoStep, LiveStep
<1>3. Inv => TypesOK
    BY TrainingImplies, DashboardImplies, DemoImplies, LiveImplies DEF TypesOK
<1> QED
    BY <1>1, <1>2, <1>3, PTL DEF OperationsSpec

\* A process that was connected once is never left deaf by an outage.
THEOREM StartupCorrect == OperationsSpec => []OutagesAreSurvived
<1>1. MetInv => OutagesAreSurvived
    BY DEF MetInv, OutagesAreSurvived
<1>2. OperationsInit => TypeOK /\ MetInv
    BY Starts, StartupInit
<1>3. TypeOK /\ MetInv /\ [OperationsNext]_all => (TypeOK /\ MetInv)'
    BY Apart, TypeStep, MetStep
<1> QED
    BY <1>1, <1>2, <1>3, PTL DEF OperationsSpec

\* Whatever is committed and wherever the script or a build fails, the AI
\* service predicts only with the models its own code trained to the targets.
THEOREM TrainingCorrect == OperationsSpec => []ServesWhatPassed
<1>1. TrainingInv => ServesWhatPassed
    BY TrainingImplies DEF ServesWhatPassed
<1> QED
    BY <1>1, Starts, Apart, TrainingInit, TrainingStep, PTL DEF OperationsSpec

\* Turns of the dashboard script that come one after the other and whose DELETEs
\* work never leave a second dashboard, and no turn touches another's.
THEOREM DashboardCorrect == OperationsSpec => []OneAfterAnother
<1>1. DashboardInv => OneAfterAnother
    BY DashboardImplies DEF OneAfterAnother
<1> QED
    BY <1>1, Starts, Apart, DashboardInit, DashboardStep, PTL DEF OperationsSpec

\* Every stored state of the invented history, of whichever second, rests on stored
\* telemetry of its second and is what the State Engine's rules make of it,
\* wherever the script fails.
THEOREM DemoCorrect == OperationsSpec => []StatesRestOnTelemetry
<1>1. DemoInv => StatesRestOnTelemetry
    BY DemoImplies DEF StatesRestOnTelemetry
<1> QED
    BY <1>1, Starts, Apart, DemoInit, DemoStep, PTL DEF OperationsSpec

\* A look after a request prints no reading from before it unless the pipeline has
\* stood still since, and while the robot goes on working a reading from after it
\* shows the fault that is injected, whatever waited or was lost meanwhile.
THEOREM LiveCorrect == OperationsSpec => []ShownIsInjected
<1>1. LiveInv => ShownIsInjected
    BY LiveImplies DEF ShownIsInjected
<1> QED
    BY <1>1, Starts, Apart, LiveInit, LiveStep, PTL DEF OperationsSpec

\* In whatever order is written, no point is refused, and a query is served once
\* what it reads from has been written, one for a forecast once there has been
\* one, but for the counts of one notebook, which never are.
THEOREM RecordsCorrect == OperationsSpec => []ReadersServed
<1>1. RecordsInv => ReadersServed
    BY RecordsImplies DEF ReadersServed
<1> QED
    BY <1>1, Starts, Apart, RecordsInit, RecordsStep, PTL DEF OperationsSpec

\* A notebook a script has reported OK has an output of the notebook as it was when
\* the run started or later, written to its end, whatever earlier runs that died
\* have left, and a whole one if the script is webpdf.
THEOREM ExportsCorrect == OperationsSpec => []ExportsAreCurrent
<1>1. ExportInv => ExportsAreCurrent
    BY ExportImplies DEF ExportsAreCurrent
<1> QED
    BY <1>1, Starts, Apart, ExportInit, ExportStep, PTL DEF OperationsSpec
=============================================================================
