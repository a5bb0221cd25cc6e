----------------------------- MODULE MCOperations -----------------------------
(***************************************************************************)
(* Small instances for TLC of what happens around the running system.       *)
(***************************************************************************)
EXTENDS Operations

AllMeasures ==
    {"motor_health_accuracy", "dirt_level_accuracy", "health_state_accuracy", "rul_r2",
     "anomaly_fault_detection", "anomaly_normal_pass"}

\* Everything on target, each measure the script compares missed alone, and
\* the motor classifier missed alone.
SomeQualities ==
    {AllMeasures} \cup
    {AllMeasures \ {m} : m \in {"health_state_accuracy", "rul_r2",
                                "anomaly_fault_detection", "motor_health_accuracy"}}

TwoNotebooks == <<"submission_1_visualization", "project_walkthrough">>

\* N is the script's; its batches of 100 would come out even, these leave a rest.
ASSUME LastBatchIsSmaller == N % BATCH # 0

\* The broker can be away for longer than the attempts last, and come back.
ASSUME OutagesMatter == MaxOutages > 1 /\ MaxFaults > 0
=============================================================================
