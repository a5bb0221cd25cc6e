----------------------------- MODULE TwinMirror -----------------------------
(***************************************************************************)
(* What the telemetry pipeline promises, without its queues: the robot      *)
(* takes readings, and the twin shows the judgement of one of them.  Every  *)
(* reading is settled in the end: judged, or lost with a broken session.    *)
(***************************************************************************)
EXTENDS TwinState, Sequences

CONSTANTS
    Readings,       \* the telemetry the robot may send
    MaxReadings     \* bound: how many readings it takes

VARIABLES
    taken,          \* the readings, in the order they were taken
    shown,          \* the state the twin shows: at most one, none at first
    settled         \* the numbers of the readings judged or lost

vars == <<taken, shown, settled>>

Gaps == 0 .. OFFLINE_AFTER + 1

Init == taken = <<>> /\ shown = {} /\ settled = {}

Take(m) ==
    /\ Len(taken) < MaxReadings
    /\ taken' = Append(taken, m)
    /\ UNCHANGED <<shown, settled>>

\* Any reading taken so far, an old one again included, judged at any age.
Show(n) ==
    /\ n \in DOMAIN taken
    /\ \E heard \in BOOLEAN, gap \in Gaps : shown' = {Evaluate(taken[n], heard, gap)}
    /\ settled' = settled \cup {n}
    /\ UNCHANGED taken

Lose(S) ==
    /\ S \subseteq DOMAIN taken
    /\ settled' = settled \cup S
    /\ UNCHANGED <<taken, shown>>

Next ==
    \/ \E m \in Readings : Take(m)
    \/ \E n \in DOMAIN taken : Show(n)
    \/ \E S \in SUBSET DOMAIN taken : Lose(S)

Safety == Init /\ [][Next]_vars

\* No reading stays unsettled for ever.
Settling == \A n \in 1 .. MaxReadings : n \in DOMAIN taken ~> n \in settled

Spec == Safety /\ Settling
=============================================================================
