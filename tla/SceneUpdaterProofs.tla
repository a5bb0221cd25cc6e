------------------------- MODULE SceneUpdaterProofs -------------------------
(***************************************************************************)
(* Proofs about the live update of the scene, for any floor, any number of  *)
(* calls of the operator and any number of failed ticks: the types, that a  *)
(* lit tile has been seen, and that the robot's signs agree.                *)
(***************************************************************************)
EXTENDS SceneUpdater, FiniteSetTheorems, TLAPS

\* A query finds one point or none.
LEMMA OneOrNone ==
    /\ Cardinality({}) = 0
    /\ \A x : Cardinality({x}) = 1
    BY FS_EmptySet, FS_Singleton

\* The state a tick draws is one of the three.
LEMMA ShownStateType == safety \subseteq SafetyStates => ShownState \in SafetyStates
<1> SUFFICES ASSUME safety \subseteq SafetyStates PROVE ShownState \in SafetyStates
    OBVIOUS
<1>1. CASE safety = {}
    BY <1>1 DEF ShownState, SafetyStates
<1>2. CASE safety # {}
  <2>1. (CHOOSE s \in safety : TRUE) \in safety
      BY <1>2
  <2> QED
      BY <1>2, <2>1 DEF ShownState
<1> QED
    BY <1>1, <1>2

\* What a tick makes of the floor, of the body and of the light.
LEMMA TickDrawEffect ==
    ASSUME TypeOK, TickDraw
    PROVE  /\ lit' \subseteq Tiles /\ visited' \subseteq Tiles /\ seen' \subseteq Tiles
           /\ LitWasSeen => LitWasSeen'
           /\ flash' \in BOOLEAN /\ cube' \in BOOLEAN
           /\ body' \in {"none", "green", "orange", "red"}
           /\ light' \in {"none", "green", "orange", "red", "dark red"}
           /\ SignsAgree => SignsAgree'
<1>1. lit' \subseteq Tiles /\ visited' \subseteq Tiles /\ seen' \subseteq Tiles
    BY DEF TickDraw, ApplyPose, FloorAfter, Lit, Visited, TypeOK
<1>2. LitWasSeen => LitWasSeen'
    BY DEF TickDraw, ApplyPose, FloorAfter, Lit, LitWasSeen
<1>3. CASE scene
  <2>1. ShownState \in SafetyStates
      BY ShownStateType DEF TypeOK
  <2>2. /\ body' = Colours[ShownState]
        /\ light' = IF flash' THEN "dark red" ELSE Colours[ShownState]
        /\ cube' = (ShownState = "EMERGENCY")
        /\ flash' = (ShownState = "EMERGENCY" /\ ~flash)
      BY <1>3 DEF TickDraw, ApplySafety, ApplyCube
  <2>3. body' = IF ShownState = "EMERGENCY" THEN "red"
                ELSE IF ShownState = "WARNING" THEN "orange" ELSE "green"
    <3>1. Colours[ShownState] = IF ShownState = "EMERGENCY" THEN "red"
                                ELSE IF ShownState = "WARNING" THEN "orange" ELSE "green"
        BY <2>1 DEF Colours, SafetyStates
    <3>2. body' = Colours[ShownState]
        BY <2>2
    <3> QED
        BY <3>1, <3>2
  <2>4. /\ flash' \in BOOLEAN /\ cube' \in BOOLEAN
        /\ flash' => ShownState = "EMERGENCY"
        /\ cube' <=> ShownState = "EMERGENCY"
      BY <2>2
  <2>5. light' \in {"dark red", body'} /\ (light' = "dark red" => flash')
      BY <2>2, <2>3
  <2> QED
      BY <1>1, <1>2, <2>3, <2>4, <2>5 DEF SignsAgree
<1>4. CASE ~scene
  <2>1. UNCHANGED <<body, light, cube>> /\ flash' = (ShownState = "EMERGENCY" /\ ~flash)
      BY <1>4 DEF TickDraw, ApplySafety, ApplyCube
  <2> QED
      BY <1>1, <1>2, <2>1 DEF SignsAgree, TypeOK
<1> QED
    BY <1>3, <1>4

\* The bounds of the operator's calls and of failures.
LEMMA CallType == TypeOK /\ Call => calls' \in 0 .. MaxCalls
<1> SUFFICES ASSUME TypeOK, Call PROVE calls' \in 0 .. MaxCalls
    OBVIOUS
<1>1. calls \in 0 .. MaxCalls /\ calls < MaxCalls /\ calls' = calls + 1
    BY DEF TypeOK, Call
<1> QED
    BY <1>1, SceneAssumption

LEMMA TypeStep == TypeOK /\ [Next]_vars => TypeOK'
<1> SUFFICES ASSUME TypeOK, [Next]_vars PROVE TypeOK'
    OBVIOUS
<1>1. CASE NewTelemetry
  <2>1. PICK tile \in Tiles : position' = {tile}
      BY <1>1 DEF NewTelemetry
  <2>2. position' \subseteq Tiles /\ Cardinality(position') <= 1
      BY <2>1, OneOrNone
  <2> QED
      BY <1>1, <2>2 DEF NewTelemetry, TypeOK, stage, updater
<1>2. CASE NewState
  <2>1. PICK s \in SafetyStates : safety' = {s}
      BY <1>2 DEF NewState
  <2>2. safety' \subseteq SafetyStates /\ Cardinality(safety') <= 1
      BY <2>1, OneOrNone
  <2> QED
      BY <1>2, <2>2 DEF NewState, TypeOK, stage, updater
<1>3. CASE Silence
  <2>1. position' \in {position, {}} /\ safety' \in {safety, {}}
      BY <1>3 DEF Silence
  <2>2. /\ position' \subseteq Tiles /\ Cardinality(position') <= 1
        /\ safety' \subseteq SafetyStates /\ Cardinality(safety') <= 1
    <3>1. Cardinality({}) <= 1
        BY OneOrNone
    <3>2. /\ position \subseteq Tiles /\ Cardinality(position) <= 1
          /\ safety \subseteq SafetyStates /\ Cardinality(safety) <= 1
        BY DEF TypeOK
    <3> QED
        BY <2>1, <3>1, <3>2
  <2> QED
      BY <1>3, <2>2 DEF Silence, TypeOK, stage, updater
<1>4. CASE TickDraw
    BY <1>4, TickDrawEffect DEF TickDraw, TypeOK, database
<1>5. CASE TickFail
  <2>1. failures \in 0 .. MaxFailures /\ failures < MaxFailures /\ failures' = failures + 1
      BY <1>5 DEF TickFail, TypeOK
  <2>2. failures' \in 0 .. MaxFailures
      BY <2>1, SceneAssumption
  <2> QED
      BY <1>5, <2>2 DEF TickFail, TypeOK, database, stage, updater
<1>6. CASE LoopStart \/ LoopEnd
    BY <1>6 DEF LoopStart, LoopEnd, TypeOK, database, stage, updater
<1>7. CASE StartLiveUpdate
  <2>1. calls' \in 0 .. MaxCalls
    <3>1. Call
        BY <1>7 DEF StartLiveUpdate
    <3> QED
        BY <3>1, CallType
  <2>2. task' \in {"none", "created", "looping", "done"} /\ visited' \subseteq Tiles
        /\ flash' \in BOOLEAN
      BY <1>7 DEF StartLiveUpdate, TypeOK
  <2> QED
      BY <1>7, <2>1, <2>2 DEF StartLiveUpdate, TypeOK, database, stage
<1>8. CASE StopLiveUpdate
  <2>1. calls' \in 0 .. MaxCalls
    <3>1. Call
        BY <1>8 DEF StopLiveUpdate
    <3> QED
        BY <3>1, CallType
  <2> QED
      BY <1>8, <2>1 DEF StopLiveUpdate, TypeOK, database, stage, updater
<1>9. CASE CreateScene
  <2>1. calls' \in 0 .. MaxCalls
    <3>1. Call
        BY <1>9 DEF CreateScene
    <3> QED
        BY <3>1, CallType
  <2> QED
      BY <1>9, <2>1 DEF CreateScene, TypeOK, database, updater
<1>10. CASE UNCHANGED vars
    BY <1>10 DEF vars, TypeOK, database, stage, updater
<1> QED
    BY <1>1, <1>2, <1>3, <1>4, <1>5, <1>6, <1>7, <1>8, <1>9, <1>10 DEF Next, Loop, Tick

\* The loop, its memory and the scene keep their types.
THEOREM TypeCorrect == Spec => []TypeOK
<1>1. Init => TypeOK
  <2> SUFFICES ASSUME Init PROVE TypeOK
      OBVIOUS
  <2>1. calls \in 0 .. MaxCalls /\ failures \in 0 .. MaxFailures
    <3>1. calls = 0 /\ failures = 0
        BY DEF Init
    <3> QED
        BY <3>1, SceneAssumption
  <2>2. Cardinality(position) <= 1 /\ Cardinality(safety) <= 1
      BY OneOrNone DEF Init
  <2> QED
      BY <2>1, <2>2 DEF Init, TypeOK
<1> QED
    BY <1>1, TypeStep, PTL DEF Spec

\* A tile shows as cleaned only where the robot has been seen: what lights a tile
\* is in the history, and what empties the history darkens the floor.
THEOREM LitCorrect == Spec => []LitWasSeen
<1>1. Init => LitWasSeen
    BY DEF Init, LitWasSeen
<1>2. TypeOK /\ LitWasSeen /\ [Next]_vars => LitWasSeen'
  <2> SUFFICES ASSUME TypeOK, LitWasSeen, [Next]_vars PROVE LitWasSeen'
      OBVIOUS
  <2>1. CASE TickDraw
      BY <2>1, TickDrawEffect
  <2>2. CASE CreateScene
      BY <2>2 DEF CreateScene, LitWasSeen
  <2>3. CASE UNCHANGED <<lit, seen>>
      BY <2>3 DEF LitWasSeen
  <2> QED
      BY <2>1, <2>2, <2>3
      DEF Next, Loop, Tick, NewTelemetry, NewState, Silence, TickFail, LoopStart, LoopEnd,
          StartLiveUpdate, StopLiveUpdate, vars, stage
<1> QED
    BY <1>1, <1>2, TypeCorrect, PTL DEF Spec

\* The cube and the colour of the body tell the same, and the light is dark only
\* with them: a tick changes all three or, without a scene, none.
THEOREM SignsCorrect == Spec => []SignsAgree
<1>1. Init => SignsAgree
    BY DEF Init, SignsAgree
<1>2. TypeOK /\ SignsAgree /\ [Next]_vars => SignsAgree'
  <2> SUFFICES ASSUME TypeOK, SignsAgree, [Next]_vars PROVE SignsAgree'
      OBVIOUS
  <2>1. CASE TickDraw
      BY <2>1, TickDrawEffect
  <2>2. CASE CreateScene
      BY <2>2 DEF CreateScene, SignsAgree
  <2>3. CASE UNCHANGED <<body, light, cube>>
      BY <2>3 DEF SignsAgree
  <2> QED
      BY <2>1, <2>2, <2>3
      DEF Next, Loop, Tick, NewTelemetry, NewState, Silence, TickFail, LoopStart, LoopEnd,
          StartLiveUpdate, StopLiveUpdate, vars, stage
<1> QED
    BY <1>1, <1>2, TypeCorrect, PTL DEF Spec
=============================================================================
