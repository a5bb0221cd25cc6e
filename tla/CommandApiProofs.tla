-------------------------- MODULE CommandApiProofs --------------------------
(***************************************************************************)
(* Proofs about the Command API, for any set of concurrent requests and any *)
(* number of deliveries of each: the types, that an acknowledgement reported *)
(* as received was given to the database, and that every step of the        *)
(* threads is a step of RemoteCommand or changes nothing the operator can   *)
(* see.                                                                     *)
(***************************************************************************)
EXTENDS CommandApi, TLAPS

-----------------------------------------------------------------------------
(* Types *)

\* What every step but the stutter preserves; used by all the proofs below.
LEMMA TypeStep == TypeOK /\ [Next]_vars => TypeOK'
<1> SUFFICES ASSUME TypeOK, [Next]_vars PROVE TypeOK'
    OBVIOUS
<1> USE DEF TypeOK, Singletons
<1>1. ASSUME NEW r \in Requests, Register(r) PROVE TypeOK'
    BY <1>1 DEF Register, Goto, WorkerSteps, callback, external
<1>2. ASSUME NEW r \in Requests, Publish(r) PROVE TypeOK'
  <2>1. commands' \subseteq Requests \X Copies
      BY <1>2, DeliveriesAssumption DEF Publish, Copies
  <2> QED
      BY <1>2, <2>1 DEF Publish, Goto, WorkerSteps, tables, callback
<1>3. ASSUME NEW r \in Requests, Record(r) PROVE TypeOK'
    BY <1>3 DEF Record, Goto, WorkerSteps, tables, callback, external
<1>4. ASSUME NEW r \in Requests, Wake(r) \/ TimeOut(r) PROVE TypeOK'
    BY <1>4 DEF Wake, TimeOut, Goto, WorkerSteps, tables, callback, external
<1>5. ASSUME NEW r \in Requests, Collect(r) PROVE TypeOK'
    BY <1>5 DEF Collect, Goto, WorkerSteps, tables, callback, external
<1>6. ASSUME NEW r \in Requests, Drop(r) PROVE TypeOK'
    BY <1>6 DEF Drop, Goto, WorkerSteps, callback, external
<1>7. ASSUME NEW r \in Requests, Close(r) PROVE TypeOK'
  <2>1. timed' \subseteq Acknowledgements
      BY <1>7 DEF Close
  <2>2. {ack.accepted : ack \in ack_data[r]} \in SUBSET BOOLEAN
      BY DEF Acknowledgements
  <2>3. responses' \in [Requests -> Singletons([received : BOOLEAN,
                                                accepted : SUBSET BOOLEAN])]
      BY <1>7, <2>2 DEF Close
  <2>4. status' \in [Requests -> {"none", "issued", "acked", "timeout"}]
      BY <1>7 DEF Close
  <2> QED
      BY <1>7, <2>1, <2>3, <2>4
      DEF Close, Goto, WorkerSteps, callback, external
<1>8. CASE Receive
    BY <1>8 DEF Receive, worker, tables
<1>9. CASE StoreResult
  <2>1. results' \in [Requests -> Singletons(Acknowledgements)]
      BY <1>9 DEF StoreResult, Acknowledgements
  <2> QED
      BY <1>9, <2>1 DEF StoreResult, worker, external
<1>10. CASE SignalWaiter
    BY <1>10 DEF SignalWaiter, worker, external
<1>11. CASE WriteAck
  <2>1. robot_acknowledgement' \subseteq Acknowledgements \X {"measured", "zero"}
      BY <1>11 DEF WriteAck, Latency
  <2> QED
      BY <1>11, <2>1 DEF WriteAck, worker, tables, external
<1>12. ASSUME NEW r \in Requests, NEW copy \in Copies, NEW accepted \in BOOLEAN,
              Obey(r, copy, accepted)
       PROVE TypeOK'
    BY <1>12 DEF Obey, Acknowledgements, worker, tables, callback
<1>13. CASE UNCHANGED vars
    BY <1>13 DEF vars
<1> HIDE DEF TypeOK, Singletons
<1> QED
    BY <1>1, <1>2, <1>3, <1>4, <1>5, <1>6, <1>7, <1>8, <1>9, <1>10, <1>11, <1>12,
       <1>13
    DEF Next, IssueCommand, OnAck

\* Every table of the Command API keeps its type, for any number of requests.
THEOREM TypeCorrect == Spec => []TypeOK
<1>1. Init => TypeOK
    BY DEF Init, TypeOK, Singletons, WorkerSteps
<1> QED
    BY <1>1, TypeStep, PTL DEF Spec

-----------------------------------------------------------------------------
(* What is received is recorded *)

\* A request's event is set only by a callback that then writes the point, so a
\* set event has its point in the database, on its way there, or refused by it.
SignalledIsRecorded ==
    /\ \A r \in signalled : Written(r) \/ Writing(r) \/ Lost(r)
    /\ \A r \in Requests : ack_received[r] => r \in signalled

LEMMA RecordedStep ==
    TypeOK /\ SignalledIsRecorded /\ [Next]_vars => SignalledIsRecorded'
<1> SUFFICES ASSUME TypeOK, SignalledIsRecorded, [Next]_vars
             PROVE SignalledIsRecorded'
    OBVIOUS
<1> USE DEF SignalledIsRecorded, Written, Writing, Lost
<1>1. ASSUME NEW r \in Requests, Register(r) \/ IssueCommand(r)
      PROVE SignalledIsRecorded'
  <2>1. UNCHANGED <<signalled, callback>>
      BY <1>1 DEF Register, IssueCommand, Publish, Record, Wake, TimeOut, Collect,
                  Drop, Close, tables, callback
  <2>2. ack_received' = ack_received \/ Wake(r)
      BY <1>1 DEF Register, IssueCommand, Publish, Record, TimeOut, Collect, Drop,
                  Close
  <2> QED
      BY <2>1, <2>2 DEF Wake, callback, TypeOK
<1>2. CASE Receive
    BY <1>2 DEF Receive, worker, tables
<1>3. CASE StoreResult
    BY <1>3 DEF StoreResult, worker
<1>4. CASE SignalWaiter
    BY <1>4 DEF SignalWaiter, worker
<1>5. CASE WriteAck
  <2>1. PICK ack \in callback_ack :
            \/ /\ robot_acknowledgement' =
                      robot_acknowledgement \cup {<<ack, Latency(ack)>>}
               /\ UNCHANGED unwritten
            \/ /\ unwritten' = unwritten \cup {ack}
               /\ UNCHANGED robot_acknowledgement
      BY <1>5 DEF WriteAck
  <2>2. callback_ack = {ack}
      BY <2>1 DEF TypeOK, Singletons
  <2>3. <<ack, Latency(ack)>>[1] = ack
      OBVIOUS
  <2>4. ASSUME NEW r \in signalled PROVE Written(r)' \/ Lost(r)'
    <3>1. CASE Written(r) \/ Lost(r)
        BY <3>1, <2>1
    <3>2. CASE Writing(r)
        BY <3>2, <2>1, <2>2, <2>3
    <3> QED
        BY <3>1, <3>2
  <2> QED
      BY <1>5, <2>4 DEF WriteAck, worker, tables
<1>6. ASSUME NEW r \in Requests, NEW copy \in Copies, NEW accepted \in BOOLEAN,
             Obey(r, copy, accepted)
      PROVE SignalledIsRecorded'
    BY <1>6 DEF Obey, worker, tables, callback
<1>7. CASE UNCHANGED vars
    BY <1>7 DEF vars
<1> HIDE DEF SignalledIsRecorded, Written, Writing, Lost
<1> QED
    BY <1>1, <1>2, <1>3, <1>4, <1>5, <1>6, <1>7 DEF Next, OnAck

\* Every acknowledgement an operator is told of was given to the database: it is
\* there, about to be, or its write failed and was logged, however many requests
\* and deliveries overlap.
THEOREM RecordedCorrect == Spec => []ReceivedIsRecorded
<1>1. Init => SignalledIsRecorded
    BY DEF Init, SignalledIsRecorded
<1>2. SignalledIsRecorded => ReceivedIsRecorded
    BY DEF SignalledIsRecorded, ReceivedIsRecorded
<1> QED
    BY <1>1, <1>2, RecordedStep, TypeCorrect, PTL DEF Spec

-----------------------------------------------------------------------------
(* The threads implement RemoteCommand *)

\* S holds acknowledgements the robot made of r, and of nothing else.
Given(S, r) == \A ack \in S : ack \in obeyed /\ ack.request = r

\* Every copy of an acknowledgement comes from the robot and sits under its key.
Provenance ==
    /\ acks \subseteq obeyed /\ callback_ack \subseteq obeyed
    /\ \A r \in Requests : Given(results[r], r) /\ Given(ack_data[r], r)

\* An event is set only over a stored result, and the worker reads the result
\* after it was woken.
StoredBeforeSignalled ==
    /\ \A r \in signalled : results[r] # {}
    /\ callback_at = "signal" => \A ack \in callback_ack : results[ack.request] # {}
    /\ \A r \in Requests :
          ack_received[r] =>
              /\ r \in signalled
              /\ pc[r] \in {"drop", "close", "answered"} => ack_data[r] # {}

\* A delivery under way was published and has not been obeyed.
DeliveredOnce ==
    /\ \A r \in Requests, copy \in Copies : <<r, copy>> \in commands =>
          /\ pc[r] \notin {"idle", "publish"}
          /\ \A ack \in obeyed : ack.request = r => ack.copy # copy
    /\ \A ack \in obeyed : pc[ack.request] \notin {"idle", "publish"}

AnsweredLast == \A r \in Requests : responses[r] # {} => pc[r] = "answered"

\* The inductive invariant of the refinement.
RefinementInv ==
    /\ TypeOK /\ Provenance /\ StoredBeforeSignalled /\ DeliveredOnce /\ AnsweredLast

WorkerStep(r) ==
    \/ Register(r) \/ Publish(r) \/ Record(r) \/ Wake(r) \/ TimeOut(r)
    \/ Collect(r) \/ Drop(r) \/ Close(r)

LEMMA NextCases ==
    ASSUME [Next]_vars
    PROVE  \/ \E r \in Requests : WorkerStep(r)
           \/ OnAck
           \/ \E r \in Requests, copy \in Copies, accepted \in BOOLEAN :
                 Obey(r, copy, accepted)
           \/ UNCHANGED vars
BY DEF Next, IssueCommand, WorkerStep

LEMMA ProvenanceStep == TypeOK /\ Provenance /\ [Next]_vars => Provenance'
<1> SUFFICES ASSUME TypeOK, Provenance, [Next]_vars PROVE Provenance'
    OBVIOUS
<1> USE DEF Provenance, Given
<1>1. ASSUME NEW r \in Requests, WorkerStep(r) PROVE Provenance'
  <2>1. UNCHANGED <<results, acks, obeyed, callback_ack>>
      BY <1>1 DEF WorkerStep, Register, Publish, Record, Wake, TimeOut, Collect,
                  Drop, Close, tables, callback, external
  <2>2. ack_data' = ack_data \/ ack_data' = [ack_data EXCEPT ![r] = results[r]]
      BY <1>1 DEF WorkerStep, Register, Publish, Record, Wake, TimeOut, Collect,
                  Drop, Close
  <2> QED
      BY <2>1, <2>2 DEF TypeOK
<1>2. CASE Receive
    BY <1>2 DEF Receive, worker, tables
<1>3. CASE StoreResult
    BY <1>3 DEF StoreResult, worker, external, TypeOK
<1>4. CASE SignalWaiter
    BY <1>4 DEF SignalWaiter, worker, external
<1>5. CASE WriteAck
    BY <1>5 DEF WriteAck, worker, tables, external
<1>6. ASSUME NEW r \in Requests, NEW copy \in Copies, NEW accepted \in BOOLEAN,
             Obey(r, copy, accepted)
      PROVE Provenance'
    BY <1>6 DEF Obey, worker, tables, callback
<1>7. CASE UNCHANGED vars
    BY <1>7 DEF vars
<1> HIDE DEF Provenance, Given
<1> QED
    BY <1>1, <1>2, <1>3, <1>4, <1>5, <1>6, <1>7, NextCases DEF OnAck

LEMMA StoredStep ==
    TypeOK /\ StoredBeforeSignalled /\ [Next]_vars => StoredBeforeSignalled'
<1> SUFFICES ASSUME TypeOK, StoredBeforeSignalled, [Next]_vars
             PROVE StoredBeforeSignalled'
    OBVIOUS
<1> USE DEF StoredBeforeSignalled
<1>1. ASSUME NEW r \in Requests, WorkerStep(r) PROVE StoredBeforeSignalled'
  <2>1. UNCHANGED <<signalled, results, callback>>
      BY <1>1 DEF WorkerStep, Register, Publish, Record, Wake, TimeOut, Collect,
                  Drop, Close, tables, callback
  <2>2. CASE Wake(r) \/ TimeOut(r)
      BY <2>1, <2>2 DEF Wake, TimeOut, Goto, TypeOK, callback
  <2>3. CASE Collect(r)
      BY <2>1, <2>3 DEF Collect, Goto, TypeOK, callback
  <2>4. CASE Register(r) \/ Publish(r) \/ Record(r) \/ Drop(r) \/ Close(r)
    <3>1. UNCHANGED <<ack_received, ack_data>>
        BY <2>4 DEF Register, Publish, Record, Drop, Close
    <3>2. \A q \in Requests : pc'[q] \in {"drop", "close", "answered"} =>
                                pc[q] \in {"drop", "close", "answered"}
        BY <2>4 DEF Register, Publish, Record, Drop, Close, Goto, TypeOK
    <3> QED
        BY <2>1, <3>1, <3>2 DEF callback
  <2> QED
      BY <1>1, <2>2, <2>3, <2>4 DEF WorkerStep
<1>2. CASE Receive
    BY <1>2 DEF Receive, worker, tables
<1>3. CASE StoreResult
  <2>1. PICK ack \in callback_ack : results' = [results EXCEPT ![ack.request] = {ack}]
      BY <1>3 DEF StoreResult
  <2>2. callback_ack = {ack} /\ ack.request \in Requests
      BY <2>1 DEF TypeOK, Singletons, Acknowledgements
  <2>3. \A r \in Requests : results'[r] = {} => results[r] = {} /\ r # ack.request
      BY <2>1, <2>2 DEF TypeOK
  <2> QED
      BY <1>3, <2>2, <2>3 DEF StoreResult, worker, TypeOK
<1>4. CASE SignalWaiter
    BY <1>4 DEF SignalWaiter, worker
<1>5. CASE WriteAck
    BY <1>5 DEF WriteAck, worker, tables
<1>6. ASSUME NEW r \in Requests, NEW copy \in Copies, NEW accepted \in BOOLEAN,
             Obey(r, copy, accepted)
      PROVE StoredBeforeSignalled'
    BY <1>6 DEF Obey, worker, tables, callback
<1>7. CASE UNCHANGED vars
    BY <1>7 DEF vars
<1> HIDE DEF StoredBeforeSignalled
<1> QED
    BY <1>1, <1>2, <1>3, <1>4, <1>5, <1>6, <1>7, NextCases DEF OnAck

LEMMA DeliveredStep == TypeOK /\ DeliveredOnce /\ [Next]_vars => DeliveredOnce'
<1> SUFFICES ASSUME TypeOK, DeliveredOnce, [Next]_vars PROVE DeliveredOnce'
    OBVIOUS
<1> USE DEF DeliveredOnce
<1>1. ASSUME NEW r \in Requests, WorkerStep(r) PROVE DeliveredOnce'
  <2>1. UNCHANGED obeyed
      BY <1>1 DEF WorkerStep, Register, Publish, Record, Wake, TimeOut, Collect,
                  Drop, Close, external
  <2>2. CASE Publish(r)
      BY <2>1, <2>2 DEF Publish, Goto, TypeOK, Acknowledgements
  <2>3. CASE ~Publish(r)
    <3>1. UNCHANGED commands
        BY <1>1, <2>3 DEF WorkerStep, Register, Record, Wake, TimeOut, Collect,
                          Drop, Close, external
    <3>2. \A q \in Requests : pc'[q] \in {"idle", "publish"} =>
                                pc[q] \in {"idle", "publish"}
        BY <1>1, <2>3 DEF WorkerStep, Register, Record, Wake, TimeOut, Collect,
                          Drop, Close, Goto, TypeOK
    <3> QED
        BY <2>1, <3>1, <3>2 DEF TypeOK, Acknowledgements
  <2> QED
      BY <2>2, <2>3
<1>2. CASE OnAck
    BY <1>2 DEF OnAck, Receive, StoreResult, SignalWaiter, WriteAck, worker,
                external
<1>3. ASSUME NEW r \in Requests, NEW copy \in Copies, NEW accepted \in BOOLEAN,
             Obey(r, copy, accepted)
      PROVE DeliveredOnce'
    BY <1>3 DEF Obey, worker
<1>4. CASE UNCHANGED vars
    BY <1>4 DEF vars
<1> HIDE DEF DeliveredOnce
<1> QED
    BY <1>1, <1>2, <1>3, <1>4, NextCases

LEMMA AnsweredStep == TypeOK /\ AnsweredLast /\ [Next]_vars => AnsweredLast'
<1> SUFFICES ASSUME TypeOK, AnsweredLast, [Next]_vars PROVE AnsweredLast'
    OBVIOUS
<1> USE DEF AnsweredLast
<1>1. ASSUME NEW r \in Requests, WorkerStep(r) PROVE AnsweredLast'
  <2>1. CASE Close(r)
      BY <2>1 DEF Close, Goto, TypeOK
  <2>2. CASE ~Close(r)
      BY <1>1, <2>2 DEF WorkerStep, Register, Publish, Record, Wake, TimeOut,
                        Collect, Drop, Goto, TypeOK
  <2> QED
      BY <2>1, <2>2
<1>2. CASE OnAck
    BY <1>2 DEF OnAck, Receive, StoreResult, SignalWaiter, WriteAck, worker
<1>3. ASSUME NEW r \in Requests, NEW copy \in Copies, NEW accepted \in BOOLEAN,
             Obey(r, copy, accepted)
      PROVE AnsweredLast'
    BY <1>3 DEF Obey, worker
<1>4. CASE UNCHANGED vars
    BY <1>4 DEF vars
<1> HIDE DEF AnsweredLast
<1> QED
    BY <1>1, <1>2, <1>3, <1>4, NextCases

\* Each step of a thread or of the robot is a step of RemoteCommand, or one the
\* operator does not see.
LEMMA RefinementStep ==
    RefinementInv /\ [Next]_vars => [Remote!Next]_(Remote!remote)
<1> SUFFICES ASSUME RefinementInv, [Next]_vars
             PROVE  [Remote!Next]_(Remote!remote)
    OBVIOUS
<1> DEFINE asked == {r \in Requests : pc[r] # "idle"}
<1> USE DEF RefinementInv
<1>1. ASSUME NEW r \in Requests, Register(r) PROVE Remote!Ask(r)
  <2>1. asked' = asked \cup {r}
      BY <1>1 DEF Register, Goto, TypeOK
  <2> QED
      BY <1>1, <2>1 DEF Register, Goto, Remote!Ask, external, TypeOK
<1>2. ASSUME NEW r \in Requests, Close(r) PROVE Remote!Answer(r)
  <2> DEFINE response == [received |-> ack_received[r],
                          accepted |-> {ack.accepted : ack \in ack_data[r]}]
  <2>1. asked' = asked
      BY <1>2 DEF Close, Goto, TypeOK
  <2>2. r \in asked /\ responses[r] = {}
      BY <1>2 DEF Close, Goto, TypeOK, AnsweredLast
  <2>3. response \in Remote!Responses
      BY DEF TypeOK, Singletons, Acknowledgements, Remote!Responses
  <2>4. Remote!Honest(r, response)
    <3>1. CASE ack_data[r] = {}
        BY <3>1, <1>2 DEF Remote!Honest, StoredBeforeSignalled, Close, Goto
    <3>2. ASSUME NEW ack \in Acknowledgements, ack_data[r] = {ack}
          PROVE Remote!Honest(r, response)
        BY <3>2 DEF Remote!Honest, Provenance, Given
    <3> QED
        BY <3>1, <3>2 DEF TypeOK, Singletons
  <2>5. responses' = [responses EXCEPT ![r] = {response}] /\ UNCHANGED obeyed
      BY <1>2 DEF Close, external
  <2> QED
      BY <2>1, <2>2, <2>3, <2>4, <2>5 DEF Remote!Answer
<1>3. ASSUME NEW r \in Requests, WorkerStep(r), ~Register(r), ~Close(r)
      PROVE UNCHANGED Remote!remote
  <2>1. asked' = asked
      BY <1>3 DEF WorkerStep, Publish, Record, Wake, TimeOut, Collect, Drop, Goto,
                  TypeOK
  <2>2. UNCHANGED <<obeyed, responses>>
      BY <1>3 DEF WorkerStep, Publish, Record, Wake, TimeOut, Collect, Drop,
                  external
  <2> QED
      BY <2>1, <2>2 DEF Remote!remote
<1>4. CASE OnAck
    BY <1>4 DEF OnAck, Receive, StoreResult, SignalWaiter, WriteAck, worker,
                external, Remote!remote
<1>5. ASSUME NEW r \in Requests, NEW copy \in Copies, NEW accepted \in BOOLEAN,
             Obey(r, copy, accepted)
      PROVE \E ack \in Remote!Acknowledgements : Remote!Obey(ack)
  <2> DEFINE ack == [request |-> r, copy |-> copy, accepted |-> accepted]
  <2>1. ack \in Remote!Acknowledgements
      BY DEF Remote!Acknowledgements
  <2>2. r \in asked /\ asked' = asked
      BY <1>5 DEF Obey, DeliveredOnce, worker
  <2>3. \A past \in obeyed : past.request = r => past.copy # copy
      BY <1>5 DEF Obey, DeliveredOnce
  <2>4. Remote!Obey(ack)
      BY <1>5, <2>2, <2>3 DEF Obey, Remote!Obey, worker
  <2> QED
      BY <2>1, <2>4
<1>6. CASE UNCHANGED vars
    BY <1>6 DEF vars, Remote!remote
<1> HIDE DEF RefinementInv
<1> QED
  <2>1. CASE \E r \in Requests : WorkerStep(r)
      BY <2>1, <1>1, <1>2, <1>3 DEF Remote!Next
  <2>2. CASE \E r \in Requests, copy \in Copies, accepted \in BOOLEAN :
                Obey(r, copy, accepted)
      BY <2>2, <1>5 DEF Remote!Next
  <2> QED
      BY <2>1, <2>2, <1>4, <1>6, NextCases

\* The Command API keeps the promise of RemoteCommand in every behaviour: one
\* response per request, carrying a verdict only if the robot gave it on that
\* command, and always one when an acknowledgement was received.
THEOREM PromiseKept == Spec => Remote!Safety
<1>1. Init => RefinementInv
    BY DEF Init, RefinementInv, TypeOK, Singletons, WorkerSteps, Provenance, Given,
           StoredBeforeSignalled, DeliveredOnce, AnsweredLast
<1>2. RefinementInv /\ [Next]_vars => RefinementInv'
    BY TypeStep, ProvenanceStep, StoredStep, DeliveredStep, AnsweredStep
    DEF RefinementInv
<1>3. Init => Remote!Init
    BY DEF Init, Remote!Init
<1> QED
    BY <1>1, <1>2, <1>3, RefinementStep, PTL DEF Spec, Remote!Safety
=============================================================================
