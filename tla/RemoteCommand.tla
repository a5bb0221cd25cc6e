--------------------------- MODULE RemoteCommand ---------------------------
(***************************************************************************)
(* What the command path promises the operator, with no threads, broker or  *)
(* tables: a command asked for is obeyed at most once per delivery, and the *)
(* request is answered once, with a verdict only if the robot gave it.      *)
(***************************************************************************)
CONSTANTS Requests,     \* the commands that are issued, one per request
          Copies        \* the deliveries of one command to the robot

Acknowledgements == [request : Requests, copy : Copies, accepted : BOOLEAN]

\* A response: ack_received, and ack_accepted as a set that is empty for None.
Responses == [received : BOOLEAN, accepted : SUBSET BOOLEAN]

VARIABLES asked,        \* the requests taken
          obeyed,       \* what the robot did, as the acknowledgements it made
          responses     \* per request, the response: none or one

remote == <<asked, obeyed, responses>>

Init ==
    /\ asked = {} /\ obeyed = {}
    /\ responses = [r \in Requests |-> {}]

Ask(r) ==
    /\ r \notin asked
    /\ asked' = asked \cup {r}
    /\ UNCHANGED <<obeyed, responses>>

Obey(ack) ==
    /\ ack.request \in asked
    /\ \A past \in obeyed : past.request = ack.request => past.copy # ack.copy
    /\ obeyed' = obeyed \cup {ack}
    /\ UNCHANGED <<asked, responses>>

\* The response to r may carry a verdict of the robot's on r, and must carry one
\* if it says an acknowledgement was received.
Honest(r, response) ==
    /\ \/ response.accepted = {}
       \/ \E ack \in obeyed : ack.request = r /\ response.accepted = {ack.accepted}
    /\ response.received => response.accepted # {}

Answer(r) ==
    /\ r \in asked /\ responses[r] = {}
    /\ \E response \in Responses :
          /\ Honest(r, response)
          /\ responses' = [responses EXCEPT ![r] = {response}]
    /\ UNCHANGED <<asked, obeyed>>

Next ==
    \/ \E r \in Requests : Ask(r) \/ Answer(r)
    \/ \E ack \in Acknowledgements : Obey(ack)

Safety == Init /\ [][Next]_remote

\* Every request taken is answered, whatever the robot does.
Spec ==
    /\ Safety
    /\ \A r \in Requests : WF_remote(Answer(r))
=============================================================================
