---------------------------- MODULE MCCommandApi ----------------------------
(* Requests for model-checking CommandApi. *)
EXTENDS CommandApi

CONSTANTS move, pause

TwoRequests == {move, pause}

\* The simulator subscribes to a command topic and to all of them, so a broker
\* may deliver a command twice.
MoveTwice == [r \in TwoRequests |-> IF r = move THEN 2 ELSE 1]
=============================================================================
