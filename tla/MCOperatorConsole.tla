------------------------- MODULE MCOperatorConsole -------------------------
(* Small instances of OperatorConsole for TLC *)
EXTENDS OperatorConsole

ASSUME PollsTell == Cardinality(Polls) >= 2
=============================================================================
