SPECIFICATION Spec
CONSTANTS
    move = move
    pause = pause
    Requests <- TwoRequests
    Deliveries <- MoveTwice
INVARIANTS
    ReceivedIsRecorded
PROPERTY
    KeepsPromise
CHECK_DEADLOCK FALSE
