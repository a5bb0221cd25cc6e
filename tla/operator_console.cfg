SPECIFICATION Spec
CONSTANTS
    Polls = {p1, p2}
    MacrosUsed = {"actuators_off"}
    Deliveries = 2
    MaxRequests = 2
    MaxSurprises = 1
INVARIANTS
    ReportsAreTrue
    MacroInOrder
PROPERTIES
    PadSettles
