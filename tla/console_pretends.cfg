SPECIFICATION Spec
CONSTANTS
    Polls = {p1, p2}
    MacrosUsed = {"actuators_off"}
    Deliveries = 2
    MaxRequests = 1
    MaxSurprises = 1
INVARIANT
    NeverPretends
