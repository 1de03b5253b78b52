SPECIFICATION Spec
CONSTANTS
    c1 = c1
    c2 = c2
    Clients <- MCClients
    MaxRequests = 2
    Window = 3
    Horizon = 6
INVARIANTS TypeOK WindowBound
PROPERTY ImplementsPolicy
CHECK_DEADLOCK FALSE
