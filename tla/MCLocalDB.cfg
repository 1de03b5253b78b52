SPECIFICATION Spec
CONSTANTS
    t1 = t1
    t2 = t2
    t3 = t3
    revenue = revenue
    select1 = select1
    drop = drop
    None = None
    Threads <- MCThreads
    Tabular <- MCTabular
    Constant <- MCConstant
    Refused <- MCRefused
    MaxCalls = 1
SYMMETRY Symmetry
CHECK_DEADLOCK FALSE
INVARIANTS TypeOK SoloCallCorrect TableWhenQuiet OnlyOverlappingLeak
