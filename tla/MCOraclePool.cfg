SPECIFICATION FairSpec
CONSTANTS
    t1 = t1
    t2 = t2
    None = None
    Threads <- MCThreads
    Attempts = 2
    Size = 1
    MaxCalls = 2
    MaxFaults = 3
    MaxPools = 8
INVARIANTS TypeOK SoloCallSurvives OnePoolAlone
PROPERTY EveryCallEnds
CHECK_DEADLOCK FALSE
