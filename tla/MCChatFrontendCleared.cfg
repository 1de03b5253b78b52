SPECIFICATION Spec
CONSTANTS
    NoFilter = NoFilter
    Precedes <- MCPrecedes
    Asks <- MCAsks
    Results <- MCResults
    MaxAnswers = 4
INVARIANT SourceOnScreen
CHECK_DEADLOCK FALSE
