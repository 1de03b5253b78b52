SPECIFICATION Spec
CONSTANTS
    NoFilter = NoFilter
    Precedes <- MCPrecedes
    Asks <- MCAsks
    Results <- MCResults
    MaxAnswers = 4
INVARIANTS TypeOK OneSessionPerConversation  ReshapesOnly
PROPERTY ClickedIsAnswered
CHECK_DEADLOCK FALSE
