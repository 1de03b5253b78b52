CONSTANTS
    East = East
    West = West
    North = North
    Padded = Padded
    Mail = Mail
    Day = Day
    Card = Card
    Code = Code
    Ada = Ada
    c1 = c1
    c2 = c2
    Nobody = Nobody
    NULL = NULL
    ByModel = ByModel
    Raises = Raises
    Callers = {c1, c2}
    PoolThreads = {p1, p2}
    Warning = Warning
    Depth = 2
    Words = {East, West, North, Padded, Mail, Day, Card, Code, Ada, Warning}
    Shapes <- ShapesOf
    PhoneDigits <- DigitsOf
    Separated = {Day, Card}
    Strict = TRUE
    Detectors <- MCDetectors
    IsNumber <- Number
    Strip <- Stripped
    Settings <- Loads
SPECIFICATION Spec
CHECK_DEADLOCK FALSE
INVARIANT TypeOK LeadersAgree InsightsTrue  MetricsOrdered
PROPERTY ImplementsRedactedLog EveryRecordWritten
