CONSTANTS
    None = None
    s1 = s1
    s2 = s2
    s3 = s3
    w1 = w1
    w2 = w2
    Workers = {w1, w2}
    Sessions = {s1, s2, s3}
    MaxSessions = 2
    MaxRemembered = 2
    Settings <- Loads
    Continues <- LooksOn
    Rewrite <- Joined
    Numbers = {"total_revenue", "total_profit"}
    TextBefore <- RowText
    Documents <- Docs
    TopK = 2
    DefaultRowLimit = 2
    MaxRowLimit = 3
    MaxRows = 3
    Stem <- StemOf
    VectorAnswers <- Vectors
    Statements <- Written
    Writes <- Answers
    TableOf <- Tables
    CachedTable <- Cached
SPECIFICATION Spec
CHECK_DEADLOCK FALSE
INVARIANT TypeOK LiveContext DialogueKept RememberedWasShown RowsComeFromSql SpokenDirection DeciderAgrees NoUnsafeSql SessionsBounded
PROPERTY EvictsOldest
SYMMETRY Interchangeable
