SPECIFICATION Spec
CONSTANTS
    w1 = w1
    w2 = w2
    s1 = s1
    s2 = s2
    Workers = {w1, w2}
    MaxTurns = 3
    Sessions = {s1, s2}
    NoSession = NoSession
    NoText = NoText
    NoSql = NoSql
    Nothing = Nothing
    Foreign = Foreign
    NoFallback = NoFallback
    Measures <- MCMeasures
    Dimensions <- MCDimensions
    Years <- MCYears
    Triggers <- MCTriggers
    Markers <- MCMarkers
    EntityMeasures <- MCEntityMeasures
    DigitWords <- MCDigitWords
    Cache <- MCCache
    LiveAnswers <- MCLiveAnswers
    Valid <- MCValid
    Table <- MCTable
    Similar <- MCSimilar
    CaseFold <- MCCaseFold
    Questions <- MCQuestions
    Ambiguous = {"profit"}
SYMMETRY Symmetry
INVARIANTS TypeOK ResolvedInSession FollowsTheDialogue FollowUpMerges RowsMatchSql SubstitutionMarked
CHECK_DEADLOCK FALSE
