\* Grading with late changes, some of them undone, losses and crashes.
SPECIFICATION Spec
CONSTANTS
    predictions = predictions
    report = report
    extra = extra
    Declared <- MCDeclared
    Required <- MCRequired
    Small <- MCSmall
    Report = report
    Scores <- MCScores
    Tolerance = 0
    Restorable <- MCRestorable
    NoFile = NoFile
    NoRow = NoRow
    Pending = Pending
    NoValue = NoValue
    Nobody = Nobody
    Torn = Torn
    MaxChanges = 1
    MaxCrashes = 2
INVARIANTS
    TypeOK
    ScoreOfSealedFiles
    AcceptedReportAgrees
    AcceptedOutputIsSealed
CHECK_DEADLOCK FALSE
