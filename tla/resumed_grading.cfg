\* A crash between two transactions of _grade.
SPECIFICATION Spec
CONSTANTS
    predictions = predictions
    report = report
    extra = extra
    Declared <- MCDeclared
    Required <- MCRequired
    Small <- MCSmall
    Report = report
    Scores <- MCScores
    Tolerance = 0
    Restorable <- MCRestorable
    NoFile = NoFile
    NoRow = NoRow
    Pending = Pending
    NoValue = NoValue
    Nobody = Nobody
    Torn = Torn
    MaxChanges = 0
    MaxCrashes = 1
INVARIANTS
    ManifestDoesNotDrift
CHECK_DEADLOCK FALSE
