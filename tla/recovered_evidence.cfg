\* A run whose receipt is recovered after a crash.
SPECIFICATION Spec
CONSTANTS
    Experiments = {e1}
    Workers = {w1}
    Retriers = {}
    Main = main
    Api = api
    NoThread = NoThread
    NoExp = NoExp
    NoGoal = NoGoal
    HasDeadline = FALSE
    FailAt = {}
    UnreadableAt = {}
    EscapeAt = {}
    MaxCrashes = 1
    MaxRetries = 0
SYMMETRY Symmetry
INVARIANTS
    EvidenceSealed
CHECK_DEADLOCK FALSE
