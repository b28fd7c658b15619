\* TimeoutExpired from the grader, which nothing catches.
SPECIFICATION FairSpec
CONSTANTS
    Experiments = {e1}
    Workers = {w1}
    Retriers = {}
    Main = main
    Api = api
    NoThread = NoThread
    NoExp = NoExp
    NoGoal = NoGoal
    HasDeadline = FALSE
    FailAt = {}
    UnreadableAt = {}
    EscapeAt = {"grade"}
    MaxCrashes = 0
    MaxRetries = 0
PROPERTIES
    EverySubmissionSettles
CHECK_DEADLOCK FALSE
