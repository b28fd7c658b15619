\* Every submission settles across crashes, retries and handled failures.
SPECIFICATION FairSpec
CONSTANTS
    Experiments = {e1, e2}
    Workers = {w1}
    Retriers = {r1}
    Main = main
    Api = api
    NoThread = NoThread
    NoExp = NoExp
    NoGoal = NoGoal
    HasDeadline = FALSE
    FailAt = {"worktree", "supervise", "flush", "seal"}
    UnreadableAt = {}
    EscapeAt = {}
    MaxCrashes = 1
    MaxRetries = 1
INVARIANTS
    RunRowAgrees
    Attended
PROPERTIES
    EverySubmissionSettles
CHECK_DEADLOCK FALSE
