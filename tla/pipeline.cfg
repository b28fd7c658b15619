\* Two callers of run_next(), with crashes, every fault, cancels and a retry.
SPECIFICATION Spec
CONSTANTS
    Experiments = {e1, e2}
    Workers = {w1, w2}
    Retriers = {r1}
    Main = main
    Api = api
    NoThread = NoThread
    NoExp = NoExp
    NoGoal = NoGoal
    HasDeadline = TRUE
    FailAt = {"worktree", "spawn", "supervise", "receipt", "flush", "seal", "review",
              "ask", "accept"}
    UnreadableAt = {"grade", "review", "accept"}
    EscapeAt = {"worktree", "record", "supervise", "grade", "review"}
    MaxCrashes = 2
    MaxRetries = 1
SYMMETRY Symmetry
INVARIANTS
    TypeOK
    GradedRunsExitedCleanly
    QueuedCancelNeverGraded
    Admission
    SinglePipeline
    OverlapHasCause
    EvidenceSealedUnlessRecovered
PROPERTIES
    ImplementsLifecycle
    RunTicketUsedOnce
CHECK_DEADLOCK FALSE
