\* A crash between Popen and the commit of on_started.
SPECIFICATION Spec
CONSTANTS
    Experiments = {e1, e2}
    Workers = {w1}
    Retriers = {}
    Main = main
    Api = api
    NoThread = NoThread
    NoExp = NoExp
    NoGoal = NoGoal
    HasDeadline = FALSE
    FailAt = {}
    UnreadableAt = {}
    EscapeAt = {}
    MaxCrashes = 1
    MaxRetries = 0
SYMMETRY Symmetry
INVARIANTS
    OneLiveProcess
CHECK_DEADLOCK FALSE
