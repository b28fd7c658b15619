\* Two overlapping retries, a crash and a file that cannot be read or written.
SPECIFICATION Spec
CONSTANTS
    integrity = integrity
    protocol = protocol
    RequiredChecks = {integrity, protocol}
    Main = main
    Worker = worker
    Retriers = {r1, r2}
    Answers <- MCAnswers
    NoGoal = NoGoal
    NoAnswer = NoAnswer
    MaxRetries = 2
    MaxCrashes = 1
    MaxErrors = 1
INVARIANTS
    TypeOK
    AcceptanceRests
    AcceptedOnce
    RowsFollowEvents
    AttemptsAreHeld
    PendingIsHeld
PROPERTIES
    ImplementsDocket
SYMMETRY Symmetry
CHECK_DEADLOCK FALSE
