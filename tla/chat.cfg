\* Two overlapping calls, the rest of the controller, and a page that reconnects.
SPECIFICATION FairSpec
CONSTANTS
    Calls = {c1, c2}
    Controller = controller
    Writers <- MCWriters
    NoWriter = NoWriter
    NoThread = NoThread
    Bodies <- MCBodies
    Followers = {page}
    Pages = {page}
    PageSize = 2
    MaxEvents = 5
    MaxDrops = 1
INVARIANTS
    TypeOK
    SessionFollowsLedger
    ResumesLastThread
    ChainVerifies
    DriftShows
PROPERTIES
    ImplementsFeed
    EveryEventArrives
CHECK_DEADLOCK FALSE
