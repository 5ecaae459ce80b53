CONSTANTS
    MaxRun = 2
    MaxWrites = 2
    MaxDrops = 2
    MaxCrashes = 2
    Clients = {c1, c2}
    Maxsize = 2
    MaxEvents = 4
    FlushAt = 2
    MaxPuts = 4
    MaxStoreFaults = 2
    Budget = 2
    MaxRows = 2
    MaxUpsets = 2
    MaxContinuations = 2
    MaxNoProgress = 1
    MaxEdits = 2
SPECIFICATION RunsSpec
CHECK_DEADLOCK FALSE
INVARIANTS
    RunsInvariant
    StoredInOrder
    NoOverlap
PROPERTIES
    OwnMessagesOnly
    NoGapNoRepeat
    UserGoalWins
    StreamEnds
    OrphansRecovered
    EndReaches
    LeavesRunning
