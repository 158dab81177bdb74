SPECIFICATION Spec
CONSTANTS
    Processes = {p1, p2}
    Events = {1, 2}
    QUEUE_MAXSIZE = 1
    BATCH_SIZE = 2
    FLUSH_INTERVAL = 1
    SHUTDOWN_TIMEOUT = 0
    MaxViews = 2
    MaxFailures = 1
    MayCrash = {p1, p2}
    None = None
SYMMETRY Symmetry
INVARIANTS
    IInv
    ViewsAreConserved
    PendingCountsTheBatch
    ReturnedWorkerLeavesNothing
    NoFlushDeadlock
