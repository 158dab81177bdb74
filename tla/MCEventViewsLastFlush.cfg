SPECIFICATION Spec
CONSTANTS
    Processes = {p1}
    Events = {1, 2}
    QUEUE_MAXSIZE = 2
    BATCH_SIZE = 2
    FLUSH_INTERVAL = 1
    SHUTDOWN_TIMEOUT = 1
    MaxViews = 2
    MaxFailures = 1
    MayCrash = {}
    None = None
INVARIANTS
    StopWritesTheRest
