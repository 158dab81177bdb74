SPECIFICATION FairSpec
CONSTANTS
    Processes = {p1, p2}
    Events = {1}
    QUEUE_MAXSIZE = 1
    BATCH_SIZE = 2
    FLUSH_INTERVAL = 1
    SHUTDOWN_TIMEOUT = 0
    MaxViews = 2
    MaxFailures = 1
    MayCrash = {}
    None = None
PROPERTIES
    EveryViewIsWritten
    EveryStopEnds
