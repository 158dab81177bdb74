SPECIFICATION ViewPathSpec
CONSTANTS
    r1 = r1
    r2 = r2
    r3 = r3
    c1 = c1
    p1 = p1
    p2 = p2
    None = None
    Earlier = Earlier
    Event = 1
    Inserter = p2
    Requests <- MCRequests
    Clients = {c1}
    ClientOf <- MCClientOf
    Processes = {p1, p2}
    ProcessOf <- MCProcessOf
    DEDUPE_TTL = 2
    MaxTime = 2
    QUEUE_MAXSIZE = 1
    BATCH_SIZE = 2
    FLUSH_INTERVAL = 1
    SHUTDOWN_TIMEOUT = 0
    MaxFailures = 1
    MayCrash = {p2}
SYMMETRY Symmetry
INVARIANTS
    TypeOK
    OneViewPerWindow
    WindowIsFixed
    ViewsTakeTime
    ViewsAreWindows
    NoFlushIsPoisoned
    ServesCompleteData
    OnlyRacingStartsSeedTwice
