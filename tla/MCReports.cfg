SPECIFICATION FairSpec
CONSTANTS
    Jobs = {j1, j2, j3}
    Threads = 2
    NULL = NULL
INVARIANTS
    IInv
    RunningJobHasItsTask
    FinishedJobTellsWhatHappened
    OnlyThreadsOutliveTheirJob
PROPERTIES
    EveryJobEnds
