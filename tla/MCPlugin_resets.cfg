SPECIFICATION FairSpec
CONSTANTS
    Queues = {"q1", "q2"}
    Text <- SomeText
    MaxPid = 8
    MaxIncidents = 2
    MaxTasks = 1
INVARIANTS
    TypeOK
    OnlyTrackedPoll
    StaleRunsPurged
    NoSilentEnd
PROPERTIES
    GoroutineEnds
    FirstExitRecovered
