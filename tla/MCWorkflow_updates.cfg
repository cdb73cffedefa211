SPECIFICATION FairSpec
CONSTANTS
    Repertoire <- UpdateCommands
    Updates = {"u1","u2","u3"}
    UpdateName <- TwoNames
    MaxId = 2
    MaxBatch = 1
    MaxCancel = 1
    MaxAside = 2
    MaxQueue = 2
INVARIANTS
    StartWorkflowFirst
    UpdatesSettled
PROPERTIES
    TaskEnds
    ResultDelivered
    UpdateSettledEventually
