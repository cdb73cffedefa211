SPECIFICATION Spec
CONSTANTS
    Repertoire <- EveryKind
    Updates = {}
    UpdateName <- NoUpdates
    MaxId = 4
    MaxBatch = 2
    MaxCancel = 2
    MaxAside = 1
    MaxQueue = 1
INVARIANTS
    TypeOK
    AnsweredAtMostOnce
    NoAnswerLost
    CancelTargetsLive
    LeftoversMadeInLoop
    ListenerServed
    CommandsAccounted
    HandledInOrder
PROPERTIES
    LedgerKept
