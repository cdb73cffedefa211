SPECIFICATION FairSpec
CONSTANTS
    Tokens = {"t1", "t2", "t3"}
    Locals = {"l1"}
    PoolSize = 1
    Detailed = {"t1", "t2"}
    NoInput = {"t2", "t3"}
INVARIANTS
    TypeOK
    HeartbeatServed
    LeftBehindUnsent
PROPERTIES
    AttemptReturns
