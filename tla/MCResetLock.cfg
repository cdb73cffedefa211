SPECIFICATION FairSpec
CONSTANTS
    Workers = {"w1", "w2"}
    Managers = {"m1"}
    Resetters = {"events", "rpc"}
PROPERTIES ResetEnds HeartbeatAnswered
