SPECIFICATION FairSpec
CONSTANTS
    Callers = {"c1", "c2"}
    Runs = {"same", "changed"}
    Breaks <- BreaksAtTwo
    Paths = {"replay.json"}
    MaxEvents = 2
    MaxCalls = 3
INVARIANTS TypeOK SavedWhole ReplayTrusted
PROPERTIES FetchEnds
CHECK_DEADLOCK FALSE
