SPECIFICATION Spec
CONSTANTS
    Callers = {"c1", "c2"}
    Runs = {"same", "changed"}
    Breaks <- BreaksAtTwo
    Paths = {"replay.json"}
    MaxEvents = 2
    MaxCalls = 3
INVARIANTS
    ReplayAnswered
CHECK_DEADLOCK FALSE
