SPECIFICATION Spec
CONSTANTS
    Runs = {"r1", "r2"}
    MaxObjects = 4
    MaxProcess = 3
INVARIANTS InstanceKept LeftoverHarmless
CHECK_DEADLOCK FALSE
