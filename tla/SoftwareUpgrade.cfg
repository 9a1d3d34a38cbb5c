CONSTANTS
    Versions = {v1, v2}
    Shipped = v1
    None = None
    Broken = Broken
    MaxAttempts = 3
    MaxFaults = 2
    MaxLosses = 1
SPECIFICATION Spec
INVARIANTS SuccessIsOnTheCard RevertRestores NeverMixed NothingIsLost
CHECK_DEADLOCK FALSE
