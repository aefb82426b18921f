SPECIFICATION Spec
CONSTANTS
    MaxSeq = 3
    DrainBatch = 2
    Window = 3
    MaxFaults = 0
    Unreadable = {}
    MayTrim = FALSE
    StoreErrors = TRUE
INVARIANT AckedIsStored
CHECK_DEADLOCK FALSE
