SPECIFICATION FairSpec
CONSTANTS
    MaxSeq = 3
    DrainBatch = 2
    Window = 2
    MaxFaults = 2
    Unreadable = {2}
    MayTrim = TRUE
    StoreErrors = TRUE
INVARIANTS TypeOK NoLoss RefusedIsResent
PROPERTY EventuallyAccepted
CHECK_DEADLOCK FALSE
