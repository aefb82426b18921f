SPECIFICATION FairSpec
CONSTANTS
    p1 = p1
    c1 = c1
    c2 = c2
    Policies = {p1}
    Channels = {c1}
    Disabled = {}
    Slow = {}
    Closings = {"ack"}
    FaultyCalls = {"run", "insert", "update"}
    LevelChannels <- OneLevel
    MaxSenders = 2
    MaxClosings = 1
    MaxTrouble = 1
    MaxRuns = 1
    MaxRaises = 1
    MaxAdmin = 0
    MaxWindows = 1
    MaxFaults = 1
    MaxCrashes = 1
CHECK_DEADLOCK FALSE
INVARIANTS TypeOK
PROPERTIES RunEnds PendingEnds
