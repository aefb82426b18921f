SPECIFICATION Spec
CONSTANTS
    p1 = p1
    c1 = c1
    c2 = c2
    Policies = {p1}
    Channels = {c1, c2}
    Disabled = {c1}
    Slow = {}
    Closings = {"ack", "resolved"}
    FaultyCalls = {"run"}
    LevelChannels <- TwoLevels
    MaxSenders = 2
    MaxClosings = 1
    MaxTrouble = 1
    MaxRuns = 1
    MaxRaises = 1
    MaxAdmin = 1
    MaxWindows = 1
    MaxFaults = 1
    MaxCrashes = 1
CHECK_DEADLOCK FALSE
INVARIANTS NoLevelSkipped AtMostOneLateLevel 
