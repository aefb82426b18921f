SPECIFICATION Spec
CONSTANTS
    Collectors = {c1, c2}
    MaxEvents = 2
    MaxMemory = 2
    MaxDisk = 2
    Slack = 1
    MaxFaults = 0
    MaxCrashes = 0
    Opens = {TRUE}
    Endings = {"stop"}
INVARIANT CleanCloseLosesNothing
CHECK_DEADLOCK FALSE
