SPECIFICATION FairSpec
CONSTANTS
    Collectors = {c1}
    MaxEvents = 3
    MaxMemory = 2
    MaxDisk = 2
    Slack = 1
    MaxFaults = 1
    MaxCrashes = 1
    Opens = {TRUE, FALSE}
    Endings = {"stop", "revoke"}
INVARIANTS TypeOK Conserved BufferBounded 
PROPERTY EventuallySent
CHECK_DEADLOCK FALSE
