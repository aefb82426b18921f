SPECIFICATION FairSpec
CONSTANTS
    loop = loop
    box = box
    u1 = u1
    u2 = u2
    Keys = {loop}
    EntityOf <- EntityOfMC
    SeveritiesOf <- SeveritiesMC
    Deletable = {box}
    Returning = {}
    Users = {}
    Buffer = 2
    MaxEvents = 3
    MaxFaults = 0
    MaxCrashes = 0
    MaxTrouble = 0
CHECK_DEADLOCK FALSE
PROPERTIES RemovedIsResolved
