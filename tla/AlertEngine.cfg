SPECIFICATION Spec
CONSTANTS
    loop = loop
    box = box
    u1 = u1
    u2 = u2
    Keys = {loop}
    EntityOf <- EntityOfMC
    SeveritiesOf <- SeveritiesMC
    Deletable = {box}
    Returning = {}
    Users = {u1, u2}
    Buffer = 2
    MaxEvents = 3
    MaxFaults = 1
    MaxCrashes = 1
    MaxTrouble = 1
SYMMETRY Symmetry
CHECK_DEADLOCK FALSE
INVARIANTS TypeOK AckedOnce OneActiveAlert Mirrored 
PROPERTIES SeverityNeverDrops ClosedIsFinal
