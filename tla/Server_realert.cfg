SPECIFICATION Spec
CONSTANTS
    Focus = {"endpoint"}
    Requests = {r1, r2}
    MaxTrouble = 3
    Streams = {s1, s2}
    None = None
    MaxRestarts = 1
    MaxRequests = 1
    MaxInFlight = 2
    SendQueue = 2
    MaxFollows = 1
    Hosts = {h1, h2}
    Ids = {i1, i2, i3}
    Tokens = {t1, t2}
    Nobody = Nobody
    HostLimit = 1
    Checks = {c1}
    FailureThreshold = 2
    RecoveryThreshold = 1
    EpTrouble = 2
INVARIANT
    FailingIsAlerted
CHECK_DEADLOCK FALSE
