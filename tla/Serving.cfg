SPECIFICATION Spec
CONSTANTS
    Nodes = {n1, n2}
    ChunkSize = 3
    RtcPolicies = {TRUE, FALSE}
    MaxOpens = 2
    Nothing = Nothing
    Delays = {0, 1}
    MaxStep = 3
    MaxClock = 3
    MaxFaults = 1
INVARIANTS
    TrailStaysInSession
PROPERTIES
    SeamIsContinuous
CHECK_DEADLOCK FALSE
