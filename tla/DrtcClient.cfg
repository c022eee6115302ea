CONSTANTS
    SyncModes = {TRUE, FALSE}
    MinHorizon = 2
    Epsilon = 1
    Delays = {1, 2}
    ChunkLens = {0, 2}
    MaxStep = 3
    MaxClock = 4
    MaxBarriers = 2
    MaxFailures = 1
    MaxOutbox = 2
SPECIFICATION FairClientSpec
INVARIANTS
    PlanHasNoHole
    SyncOneInFlight
PROPERTIES
    ImplementsActionStream
    NeverStalls
