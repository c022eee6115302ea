CONSTANTS
    SyncModes = {TRUE, FALSE}
    Setups <- MCSetups
    GraceTicks = 1
    MinHorizon = 1
    Epsilon = 1
    Delays = {1}
    ChunkLens = {2}
    MaxStep = 2
    MaxClock = 3
    MaxBarriers = 2
    MaxFailures = 1
    MaxOutbox = 1
SPECIFICATION Spec
INVARIANTS
    EstopStopsMotion
    PolicyWaitsForHandback
    PolicyPlansAfterTakeover
    GateTrajectoryIsCurrent
