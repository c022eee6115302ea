CONSTANTS
    MaxJobs = 2
    SharedName = FALSE
    MaxCrashes = 1
    Cameras = {front, wrist}
    Labels <- MCLabels
    MaxTicks = 3
    WriterQueue = 1
    PendingMax = 1
    Fps = 4
    Tolerance <- MCTolerance
    Second = 120
    Clocks <- MCClocks
    MaxFailures = 1
SPECIFICATION ShipSpec
CHECK_DEADLOCK FALSE
INVARIANTS
    AccumulatedIsKept
    NeverDropsData
    DatasetIsTheStaging
    PlaysAtCapturedSpeed
PROPERTIES
    EveryUploadEnds
