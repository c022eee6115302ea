CONSTANTS
    SpoolCap = 2
    ResumeAt = 1
    QueueMax = 1
    StepCap = 2
    MaxOpens = 1
    MaxSteps = 3
    MaxFailures = 2
    BatchMax = 2
    ForcedClose = FALSE
SPECIFICATION FairSpec
CHECK_DEADLOCK FALSE
INVARIANTS
    BooksBalance
    DatasetIsComplete
PROPERTIES
    BacklogDrains
    EveryRecorderEnds
