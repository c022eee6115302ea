CONSTANTS
    SpoolCap = 2
    ResumeAt = 1
    QueueMax = 1
    StepCap = 2
    MaxOpens = 2
    MaxSteps = 2
    MaxFailures = 1
    BatchMax = 2
    ForcedClose = FALSE
SPECIFICATION Spec
CHECK_DEADLOCK FALSE
INVARIANTS
    AckIsHonest
    NoStepTwice
    CapturedIsNeverDropped
    OneRecordingPerEpisode
