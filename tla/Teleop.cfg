SPECIFICATION Spec
CONSTANTS
    Pages <- TwoPages
    Kids <- TwoKids
    Nobody = Nobody
    Script <- TheScript
    ResetGap = 1
    MaxQueued = 1
    MaxFaults = 1
    RelayMayDrop = FALSE
INVARIANTS
    EstopIsKept
    SuccessorIsServed
PROPERTIES
    NewestTargetWins
    SilenceStopsMotion
    ChannelRecovers
CHECK_DEADLOCK FALSE
