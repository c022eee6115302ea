SPECIFICATION NativeSpec
CHECK_DEADLOCK FALSE
CONSTANTS
    Kinds = {"dimos"}
    MaxPose = 1
    MaxStep = 1
    StaleAfter = 1
    Timeout = 1
    MaxTrouble = 0
    MaxMissed = 0
    None = None
INVARIANT
    StaleJointsAreNeverUsed
