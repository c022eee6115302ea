SPECIFICATION RobotsSpec
CHECK_DEADLOCK FALSE
CONSTANTS
    Window = 1
    Stop = 1
    Stale = 0
    ReconnectWindow = 1
    MaxConns = 2
    MaxFaults = 1
    Rival = Rival
    StartupRecovery = 1
    MaxPresses = 1
    Kinds = {"nori", "yam", "axol", "dimos"}
    MaxPose = 3
    MaxStep = 1
    StaleAfter = 1
    Timeout = 2
    MaxTrouble = 1
    MaxMissed = 1
    None = None
INVARIANTS
    DeadBrainStops
    TeardownReleases
PROPERTIES
    LatchFreesSlot
    CommandsAreClamped
