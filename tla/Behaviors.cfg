SPECIFICATION Spec
CONSTANTS
    Joints <- MCJoints
    Low <- MCLow
    High <- MCHigh
    Cap <- MCCap
    Dt = 2
    MinAuto = 4
    Comfort <- MCComfort
    Robots = {"first", "second"}
    Pid <- MCPid
    Library <- MCLibrary
    Speeds <- MCSpeeds
    Position = {"lift"}
    SaturationTicks = 2
    SaturationFactor = 1
    StopTicks = 2
    Players = {"first"}
    RunIds = {1, 2}
    MaxFaults = 1
    NoRun = NoRun
    Nobody = 0
INVARIANTS
    LagIsBounded
    NoOrphanLock
PROPERTY
    WithinCap
CHECK_DEADLOCK FALSE
