SPECIFICATION Spec
CONSTANTS
    Capacity = 2
    Keep = 3
    MaxSamples = 3
    MaxOpens = 2
    MaxFaults = 0
    Nothing = Nothing
INVARIANTS
    SessionsDoNotMix
CHECK_DEADLOCK FALSE
