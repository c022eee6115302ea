SPECIFICATION Spec
CONSTANTS
    n1 = n1
    n2 = n2
    b1 = b1
    Nodes = {n1, n2}
    Boxes = {b1}
    Names = {g1}
    Nothing = Nothing
    MaxAssignments = 2
    MaxFaults = 1
    Override <- NoOverride
    Fallback <- OneFallback
    OperatorKeyed = {}
INVARIANTS
    AssignmentsAreConsistent
    KnownIsHonest
PROPERTIES
    ImplementsControlPlane
    Converges
    StoppedSessionsClose
CHECK_DEADLOCK FALSE
