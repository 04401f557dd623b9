CONSTANTS
    Client = {p1, p2}
    Repairer = {p2}
    Node = {n1, n2}
    Object = {o1, o2}
    Version = {v1}
    ReplicationFactor = 2
    MaxFaults = 1
    NoFile = NoFile
    Torn = Torn
    None = None
    NotFound = NotFound

SPECIFICATION ApiSpec
SYMMETRY Interchangeable
INVARIANTS
    ApiTypeOK
    ReportedHasReplicas
    ReportedNodesHold
CHECK_DEADLOCK FALSE
