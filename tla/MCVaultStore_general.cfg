CONSTANTS
    Client = {p1, p2}
    Repairer = {p2}
    Node = {n1, n2}
    Object = {o1}
    Version = {v1, v2}
    ReplicationFactor = 2
    MaxFaults = 1
    NoFile = NoFile
    Torn = Torn
    None = None
    NotFound = NotFound

SPECIFICATION FairSpec
INVARIANTS
    TypeOK
    RowsBacked
    RegisteredHasReplica
    LatestStored

PROPERTIES
    CallsReturn
CHECK_DEADLOCK FALSE
