CONSTANTS
    Client = {p1, p2, p3}
    Repairer = {p2}
    Node = {n1, n2, n3}
    Object = {o1}
    Version = {v1}
    ReplicationFactor = 2
    MaxFaults = 2
    NoFile = NoFile
    Torn = Torn
    None = None
    NotFound = NotFound

SPECIFICATION Spec
SYMMETRY NodeSymmetry
INVARIANTS
    RowsWhole
    ReadsWhole
    RepairTargetIsNew
PROPERTIES
    IsWriteOnceStore
CHECK_DEADLOCK FALSE
