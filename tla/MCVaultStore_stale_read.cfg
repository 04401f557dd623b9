CONSTANTS
    Client = {p1}
    Repairer = {p1}
    Node = {n1, n2, n3}
    Object = {o1}
    Version = {v1, v2}
    ReplicationFactor = 2
    MaxFaults = 0
    NoFile = NoFile
    Torn = Torn
    None = None
    NotFound = NotFound

SPECIFICATION Spec
SYMMETRY NodeSymmetry
INVARIANTS
    ReadReturnsLastPut
CHECK_DEADLOCK FALSE
