CONSTANTS
    Client = {p1, p2}
    Repairer = {p1, p2}
    Node = {n1, n2, n3}
    Object = {o1}
    Version = {v1}
    ReplicationFactor = 2
    MaxFaults = 0
    NoFile = NoFile
    Torn = Torn
    None = None
    NotFound = NotFound

SPECIFICATION Spec
SYMMETRY NodeSymmetry
INVARIANTS
    ReadsWhole
CHECK_DEADLOCK FALSE
