CONSTANTS
    n1 = n1
    n2 = n2
    n3 = n3
    Node = {n1, n2, n3}
    Nodes <- MCNodes
    Size <- MCSize
    ReplicationFactor = 2

SPECIFICATION Spec
INVARIANTS
    TypeOK
    SteadyNodesCompete
    WinnersAnswered
    WinnersAgree
