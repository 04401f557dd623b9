CONSTANTS
    Server = {s1, s2}
    None = None
    MaxElections = 2
    MaxLog = 0
    MaxFaults = 0

SPECIFICATION Spec
SYMMETRY ServerSymmetry
INVARIANTS
    OneVotePerTerm
CHECK_DEADLOCK FALSE
