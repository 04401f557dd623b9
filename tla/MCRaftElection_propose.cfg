CONSTANTS
    Server = {s1, s2}
    None = None
    MaxElections = 1
    MaxLog = 1
    MaxFaults = 0

SPECIFICATION FairSpec

PROPERTIES
    ProposeEnds
CHECK_DEADLOCK FALSE
