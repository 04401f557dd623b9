CONSTANTS
    Server = {s1, s2}
    None = None
    MaxElections = 1
    MaxLog = 1
    MaxFaults = 0
    MaxTerm = 1
    MaxAppends = 2
    Commits = {0, 1}

SPECIFICATION AppendSpec
INVARIANT CommittedAreApplied
CHECK_DEADLOCK FALSE
