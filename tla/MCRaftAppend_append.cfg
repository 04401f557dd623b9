CONSTANTS
    Server = {s1, s2}
    None = None
    MaxElections = 1
    MaxLog = 2
    MaxFaults = 1
    MaxTerm = 2
    MaxAppends = 2
    Commits = {1, 2}

SPECIFICATION AppendSpec
SYMMETRY ServerSymmetry
INVARIANTS
    AppendTypeOK
    LeaderHasQuorum
    FollowerHasTimer
    AppliedOnceInOrder
    AppliedToCommitIndex
CHECK_DEADLOCK FALSE
