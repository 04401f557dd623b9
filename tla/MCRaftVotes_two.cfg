CONSTANTS
    Server = {s1, s2}
    None = None
    MaxElections = 2
    MaxLog = 1
    MaxFaults = 1

SPECIFICATION VotesFairSpec
INVARIANTS
    TypeOK
    LeaderHasQuorum
    FollowerHasTimer
    OneLeaderPerTerm

PROPERTIES
    ElectionEnds
CHECK_DEADLOCK FALSE
