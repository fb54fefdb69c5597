CONSTANTS
    Candidate = {k1}
    MaxConnects = 2
    MaxLosses = 1
    MaxPings = 1
SPECIFICATION FairSpec
INVARIANTS LinkInv SilentAfterDisconnect
PROPERTIES CandidatesReach LinkEnds
CHECK_DEADLOCK FALSE
