CONSTANTS
    Patience = 2
    MaxFaults = 1
    MaxNotices = 1
    Told <- OneMismatch
    MaxTells = 1
    Mortal <- ServerOnly
SPECIFICATION FairSpec
INVARIANTS LinkInv StartNotMissed MediaIsVerified
PROPERTIES ThreadsEnd LossIsRepaired
CHECK_DEADLOCK FALSE
