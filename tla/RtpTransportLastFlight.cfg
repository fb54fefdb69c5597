CONSTANTS
    Patience = 2
    MaxFaults = 1
    MaxNotices = 1
    Told <- OneMismatch
    MaxTells = 1
    Mortal <- ServerOnly
SPECIFICATION FairSpec
PROPERTY Secured
CHECK_DEADLOCK FALSE
