SPECIFICATION Spec
CONSTANTS
    Key <- EpochKey
    StakeDoc <- EpochDocs
    DocOrder <- EpochOrder
    EpochLength = 10
    Staker <- EpochKey
    Docs <- EpochDocs
    BaseHeight = 9
    Candidate = {b1, b2}
    None = None
    Crashing = {}
    MaxCrashes = 0
INVARIANT
    EnoughIsEnough
CHECK_DEADLOCK FALSE
