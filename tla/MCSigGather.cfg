SPECIFICATION FairSpec
CONSTANTS
    Key <- MCKey
    StakeDoc <- MCStakeDoc
    DocOrder <- MCOrder
    EpochLength = 10
    Staker <- MCKey
    Docs <- MCDocs
    BaseHeight = 5
    Candidate = {b1, b2}
    None = None
    Crashing = {"bob"}
    MaxCrashes = 2
INVARIANTS
    EnoughIsEnough
    OneBlock
PROPERTY
    DecidedIsStored
CHECK_DEADLOCK FALSE
