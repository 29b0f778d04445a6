SPECIFICATION FairSpec
CONSTANTS
    Staker = {s1, s2}
    Cap = 2
    NoAsk = NoAsk
    Dead = Dead
    MaxRounds = 5
    MaxSlow = 2
INVARIANT
    OwnInstance
PROPERTY
    Spreads
