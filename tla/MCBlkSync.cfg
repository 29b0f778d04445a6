SPECIFICATION FairSpec
CONSTANTS
    Peer = {p1, p2}
    MaxHeight = 5
    Size <- MCSize
    SizeLimit = 4
    Window = 2
    LegacyBatch = 3
    MaxFaults = 1
INVARIANTS
    TypeOK
    PairsMatch
    BatchFits
    NoGap
PROPERTIES
    OnlyRacesFail
    AttemptEnds
    CatchesUp
