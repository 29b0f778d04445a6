SPECIFICATION Spec
CONSTANTS
    Key <- SCKey
    StakeDoc <- SCStakeDoc
    DocOrder <- SCDocOrder
    EpochLength = 1
    Block <- SCBlock
    Genesis = "genesis"
    Height <- SCHeight
    Prev <- SCPrev
    Sound <- SCSound
    GenesisStakes <- SCGenesisStakes
    StakesAfter <- SCStakesAfter
    DocsIn <- SCDocsIn
    Registered <- SCRegistered
    MirrorFrom <- SCMirrorFrom
    Coin <- SCCoin
    Spends <- SCSpends
    Makes <- SCMakes
    Weight <- SCWeight
    WeightLimit = 4
    UnspentAfter <- SCUnspentAfter
    Tx = {}
    Proof <- SCProof
    Task = {"blksync", "staker"}
    Cancellable = {"staker"}
    Waiter = {}
    Free = Free
    NoJob = NoJob
INVARIANTS
    TypeOK
    HistoryIsChain
    RootsDurable
    
PROPERTIES
    MempoolNeverRegresses
    ImplementsLedger
