SPECIFICATION FairSpec
CONSTANTS
    Key <- SCKey
    StakeDoc <- SCStakeDoc
    DocOrder <- SCDocOrder
    EpochLength = 1
    Block <- MCTrunk
    Genesis = "genesis"
    Height <- SCHeight
    Prev <- SCPrev
    Sound <- MCTrunkSound
    GenesisStakes <- SCGenesisStakes
    StakesAfter <- SCStakesAfter
    DocsIn <- SCDocsIn
    Registered <- SCRegistered
    MirrorFrom <- SCMirrorFrom
    Coin <- SCCoin
    Spends <- SCSpends
    Makes <- SCMakes
    Weight <- SCWeight
    WeightLimit = 4
    UnspentAfter <- SCUnspentAfter
    Tx <- SCTx
    Proof <- SCProofGood
    Task = {"blksync", "staker"}
    Cancellable = {}
    Waiter = {"round"}
    Free = Free
    NoJob = NoJob
INVARIANTS
    MempoolFollowsTip
    PoolMakesABlock
    PoolWeight
PROPERTIES
    WaiterWakes
    CallsReturn
