SPECIFICATION FairRoundSpec
CONSTANTS
    Key <- SCKey
    StakeDoc <- SCStakeDoc
    DocOrder <- SCDocOrder
    EpochLength = 1
    Block <- MCBlock
    Genesis = "genesis"
    Height <- SCHeight
    Prev <- SCPrev
    Sound <- MCSound
    GenesisStakes <- SCGenesisStakes
    StakesAfter <- SCStakesAfter
    DocsIn <- SCDocsIn
    Registered <- SCRegistered
    MirrorFrom <- SCMirrorFrom
    Coin <- SCCoin
    Spends <- SCSpends
    Makes <- SCMakes
    Weight <- SCWeight
    WeightLimit = 4
    UnspentAfter <- SCUnspentAfter
    Tx = {}
    Proof <- SCProofAny
    PeerProof <- SCProofGood
    Task = {"blksync", "staker"}
    Cancellable = {}
    Waiter = {"round"}
    Me = "staker"
    Round = "round"
    MyKey = "alice"
    MaxRestarts = 1
    Free = Free
    NoJob = NoJob
INVARIANTS
    ProposalExtendsBase
    CallBelongsToRound
PROPERTIES
    RoundEnds
    PoolCatchesUp
