SPECIFICATION Spec
CONSTANTS
    alice = alice
    bob = bob
    carol = carol
    Key <- MCKey
    StakeDoc <- MCStakeDoc
    DocOrder <- MCDocOrder
    EpochLength = 2
    DocSeqs <- MCDocSeqs
    Heights <- MCHeights
INVARIANTS
    TypeOK
    QuorumNeverRefused
    AcceptedHasSigner
CHECK_DEADLOCK FALSE
