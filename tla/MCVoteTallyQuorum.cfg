SPECIFICATION Spec
CONSTANTS
    alice = alice
    bob = bob
    carol = carol
    Key <- MCKey
    StakeDoc <- MCStakeDoc
    DocOrder <- MCDocOrder
    EpochLength = 2
    DocSeqs <- MCDocSeqs
    Heights <- MCHeights
INVARIANT
    AcceptedHasQuorum
CHECK_DEADLOCK FALSE
