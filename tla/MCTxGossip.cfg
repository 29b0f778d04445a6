SPECIFICATION FairSpec
CONSTANTS
    Node = {"n1", "n2", "n3"}
    Client = client
    Routes <- MCRoutes
    Entry = {"n1"}
    Tx = {tx}
    Elsewhere = {parent}
    Needs <- MCNeeds
    MaxBlocks = 2
    MaxLost = 1
PROPERTIES
    GossipEnds
    
    RepeatedGetsIn
