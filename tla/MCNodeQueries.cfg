SPECIFICATION FairSpec
CONSTANTS
    Block <- MCBlock
    Genesis = "genesis"
    Proof = {"p", "r"}
    Extends <- MCExtends
    Query = {query, self}
    Tester = self
    FirstTested = 2
    NoProof = NoProof
    NoReply = NoReply
    Refused = Refused
INVARIANTS
    CachesMatch
    
    SelfTestServed
PROPERTY
    QueriesAnswered
