SPECIFICATION FairSpec
CONSTANTS
    Conn = {c1, c2}
    Caller = {query, poll, apply}
    Once = {apply}
    NoConn = NoConn
    MaxErrors = 2
    MaxDrops = 1
INVARIANTS
    Exclusive
    OnlyDropsLose
PROPERTY
    QueriesReturn
