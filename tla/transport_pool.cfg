SPECIFICATION FairSpec
CONSTANTS
    Send = {s1, s2}
    Peer = {p1, p2}
    None = None
    POOL_MAX_SIZE = 1
    MAX_INBOUND = 1
    First = s1
    Home = p1
CONSTRAINT InOrder
INVARIANTS
    TypeOK
    ConnectionsBounded
    RetryIsFresh
    TrueMeansSent
PROPERTIES
    SendsReturn
CHECK_DEADLOCK FALSE
