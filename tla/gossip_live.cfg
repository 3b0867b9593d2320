SPECIFICATION FairPushSpec
CONSTANTS
    Node <- Two
    Key = {k1}
    Value = {v1}
    NoReply = NoReply
    Fanout <- One
    MAX_TOMBSTONES = 10
    MAX_ENTRIES_PER_KEY = 10
    MAX_KEYS = 10
    MaxWrites = 2
    MaxInFlight = 2
PROPERTIES
    Convergence
CHECK_DEADLOCK FALSE
