SPECIFICATION WarmSpec
CONSTANTS
    Node <- Two
    Key = {k1, k2}
    Value = {v1}
    NoReply = NoReply
    Fanout <- One
    MAX_TOMBSTONES = 2
    MAX_ENTRIES_PER_KEY = 2
    MAX_KEYS = 1
    MaxWrites = 3
    MaxInFlight = 2
INVARIANTS
    TagsUnique
    NoOrphanTombstone
    CapsHold
PROPERTIES
    OverwriteKeepsKey
CHECK_DEADLOCK FALSE
