SPECIFICATION RestartSpec
CONSTANTS
    Node <- Two
    Key = {k1}
    Value = {v1, v2}
    NoReply = NoReply
    Fanout <- One
    MAX_TOMBSTONES = 10
    MAX_ENTRIES_PER_KEY = 10
    MAX_KEYS = 10
    MaxWrites = 2
    MaxInFlight = 2
    MaxRestarts = 1
INVARIANTS
    TagsUnique
CHECK_DEADLOCK FALSE
