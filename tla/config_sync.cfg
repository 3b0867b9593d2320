SPECIFICATION FairSpec
CONSTANTS
    Node <- Zero
    Server <- Dash
    Agent = {a1}
    Key = {k1, k2}
    Value = {v1, bad}
    Unset = Unset
    Invalid = {bad}
    MAX_TOMBSTONES = 10
    MAX_ENTRIES_PER_KEY = 10
    MAX_KEYS = 1
    MaxWrites = 2
    MaxCrashes = 1
INVARIANTS
    TypeOK
    CleanMeansSaved
    FileBehindMap
PROPERTIES
    OnlyReplacedVanish
    SettingsReachProxies
CHECK_DEADLOCK FALSE
