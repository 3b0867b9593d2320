SPECIFICATION Spec
CONSTANTS
    Thread = {t1, t2}
    Caller = {c1, c2}
    Task = {w1}
    max_history = 2
    MaxCheckpoints = 3
    MaxCalls = 3
    MaxPushes = 1
    MaxFaults = 1
SYMMETRY Symmetry
INVARIANTS
    TypeOK
    TornOnlyWhenDisturbed
    ReadsNearlyWhole
    HistoryHasLatest
    WritesBeforeCheckpoint
CHECK_DEADLOCK FALSE
