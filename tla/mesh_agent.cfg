SPECIFICATION FairSpec
CONSTANTS
    Model = {m1, m2}
    Wanted = {m1}
    MAXLEN = 1
    MaxEvents = 2
    MaxCommands = 3
    MaxBatch = 2
INVARIANTS
    TypeOK
    EventsOnce
    CancelsSpent
PROPERTIES
    EjectAccounted
    LossExplained
    LogDrained
    CancelHeeded
