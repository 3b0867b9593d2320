SPECIFICATION FairSpec
CONSTANTS
    Request = {r1, r2}
    Node = {n1}
    Self = n1
    Own = Own
    None = None
    QUEUE_MAX = 1
    MaxLines = 2
    Workers = 1
INVARIANTS
    TypeOK
    CountsMatch
    OneAnswer
    EndIsLast
PROPERTIES
    StuckForGood
    EndsUnlessStuck
CHECK_DEADLOCK FALSE
