SPECIFICATION Spec
CONSTANTS
    Request = {r1}
    Node = {n1, n2}
    Self = n1
    Own = Own
    None = None
    QUEUE_MAX = 1
    MaxLines = 1
    Workers = 1
INVARIANTS
    FleetFailsOver
CHECK_DEADLOCK FALSE
