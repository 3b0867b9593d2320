SPECIFICATION FairSpec
CONSTANTS
    K_MIN = 1
    K_MAX = 8
    SATURATION_HALF_K_ROUNDS = 3
    SATURATION_SLEEP_ROUNDS = 10
    PARTITION_STALE_ROUNDS = 20
    THERMAL_SHOCK_DELTA_THRESHOLD = 15
    THERMAL_MAX_COOLDOWN = 10
    MAX_CONSECUTIVE_SLEEPS = 10
    Delta <- Bursts
    Total <- Sizes
INVARIANTS
    TypeOK
PROPERTIES
    KeepsBudget
    PartitionNoticed
