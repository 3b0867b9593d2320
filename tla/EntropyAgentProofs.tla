------------------------- MODULE EntropyAgentProofs -------------------------
(* Proofs about EntropyAgent for all values of its limits: its counters     *)
(* stay within them, and it implements SilenceBudget.                       *)
EXTENDS EntropyAgent, TLAPS

(* A burst plans a cooldown within its limit, whatever its size. *)
LEMMA CooldownBounded ==
    ASSUME NEW delta \in Int, delta > 0
    PROVE  Cooldown(delta) \in 0..THERMAL_MAX_COOLDOWN
<1>1. delta \div 3 \in Nat
  OBVIOUS
<1> QED
  BY <1>1, SchedulerAssumption DEF Cooldown, AtMost

(* The fan-out stays between its limits when it is adapted or halved. *)
LEMMA FanOutBounded ==
    ASSUME current_k \in K_MIN..K_MAX
    PROVE  /\ \A band : Adapted(band) \in K_MIN..K_MAX
           /\ \A rounds : EffectiveK(rounds) \in K_MIN..K_MAX
<1>1. current_k \div 2 \in Int /\ current_k \div 2 <= current_k
  BY SchedulerAssumption
<1>2. ASSUME NEW band PROVE Adapted(band) \in K_MIN..K_MAX
  <2>1. CASE band = "high"
    BY <2>1, SchedulerAssumption DEF Adapted, AtMost
  <2>2. CASE band = "mid"
    BY <2>2, SchedulerAssumption DEF Adapted
  <2>3. CASE band \notin {"high", "mid"}
    <3>1. Adapted(band) = AtLeast(K_MIN, current_k - 1)
      BY <2>3 DEF Adapted
    <3> QED
      BY <3>1, SchedulerAssumption DEF AtLeast
  <2> QED
    BY <2>1, <2>2, <2>3
<1>3. ASSUME NEW rounds PROVE EffectiveK(rounds) \in K_MIN..K_MAX
  BY <1>1, SchedulerAssumption DEF EffectiveK, AtLeast
<1> QED
  BY <1>2, <1>3

(* The next silence is within the budget, and a sleep speaks when it must. *)
LEMMA SleepBounded ==
    ASSUME TypeOK, Sleep
    PROVE  /\ consecutive_sleeps' \in 0..(MAX_CONSECUTIVE_SLEEPS - 1)
           /\ answer' \in {0} \cup K_MIN..K_MAX
           /\ \/ consecutive_sleeps' = 0 /\ answer' = K_MIN
              \/ /\ consecutive_sleeps + 1 < MAX_CONSECUTIVE_SLEEPS
                 /\ consecutive_sleeps' = consecutive_sleeps + 1
                 /\ answer' = 0
<1> USE SchedulerAssumption DEF TypeOK
<1>1. CASE MustWake
  BY <1>1 DEF Sleep
<1>2. CASE ~ MustWake
  BY <1>2 DEF Sleep, MustWake
<1> QED
  BY <1>1, <1>2

LEMMA InitTypeOK == Init => TypeOK
BY SchedulerAssumption DEF Init, TypeOK, MaxStale, AtLeast

(* Each call keeps every counter within its limits. *)
LEMMA StepTypeOK == TypeOK /\ [Next]_vars => TypeOK'
<1> SUFFICES ASSUME TypeOK, [Next]_vars PROVE TypeOK'
  OBVIOUS
<1> USE SchedulerAssumption
<1>0. MaxStale \in Nat /\ MaxStale' = MaxStale
  BY DEF MaxStale, AtLeast
<1>1. ASSUME NEW delta \in Delta, ReceiveChange(delta) PROVE TypeOK'
  <2>1. Cooldown(delta) \in 0..THERMAL_MAX_COOLDOWN
    BY <1>1, CooldownBounded DEF ReceiveChange
  <2>2. thermal_cooldown' \in 0..THERMAL_MAX_COOLDOWN
    BY <1>1, <2>1 DEF ReceiveChange, TypeOK, AtLeast
  <2>3. /\ rounds_since_change' = 0
        /\ offline' = FALSE
        /\ UNCHANGED <<entropy_estimate, current_k, last_state_total, consecutive_sleeps, answer>>
    BY <1>1 DEF ReceiveChange, estimate
  <2>4. rounds_since_change' \in 0..MaxStale'
    BY <1>0, <2>3
  <2>5. offline' \in BOOLEAN
    BY <2>3, Zenon
  <2> QED
    BY <2>2, <2>3, <2>4, <2>5 DEF TypeOK
<1>2. ASSUME NEW delta \in Delta, ReceiveNothing(delta) PROVE TypeOK'
  BY <1>2 DEF ReceiveNothing, TypeOK, MaxStale, estimate, saturation
<1>3. CASE TimePasses
  BY <1>3 DEF TimePasses, TypeOK, MaxStale, estimate, saturation
<1>4. ASSUME NEW bands \in SUBSET {"zero", "low", "mid", "high"}, Packet(bands) PROVE TypeOK'
  <2>1. PICK band \in bands : entropy_estimate' = band /\ current_k' = Adapted(band)
    BY <1>4 DEF Packet
  <2>2. current_k' \in K_MIN..K_MAX
    BY <2>1, FanOutBounded DEF TypeOK
  <2> QED
    BY <1>4, <2>1, <2>2 DEF Packet, TypeOK, MaxStale, saturation
<1>5. CASE PacketLost
  <2>1. AfterLoss \in SUBSET {"zero", "low", "mid", "high"}
    BY DEF AfterLoss, TypeOK
  <2> QED
    BY <1>4, <1>5, <2>1 DEF PacketLost
<1>6. CASE PacketDelivered
  <2>1. AfterDelivery \in SUBSET {"zero", "low", "mid", "high"}
    BY DEF AfterDelivery, TypeOK
  <2> QED
    BY <1>4, <1>6, <2>1 DEF PacketDelivered
<1>7. CASE CooldownRound
  <2>1. Sleep
    BY <1>7 DEF CooldownRound
  <2>2. thermal_cooldown' \in 0..THERMAL_MAX_COOLDOWN
    BY <1>7 DEF CooldownRound, TypeOK
  <2> QED
    BY <1>7, <2>1, <2>2, SleepBounded
    DEF CooldownRound, TypeOK, MaxStale, estimate, saturation
<1>8. ASSUME NEW total \in Total, Round(total) PROVE TypeOK'
  <2>1. /\ rounds_since_change' \in 0..MaxStale
        /\ last_state_total' \in Nat
    BY <1>0, <1>8 DEF Round, Saturation, TypeOK, AtMost
  <2>2. /\ consecutive_sleeps' \in 0..(MAX_CONSECUTIVE_SLEEPS - 1)
        /\ answer' \in {0} \cup K_MIN..K_MAX
    <3>1. CASE Sleep
      BY <3>1, SleepBounded
    <3>2. CASE consecutive_sleeps' = 0 /\ answer' = EffectiveK(rounds_since_change')
      BY <3>2, FanOutBounded DEF TypeOK
    <3> QED
      BY <1>8, <3>1, <3>2 DEF Round
  <2> QED
    BY <1>8, <2>1, <2>2 DEF Round, TypeOK, MaxStale, estimate
<1>9. CASE UNCHANGED vars
  BY <1>9 DEF vars, TypeOK, MaxStale, estimate, saturation
<1> QED
  BY <1>1, <1>2, <1>3, <1>5, <1>6, <1>7, <1>8, <1>9 DEF Next

(* The counters of the scheduler stay within the limits of the code, for    *)
(* all limits and whatever is received, lost and asked.                     *)
THEOREM TypeCorrect == Spec => []TypeOK
BY InitTypeOK, StepTypeOK, PTL DEF Spec

(* The scheduler starts as the budget does. *)
LEMMA InitBudget == Init => Silence!Init
BY SchedulerAssumption DEF Init, Silence!Init

(* Each call is a round of the budget, or leaves it alone. *)
LEMMA StepBudget == TypeOK /\ [Next]_vars => [Silence!Next]_(Silence!vars)
<1> SUFFICES ASSUME TypeOK, [Next]_vars PROVE [Silence!Next]_(Silence!vars)
  OBVIOUS
<1> USE SchedulerAssumption
<1>1. ASSUME Sleep PROVE Silence!Next
  <2>1. CASE consecutive_sleeps' = 0 /\ answer' = K_MIN
    BY <2>1 DEF Silence!Next, Silence!Speak
  <2>2. CASE /\ consecutive_sleeps + 1 < MAX_CONSECUTIVE_SLEEPS
             /\ consecutive_sleeps' = consecutive_sleeps + 1
             /\ answer' = 0
    BY <2>2 DEF Silence!Next, Silence!Skip
  <2> QED
    BY <1>1, <2>1, <2>2, SleepBounded
<1>2. ASSUME UNCHANGED <<consecutive_sleeps, answer>> PROVE UNCHANGED Silence!vars
  BY <1>2 DEF Silence!vars
<1>3. ASSUME NEW delta \in Delta, ReceiveChange(delta) PROVE UNCHANGED Silence!vars
  BY <1>2, <1>3 DEF ReceiveChange
<1>4. ASSUME NEW delta \in Delta, ReceiveNothing(delta) PROVE UNCHANGED Silence!vars
  BY <1>2, <1>4 DEF ReceiveNothing
<1>5. CASE TimePasses
  BY <1>2, <1>5 DEF TimePasses
<1>6. CASE PacketLost \/ PacketDelivered
  BY <1>2, <1>6 DEF PacketLost, PacketDelivered, Packet
<1>7. CASE CooldownRound
  BY <1>1, <1>7 DEF CooldownRound
<1>8. ASSUME NEW total \in Total, Round(total) PROVE Silence!Next
  <2>1. CASE Sleep
    BY <1>1, <2>1
  <2>2. CASE consecutive_sleeps' = 0 /\ answer' = EffectiveK(rounds_since_change')
    <3>1. answer' > 0
      BY <2>2, FanOutBounded DEF TypeOK
    <3> QED
      BY <2>2, <3>1 DEF Silence!Next, Silence!Speak
  <2> QED
    BY <1>8, <2>1, <2>2 DEF Round
<1>9. CASE UNCHANGED vars
  BY <1>2, <1>9 DEF vars
<1> QED
  BY <1>3, <1>4, <1>5, <1>6, <1>7, <1>8, <1>9 DEF Next

(* No order of cooldowns, deep and light sleeps, losses and bursts makes    *)
(* the scheduler skip MAX_CONSECUTIVE_SLEEPS rounds in a row.               *)
THEOREM BudgetKept == Spec => KeepsBudget
<1>1. TypeOK /\ [Next]_vars => [Silence!Next]_(Silence!vars)
  BY StepBudget
<1> QED
  BY InitBudget, TypeCorrect, <1>1, PTL DEF Spec, KeepsBudget, Silence!Spec

-----------------------------------------------------------------------------
(* How is_likely_partitioned() is approached. *)

(* Rounds that must pass before stagnation has lasted long enough: those   *)
(* of the cooldown, in which it is not counted, and those still missing.   *)
RoundsToSuspicion ==
    thermal_cooldown + AtLeast(0, PARTITION_STALE_ROUNDS + 1 - rounds_since_change)

(* It is what keeps a partition from being reported, besides the sleeps.   *)
SuspicionIsDue ==
    /\ RoundsToSuspicion \in 0 .. (THERMAL_MAX_COOLDOWN + PARTITION_STALE_ROUNDS + 1)
    /\ (RoundsToSuspicion = 0 /\ consecutive_sleeps = 0) <=> MayReportPartition

(* While nothing changes no call moves it away, and each get_k() brings it *)
(* nearer, one that skips the round like any other.                        *)
SuspicionNears ==
    ~ Changes =>
        /\ RoundsToSuspicion' <= RoundsToSuspicion
        /\ (GetK /\ RoundsToSuspicion > 0) => RoundsToSuspicion' < RoundsToSuspicion

(* The count that a round without growth leaves is nearer to suspicion: the *)
(* cap on it lies beyond the threshold.                                     *)
LEMMA StagnationCounts ==
    ASSUME TypeOK, NEW total \in Total, Saturation(total), UNCHANGED last_state_total
    PROVE  /\ rounds_since_change' \in Nat
           /\ rounds_since_change' >= rounds_since_change
           /\ rounds_since_change <= PARTITION_STALE_ROUNDS =>
                 rounds_since_change' > rounds_since_change
<1> USE SchedulerAssumption
<1>0. /\ MaxStale \in Nat /\ MaxStale > PARTITION_STALE_ROUNDS
      /\ rounds_since_change \in 0..MaxStale
  BY DEF MaxStale, AtLeast, TypeOK
<1>1. ~ total > last_state_total
  BY DEF Saturation, TypeOK
<1>2. rounds_since_change' = AtMost(MaxStale, rounds_since_change + 1)
  BY <1>1 DEF Saturation
<1> QED
  BY <1>0, <1>2 DEF AtMost

LEMMA StepNears == TypeOK /\ [Next]_vars => [SuspicionNears]_vars
<1> SUFFICES ASSUME TypeOK, Next, ~ Changes
             PROVE  /\ RoundsToSuspicion' <= RoundsToSuspicion
                    /\ (GetK /\ RoundsToSuspicion > 0) => RoundsToSuspicion' < RoundsToSuspicion
  BY DEF SuspicionNears
<1> USE SchedulerAssumption
<1> DEFINE Nears == /\ RoundsToSuspicion' <= RoundsToSuspicion
                    /\ (GetK /\ RoundsToSuspicion > 0) => RoundsToSuspicion' < RoundsToSuspicion
<1>0. /\ rounds_since_change \in Nat
      /\ thermal_cooldown \in Nat
      /\ last_state_total' = last_state_total
  BY DEF TypeOK, MaxStale, AtLeast, Changes
<1> DEFINE missing == IF PARTITION_STALE_ROUNDS + 1 - rounds_since_change < 0 THEN 0
                      ELSE PARTITION_STALE_ROUNDS + 1 - rounds_since_change
<1>2. /\ RoundsToSuspicion = thermal_cooldown + missing
      /\ RoundsToSuspicion' = thermal_cooldown' + missing'
  BY DEF RoundsToSuspicion, AtLeast
<1>1. ASSUME NEW delta \in Delta, ReceiveChange(delta) PROVE FALSE
  BY <1>1 DEF Changes
<1>3. CASE CooldownRound
  <2>1. /\ thermal_cooldown' \in Nat /\ thermal_cooldown' < thermal_cooldown
        /\ rounds_since_change' = rounds_since_change
    BY <1>0, <1>3 DEF CooldownRound, saturation
  <2>2. missing \in Nat /\ missing' = missing
    BY <1>0, <2>1
  <2> HIDE DEF missing
  <2>3. \A m, n, k \in Nat : m < n => m + k <= n + k /\ m + k < n + k
    OBVIOUS
  <2>4. RoundsToSuspicion' <= RoundsToSuspicion /\ RoundsToSuspicion' < RoundsToSuspicion
    BY <1>0, <1>2, <2>1, <2>2, <2>3
  <2> QED
    BY <2>4
<1>4. ASSUME NEW total \in Total, Round(total) PROVE Nears
  <2>1. /\ thermal_cooldown = 0 /\ thermal_cooldown' = 0
        /\ Saturation(total)
    BY <1>4 DEF Round
  <2>2. /\ rounds_since_change' \in Nat
        /\ rounds_since_change' >= rounds_since_change
        /\ rounds_since_change <= PARTITION_STALE_ROUNDS =>
              rounds_since_change' > rounds_since_change
    BY <1>0, <2>1, StagnationCounts
  <2> DEFINE Missing(r) == IF PARTITION_STALE_ROUNDS + 1 - r < 0 THEN 0
                           ELSE PARTITION_STALE_ROUNDS + 1 - r
  <2>a. \A r, q \in Nat : q >= r /\ (r <= PARTITION_STALE_ROUNDS => q > r) =>
                             /\ Missing(r) \in Nat /\ Missing(q) \in Nat
                             /\ Missing(q) <= Missing(r)
                             /\ Missing(r) > 0 => Missing(q) < Missing(r)
    OBVIOUS
  <2>b. missing = Missing(rounds_since_change) /\ missing' = Missing(rounds_since_change')
    OBVIOUS
  <2> HIDE DEF Missing
  <2>3. /\ missing \in Nat /\ missing' \in Nat /\ missing' <= missing
        /\ missing > 0 => missing' < missing
    <3> HIDE DEF missing
    <3> QED BY <1>0, <2>2, <2>a, <2>b, Zenon
  <2> HIDE DEF missing
  <2>4. \A n \in Nat : 0 + n = n
    OBVIOUS
  <2>5. RoundsToSuspicion = missing /\ RoundsToSuspicion' = missing'
    BY <1>2, <2>1, <2>3, <2>4
  <2>6. /\ RoundsToSuspicion' <= RoundsToSuspicion
        /\ RoundsToSuspicion > 0 => RoundsToSuspicion' < RoundsToSuspicion
    BY <2>3, <2>5, Zenon
  <2> QED
    BY <2>6
<1>5. ASSUME UNCHANGED <<thermal_cooldown, rounds_since_change>>, ~ GetK PROVE Nears
  <2>1. RoundsToSuspicion' = RoundsToSuspicion
    BY <1>5 DEF RoundsToSuspicion, AtLeast
  <2>2. RoundsToSuspicion \in Nat
    BY <1>0 DEF RoundsToSuspicion, AtLeast
  <2>3. \A n \in Nat : n <= n
    OBVIOUS
  <2> QED
    BY <1>5, <2>1, <2>2, <2>3
<1>6. ASSUME (\E delta \in Delta : ReceiveNothing(delta)) \/ TimePasses \/ PacketLost
               \/ PacketDelivered
      PROVE  UNCHANGED <<thermal_cooldown, rounds_since_change>>
  BY <1>6 DEF ReceiveNothing, TimePasses, PacketLost, PacketDelivered, Packet, saturation
<1>7. Nears
  <2>1. CASE GetK
    BY <1>3, <1>4, <2>1 DEF GetK
  <2>2. CASE ~ GetK
    BY <1>1, <1>5, <1>6, <2>2 DEF Next, GetK
  <2> QED
    BY <2>1, <2>2
<1> QED
  BY <1>7

(* The safety that PartitionNoticed rests on: while nothing changes, a node *)
(* comes nearer to reporting a partition with every round, in a cooldown, a *)
(* sleep or a push alike, and nothing moves it away; and once there it may  *)
(* report one whenever it is not in a row of skipped rounds, which are few  *)
(* (BudgetKept).                                                            *)
THEOREM PartitionNears == Spec => []SuspicionIsDue /\ [][SuspicionNears]_vars
<1>1. TypeOK => SuspicionIsDue
  <2> SUFFICES ASSUME TypeOK PROVE SuspicionIsDue
    OBVIOUS
  <2>1. /\ rounds_since_change \in Nat
        /\ thermal_cooldown \in 0..THERMAL_MAX_COOLDOWN
    BY SchedulerAssumption DEF TypeOK, MaxStale, AtLeast
  <2> QED
    BY <2>1, SchedulerAssumption
    DEF SuspicionIsDue, RoundsToSuspicion, MayReportPartition, AtLeast
<1> QED
  BY <1>1, TypeCorrect, StepNears, PTL DEF Spec
=============================================================================
