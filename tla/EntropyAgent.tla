---------------------------- MODULE EntropyAgent ----------------------------
(* The adaptive gossip scheduler of src/src/entropy_agent.rs.  A store asks *)
(* it in each round how many peers to push to (get_k, 0 to skip the round)  *)
(* and tells it what became of each packet (on_packet_sent) and what was    *)
(* received (on_receive).                                                   *)
(*                                                                          *)
(* The loss estimate, a float in [0, 1], is kept as the band the code       *)
(* compares it with; draws of the random generator are nondeterministic.    *)
(* Every call that carries a time leaves last_recv_monotonic_ms at that     *)
(* time (the clock is monotonic), so that all of the clock is whether more  *)
(* than THERMAL_OFFLINE_THRESHOLD_MS have passed since the last one.        *)
EXTENDS Integers

CONSTANTS
    K_MIN, K_MAX,
    SATURATION_HALF_K_ROUNDS, SATURATION_SLEEP_ROUNDS,
    PARTITION_STALE_ROUNDS,
    THERMAL_SHOCK_DELTA_THRESHOLD, THERMAL_MAX_COOLDOWN,
    MAX_CONSECUTIVE_SLEEPS,
    Delta,      \* what merges may report to on_receive
    Total       \* the sizes of the map get_k may be told

ASSUME SchedulerAssumption ==
    /\ K_MIN \in Nat \ {0}
    /\ K_MAX \in Nat
    /\ K_MIN <= K_MAX
    /\ SATURATION_HALF_K_ROUNDS \in Nat
    /\ SATURATION_SLEEP_ROUNDS \in Nat
    /\ PARTITION_STALE_ROUNDS \in Nat
    /\ THERMAL_SHOCK_DELTA_THRESHOLD \in Nat
    /\ THERMAL_MAX_COOLDOWN \in Nat
    /\ MAX_CONSECUTIVE_SLEEPS \in Nat \ {0}
    /\ Delta \subseteq Int
    /\ Total \subseteq Nat

VARIABLES
    entropy_estimate,    \* "zero" until the first loss, then a band
    current_k,
    rounds_since_change,
    last_state_total,
    thermal_cooldown,
    consecutive_sleeps,
    offline,             \* no call for longer than the threshold
    answer               \* what get_k answered last

saturation == <<rounds_since_change, last_state_total>>
estimate == <<entropy_estimate, current_k>>
vars == <<estimate, saturation, thermal_cooldown, consecutive_sleeps, offline, answer>>

AtMost(bound, n) == IF n > bound THEN bound ELSE n
AtLeast(bound, n) == IF n < bound THEN bound ELSE n

Init ==
    /\ entropy_estimate = "zero"
    /\ current_k = K_MIN
    /\ rounds_since_change = 0
    /\ last_state_total = 0
    /\ thermal_cooldown = 0
    /\ consecutive_sleeps = 0
    /\ offline \in BOOLEAN
    /\ answer = K_MIN

-----------------------------------------------------------------------------
(* on_receive(). *)

(* Slip: a shock puts the node to sleep for as long as its size suggests. *)
CooldownUnclamped(delta) == delta

Cooldown(delta) == AtMost(THERMAL_MAX_COOLDOWN, delta \div 3)

(* A merge brought something: stagnation ends, and a burst after a long    *)
(* absence starts a cooldown unless a longer one is running.               *)
ReceiveChange(delta) ==
    /\ delta > 0
    /\ rounds_since_change' = 0
    /\ thermal_cooldown' =
         IF delta > THERMAL_SHOCK_DELTA_THRESHOLD /\ offline
         THEN AtLeast(thermal_cooldown, Cooldown(delta))
         ELSE thermal_cooldown
    /\ offline' = FALSE
    /\ UNCHANGED <<estimate, last_state_total, consecutive_sleeps, answer>>

ReceiveNothing(delta) ==
    /\ delta <= 0
    /\ offline' = FALSE
    /\ UNCHANGED <<estimate, saturation, thermal_cooldown, consecutive_sleeps, answer>>

(* More than THERMAL_OFFLINE_THRESHOLD_MS pass. *)
TimePasses ==
    /\ ~ offline
    /\ offline' = TRUE
    /\ UNCHANGED <<estimate, saturation, thermal_cooldown, consecutive_sleeps, answer>>

-----------------------------------------------------------------------------
(* on_packet_sent(). *)

(* The first loss lifts the estimate from 0 to exactly 0.5, which is not   *)
(* above the high threshold; a later one lifts it above, unless so many    *)
(* deliveries lie between that 0.5 is all that is left after rounding.     *)
AfterLoss == CASE entropy_estimate = "zero" -> {"mid"}
               [] entropy_estimate = "low" -> {"mid", "high"}
               [] OTHER -> {"high"}

AfterDelivery == CASE entropy_estimate = "high" -> {"high", "mid"}
                   [] entropy_estimate = "mid" -> {"mid", "low"}
                   [] OTHER -> {entropy_estimate}

Adapted(band) ==
    CASE band = "high" -> AtMost(K_MAX, current_k + 1)
      [] band = "mid" -> current_k
      [] OTHER -> AtLeast(K_MIN, current_k - 1)

Packet(bands) ==
    /\ \E band \in bands :
          /\ entropy_estimate' = band
          /\ current_k' = Adapted(band)
    /\ UNCHANGED <<saturation, thermal_cooldown, consecutive_sleeps, offline, answer>>

PacketLost == Packet(AfterLoss)
PacketDelivered == Packet(AfterDelivery)

-----------------------------------------------------------------------------
(* get_k(). *)

(* Slip: the tenth sleep is allowed. *)
MustWakeLate == consecutive_sleeps + 1 > MAX_CONSECUTIVE_SLEEPS

MustWake == consecutive_sleeps + 1 >= MAX_CONSECUTIVE_SLEEPS

(* A round that would be skipped, and is not when it would be one too many. *)
Sleep ==
    IF MustWake
    THEN consecutive_sleeps' = 0 /\ answer' = K_MIN
    ELSE consecutive_sleeps' = consecutive_sleeps + 1 /\ answer' = 0

(* The cooldown goes first, and a forced round ends it.                    *)
CooldownRound ==
    /\ thermal_cooldown > 0
    /\ Sleep
    /\ thermal_cooldown' = IF MustWake THEN 0 ELSE thermal_cooldown - 1
    /\ offline' = FALSE
    /\ UNCHANGED <<estimate, saturation>>

(* Slip: the count stops at the threshold it has to exceed. *)
MaxStaleAtThreshold == AtLeast(PARTITION_STALE_ROUNDS, SATURATION_SLEEP_ROUNDS)

MaxStale == AtLeast(PARTITION_STALE_ROUNDS, SATURATION_SLEEP_ROUNDS) + 1

(* Stagnation is counted in rounds without growth of the map; a map that   *)
(* has shrunk must outgrow its old size first.                             *)
Saturation(total) ==
    IF total > last_state_total
    THEN /\ rounds_since_change' = 0
         /\ last_state_total' = total
    ELSE /\ rounds_since_change' = AtMost(MaxStale, rounds_since_change + 1)
         /\ UNCHANGED last_state_total

EffectiveK(rounds) ==
    IF rounds > SATURATION_HALF_K_ROUNDS THEN AtLeast(K_MIN, current_k \div 2) ELSE current_k

(* The deep sleep of stagnation and the light one of a low estimate are    *)
(* both a matter of chance, and count the same.                            *)
Round(total) ==
    /\ thermal_cooldown = 0
    /\ Saturation(total)
    /\ \/ /\ \/ rounds_since_change' > SATURATION_SLEEP_ROUNDS
             \/ entropy_estimate \in {"zero", "low"}
          /\ Sleep
       \/ /\ consecutive_sleeps' = 0
          /\ answer' = EffectiveK(rounds_since_change')
    /\ offline' = FALSE
    /\ UNCHANGED <<estimate, thermal_cooldown>>

(* is_likely_partitioned(), where the variance of the estimate is low.     *)
MayReportPartition ==
    /\ thermal_cooldown = 0
    /\ consecutive_sleeps = 0
    /\ rounds_since_change > PARTITION_STALE_ROUNDS

GetK == CooldownRound \/ \E total \in Total : Round(total)

-----------------------------------------------------------------------------

Next ==
    \/ \E delta \in Delta : ReceiveChange(delta)
    \/ \E delta \in Delta : ReceiveNothing(delta)
    \/ TimePasses
    \/ PacketLost
    \/ PacketDelivered
    \/ CooldownRound
    \/ \E total \in Total : Round(total)

Spec == Init /\ [][Next]_vars

(* The store's gossip loop asks for as long as it runs. *)
FairSpec == Spec /\ WF_vars(GetK)

-----------------------------------------------------------------------------

(* Every counter stays within the limits the code gives it; in particular  *)
(* no burst, however large, plans more than THERMAL_MAX_COOLDOWN silent    *)
(* rounds.                                                                 *)
TypeOK ==
    /\ entropy_estimate \in {"zero", "low", "mid", "high"}
    /\ current_k \in K_MIN..K_MAX
    /\ rounds_since_change \in 0..MaxStale
    /\ last_state_total \in Nat
    /\ thermal_cooldown \in 0..THERMAL_MAX_COOLDOWN
    /\ consecutive_sleeps \in 0..(MAX_CONSECUTIVE_SLEEPS - 1)
    /\ offline \in BOOLEAN
    /\ answer \in {0} \cup K_MIN..K_MAX

(* "S6 floor guard must force wake-up within MAX_CONSECUTIVE_SLEEPS":      *)
(* cooldown, deep sleep and light sleep share one budget, whatever order   *)
(* they come in and whatever is received meanwhile.                        *)
Silence == INSTANCE SilenceBudget
             WITH Budget <- MAX_CONSECUTIVE_SLEEPS,
                  silent <- consecutive_sleeps,
                  spoke <- answer > 0
KeepsBudget == Silence!Spec

Changes ==
    \/ \E delta \in Delta : ReceiveChange(delta)
    \/ last_state_total' # last_state_total

(* When nothing changes any more the node keeps coming into a state in     *)
(* which is_likely_partitioned() may say so: the sleeps, which forbid it,  *)
(* and the cap on the count do not hide a partition for ever.              *)
PartitionNoticed ==
    <>[][~ Changes]_vars => []<>MayReportPartition
=============================================================================
