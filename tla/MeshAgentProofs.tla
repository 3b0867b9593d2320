--------------------------- MODULE MeshAgentProofs ---------------------------
(* Proofs about MeshAgent for all models, bounds and capacities: types, the *)
(* order of routing events, the account of an eject and the spending of     *)
(* cancel flags.                                                            *)
EXTENDS MeshAgent, FiniteSetTheorems, SequenceTheorems, TLAPS

-----------------------------------------------------------------------------
(* The heartbeat. *)

Increasing(s) == \A i, j \in 1..Len(s) : i < j => s[i] < s[j]
Below(n, s) == \A i \in 1..Len(s) : n < s[i]

(* EventsOnce, for the three parts of the way apart.                       *)
Ordered ==
    /\ beat.at # "posting" => beat.batch = <<>>
    /\ Increasing(beat.batch)
    /\ Increasing(log)
    /\ Below(told, beat.batch)
    /\ Below(told, log)
    /\ \A i \in 1..Len(beat.batch) : Below(beat.batch[i], log)

(* A full log keeps its newest events, in their order. *)
Dropped(events) == Len(events) - Len(Kept(events))

LEMMA KeptNewest ==
    ASSUME NEW S, NEW events \in Seq(S)
    PROVE  /\ Kept(events) \in Seq(S)
           /\ Len(Kept(events)) <= MAXLEN
           /\ Dropped(events) \in Nat
           /\ \A i \in 1..Len(Kept(events)) : Kept(events)[i] = events[i + Dropped(events)]
<1> USE AgentAssumption
<1>1. CASE Len(events) > MAXLEN
  <2> DEFINE first == Len(events) - MAXLEN + 1
  <2>1. /\ Kept(events) = SubSeq(events, first, Len(events))
        /\ first \in 1..Len(events)
        /\ Len(events) \in Nat
    BY <1>1 DEF Kept
  <2>2. \A i \in first..Len(events) : events[i] \in S
    BY <2>1
  <2>3. /\ Kept(events) \in Seq(S)
        /\ Len(Kept(events)) = Len(events) - first + 1
        /\ \A i \in 1..(Len(events) - first + 1) : Kept(events)[i] = events[first + i - 1]
    BY <2>1, <2>2, SubSeqProperties
  <2> QED
    BY <2>1, <2>3 DEF Dropped
<1>2. CASE ~ (Len(events) > MAXLEN)
  <2>1. Kept(events) = events /\ Len(events) \in Nat
    BY <1>2 DEF Kept
  <2> QED
    BY <1>2, <2>1 DEF Dropped
<1> QED
  BY <1>1, <1>2

LEMMA InitHeartbeat == Init => HeartbeatTypeOK /\ Ordered
BY AgentAssumption DEF Init, HeartbeatTypeOK, Ordered, Increasing, Below, Backend

(* A new event comes after all that are on their way. *)
LEMMA RecordKeepsOrder ==
    ASSUME HeartbeatTypeOK, Ordered, Record
    PROVE  HeartbeatTypeOK' /\ Ordered'
<1> DEFINE events == Append(log, recorded + 1)
<1>1. /\ recorded' = recorded + 1
      /\ recorded < MaxEvents
      /\ log' = Kept(events)
      /\ UNCHANGED <<engine, beat, told>>
  BY DEF Record
<1>2. /\ log \in Seq(1..recorded)
      /\ recorded \in Nat
      /\ beat.batch \in Seq(1..recorded)
      /\ Len(log) <= MAXLEN
      /\ told \in 0..recorded
  BY AgentAssumption DEF HeartbeatTypeOK
<1>3. /\ events \in Seq(1..recorded')
      /\ Len(events) = Len(log) + 1
      /\ \A i \in 1..Len(log) : events[i] = log[i]
      /\ events[Len(log) + 1] = recorded + 1
  BY <1>1, <1>2
<1>4. beat.batch \in Seq(1..recorded')
  BY <1>1, <1>2
<1> HIDE DEF events
<1>5. /\ log' \in Seq(1..recorded')
      /\ Len(log') <= MAXLEN
  BY <1>1, <1>2, <1>3, KeptNewest, AgentAssumption
<1>6. /\ Dropped(events) \in Nat
      /\ \A i \in 1..Len(log') : log'[i] = events[i + Dropped(events)]
      /\ Len(log') + Dropped(events) = Len(events)
      /\ Len(log') \in Nat
  <2>1. /\ Dropped(events) \in Nat
        /\ \A i \in 1..Len(log') : log'[i] = events[i + Dropped(events)]
    BY <1>1, <1>3, KeptNewest
  <2>2. Dropped(events) = Len(events) - Len(log')
    BY <1>1 DEF Dropped
  <2>3. Len(events) \in Nat /\ Len(log') \in Nat
    BY <1>3, <1>5
  <2> QED
    BY <2>1, <2>2, <2>3
<1>7. /\ \A i \in 1..Len(log) : log[i] \in 1..recorded
      /\ Len(log) \in Nat
  BY <1>2
<1>8. Increasing(events)
  <2>1. SUFFICES ASSUME NEW i \in 1..(Len(log) + 1), NEW j \in 1..(Len(log) + 1), i < j
                 PROVE  events[i] < events[j]
    BY <1>3 DEF Increasing
  <2>2. i \in 1..Len(log)
    BY <1>7, <2>1
  <2>3. CASE j \in 1..Len(log)
    BY <1>3, <2>1, <2>2, <2>3 DEF Ordered, Increasing
  <2>4. CASE j = Len(log) + 1
    <3>1. events[i] \in 1..recorded
      BY <1>3, <1>7, <2>2
    <3>2. events[j] = recorded + 1
      BY <1>3, <2>4
    <3> QED
      BY <1>2, <3>1, <3>2
  <2> QED
    BY <1>7, <2>1, <2>3, <2>4
<1>9. ASSUME NEW n \in 0..recorded, Below(n, log) PROVE Below(n, events)
  <2>1. SUFFICES ASSUME NEW i \in 1..(Len(log) + 1) PROVE n < events[i]
    BY <1>3 DEF Below
  <2>2. CASE i \in 1..Len(log)
    BY <1>3, <1>9, <2>2 DEF Below
  <2>3. CASE i = Len(log) + 1
    BY <1>2, <1>3, <2>3
  <2> QED
    BY <1>7, <2>1, <2>2, <2>3
<1>10. /\ Below(told, events)
       /\ \A i \in 1..Len(beat.batch) : Below(beat.batch[i], events)
  <2>1. \A i \in 1..Len(beat.batch) : beat.batch[i] \in 0..recorded
    BY <1>2
  <2> QED
    BY <1>2, <1>9, <2>1 DEF Ordered
<1>11. Increasing(log')
  <2>1. SUFFICES ASSUME NEW i \in 1..Len(log'), NEW j \in 1..Len(log'), i < j
                 PROVE  log'[i] < log'[j]
    BY DEF Increasing
  <2>2. /\ i + Dropped(events) \in 1..Len(events)
        /\ j + Dropped(events) \in 1..Len(events)
        /\ i + Dropped(events) < j + Dropped(events)
    BY <1>6, <2>1
  <2> QED
    BY <1>6, <1>8, <2>2 DEF Increasing
<1>12. ASSUME NEW n, Below(n, events) PROVE Below(n, log')
  <2>1. \A i \in 1..Len(log') : i + Dropped(events) \in 1..Len(events)
    BY <1>6
  <2> QED
    BY <1>6, <1>12, <2>1 DEF Below
<1>13. Ordered'
  BY <1>1, <1>10, <1>11, <1>12 DEF Ordered
<1>14. HeartbeatTypeOK'
  BY <1>1, <1>2, <1>4, <1>5, AgentAssumption DEF HeartbeatTypeOK
<1> QED
  BY <1>13, <1>14

(* A heartbeat takes the events on, tells them or loses them. *)
LEMMA BeatKeepsOrder ==
    ASSUME HeartbeatTypeOK, Ordered, Beat
    PROVE  HeartbeatTypeOK' /\ Ordered'
<1> USE AgentAssumption
<1>1. CASE Collect
  <2>1. /\ beat'.at = "collected"
        /\ beat'.batch = beat.batch
        /\ beat' \in [at : {"collecting", "collected", "posting"}, batch : Seq(1..recorded)]
    BY <1>1 DEF Collect, HeartbeatTypeOK
  <2> QED
    BY <1>1, <2>1 DEF Collect, HeartbeatTypeOK, Ordered, Increasing, Below
<1>2. CASE Drain
  <2>1. beat' = [at |-> "posting", batch |-> log] /\ log' = <<>>
    BY <1>2 DEF Drain, Drained
  <2>2. UNCHANGED <<engine, recorded, told>>
    BY <1>2 DEF Drain
  <2>3. HeartbeatTypeOK'
    BY <2>1, <2>2 DEF HeartbeatTypeOK
  <2>4. Ordered'
    BY <2>1, <2>2 DEF HeartbeatTypeOK, Ordered, Increasing, Below
  <2> QED
    BY <2>3, <2>4
<1>3. CASE PostArrives
  <2>1. /\ beat' = [at |-> "collecting", batch |-> <<>>]
        /\ UNCHANGED <<engine, log, recorded>>
        /\ told' = IF beat.batch = <<>> THEN told ELSE beat.batch[Len(beat.batch)]
    BY <1>3 DEF PostArrives, AfterBeat
  <2>2. beat.batch \in Seq(1..recorded)
    BY DEF HeartbeatTypeOK
  <2>3. beat.batch # <<>> => Len(beat.batch) \in 1..Len(beat.batch)
    BY <2>2
  <2>4. told' \in 0..recorded /\ Below(told', log)
    BY <2>1, <2>2, <2>3 DEF HeartbeatTypeOK, Ordered
  <2> QED
    BY <2>1, <2>4 DEF HeartbeatTypeOK, Ordered, Increasing, Below
<1>4. CASE PostFails
  <2>1. /\ beat' = [at |-> "collecting", batch |-> <<>>]
        /\ UNCHANGED <<engine, log, recorded, told>>
    BY <1>4 DEF PostFails, AfterBeat
  <2> QED
    BY <2>1 DEF HeartbeatTypeOK, Ordered, Increasing, Below
<1> QED
  BY <1>1, <1>2, <1>3, <1>4 DEF Beat
-----------------------------------------------------------------------------
(* The command loop and the eject. *)

(* Of what the GPU holds, each model is still to be unloaded, or failed, or *)
(* arrived meanwhile.                                                      *)
Accounted ==
    cmd.at = "ejecting"
      => ejection.loaded \subseteq ejection.todo \cup ejection.failed \cup ejection.arrived

LEMMA InitCommands == Init => CommandTypeOK /\ EjectionTypeOK /\ Accounted
BY AgentAssumption DEF Init, CommandTypeOK, EjectionTypeOK, Accounted, Idle, NoEjection

(* When a command is done, the loop has the rest of its batch. *)
LEMMA DoneType ==
    ASSUME CommandTypeOK, cmd.at # "idle"
    PROVE  /\ Done \in [at : {"idle", "choosing", "naming", "ejecting"}, batch : Seq(Command),
                        url : Backend \cup {"none"}]
           /\ (Done.at = "idle") <=> (Done.batch = <<>>)
           /\ Done.at \in {"idle", "choosing"}
<1>1. cmd.batch \in Seq(Command) /\ cmd.batch # <<>>
  BY DEF CommandTypeOK
<1>2. Tail(cmd.batch) \in Seq(Command)
  BY <1>1, HeadTailProperties
<1> QED
  BY <1>2 DEF Done, After, Idle

(* The model of a command that has one. *)
LEMMA HeadModel ==
    ASSUME CommandTypeOK, Executes("pull") \/ Executes("cancel_pull")
    PROVE  Head(cmd.batch).model \in Wanted
<1>1. cmd.batch \in Seq(Command) /\ cmd.batch # <<>>
  BY DEF CommandTypeOK, Executes
<1>2. Head(cmd.batch) \in Command
  BY <1>1, HeadTailProperties
<1> QED
  BY <1>2 DEF Executes, Command

(* The steps that only move the command loop to its next command. *)
LEMMA SkipKeepsCommands ==
    ASSUME CommandTypeOK, EjectionTypeOK, Accounted,
           cmd.at # "idle", cmd' = Done, UNCHANGED <<issued, ejection>>
    PROVE  CommandTypeOK' /\ EjectionTypeOK' /\ Accounted'
BY DoneType DEF CommandTypeOK, EjectionTypeOK, Accounted

CommandStep ==
    \/ \E n \in 1..MaxBatch : \E batch \in [1..n -> Command] : Fetch(batch)
    \/ NoBackend \/ ChooseUrl \/ NameMissing \/ Reject \/ StartPull \/ CancelPull \/ Delete
    \/ \E listed \in SUBSET Model : EjectLists(listed)
    \/ EjectsNothing
    \/ \E m \in Model : Unload(m) \/ UnloadFails(m)
    \/ EjectReports
    \/ \E m \in Model : Load(m)

LEMMA CommandStepKept ==
    ASSUME HeartbeatTypeOK, CommandTypeOK, EjectionTypeOK, Accounted, CommandStep
    PROVE  CommandTypeOK' /\ EjectionTypeOK' /\ Accounted'
<1> USE AgentAssumption
<1>1. ASSUME NEW n \in 1..MaxBatch, NEW batch \in [1..n -> Command], Fetch(batch)
      PROVE  CommandTypeOK' /\ EjectionTypeOK' /\ Accounted'
  <2>1. batch \in Seq(Command) /\ Len(batch) = n /\ batch # <<>>
    OBVIOUS
  <2>2. /\ cmd' = [cmd EXCEPT !.at = "choosing", !.batch = batch]
        /\ issued' = issued + Len(batch)
        /\ issued + Len(batch) <= MaxCommands
        /\ UNCHANGED ejection
    BY <1>1 DEF Fetch
  <2>3. issued' \in 0..MaxCommands
    BY <2>1, <2>2 DEF CommandTypeOK
  <2>4. /\ cmd' \in [at : {"idle", "choosing", "naming", "ejecting"}, batch : Seq(Command),
                     url : Backend \cup {"none"}]
        /\ cmd'.at = "choosing"
        /\ cmd'.batch = batch
    BY <2>1, <2>2 DEF CommandTypeOK
  <2> QED
    BY <2>1, <2>2, <2>3, <2>4 DEF CommandTypeOK, EjectionTypeOK, Accounted
<1>2. CASE NoBackend
  BY <1>2, SkipKeepsCommands DEF NoBackend
<1>3. CASE ChooseUrl
  <2>1. /\ cmd' = [cmd EXCEPT !.at = "naming", !.url = engine]
        /\ cmd.at = "choosing"
        /\ engine \in Backend
        /\ UNCHANGED <<issued, ejection>>
    BY <1>3 DEF ChooseUrl, HeartbeatTypeOK
  <2> QED
    BY <2>1 DEF CommandTypeOK, EjectionTypeOK, Accounted
<1>4. CASE NameMissing
  BY <1>4 DEF NameMissing, CommandTypeOK, EjectionTypeOK, Accounted, Idle
<1>5. CASE Reject
  BY <1>5, SkipKeepsCommands DEF Reject, Executes
<1>6. CASE StartPull
  BY <1>6, SkipKeepsCommands DEF StartPull, Executes
<1>7. CASE CancelPull
  BY <1>7, SkipKeepsCommands DEF CancelPull, Executes
<1>8. CASE Delete
  BY <1>8, SkipKeepsCommands DEF Delete, Executes
<1>9. ASSUME NEW listed \in SUBSET Model, EjectLists(listed)
      PROVE  CommandTypeOK' /\ EjectionTypeOK' /\ Accounted'
  <2>1. /\ cmd.at = "naming"
        /\ cmd' = [cmd EXCEPT !.at = "ejecting"]
        /\ ejection' = [todo |-> listed, failed |-> {}, arrived |-> {}, loaded |-> listed]
        /\ UNCHANGED issued
    BY <1>9 DEF EjectLists, Executes, NoEjection
  <2> QED
    BY <2>1 DEF CommandTypeOK, EjectionTypeOK, Accounted
<1>10. CASE EjectsNothing
  BY <1>10, SkipKeepsCommands DEF EjectsNothing, Executes
<1>11. ASSUME NEW m \in Model, Unload(m) \/ UnloadFails(m) \/ Load(m)
       PROVE  CommandTypeOK' /\ EjectionTypeOK' /\ Accounted'
  <2>1. CommandTypeOK' /\ cmd' = cmd
    BY <1>11 DEF Unload, UnloadFails, Load, commands, CommandTypeOK
  <2>2. CASE Unload(m)
    BY <2>1, <2>2 DEF Unload, EjectionTypeOK, Accounted
  <2>3. CASE UnloadFails(m)
    <3>1. PICK left \in {ejection.loaded, ejection.loaded \ {m}} :
             ejection' = [ejection EXCEPT !.todo = @ \ {m}, !.failed = Failed(m), !.loaded = left]
      BY <2>3 DEF UnloadFails
    <3> QED
      BY <2>1, <2>3, <3>1 DEF UnloadFails, Failed, EjectionTypeOK, Accounted
  <2>4. CASE Load(m)
    BY <2>1, <2>4 DEF Load, EjectionTypeOK, Accounted
  <2> QED
    BY <1>11, <2>2, <2>3, <2>4
<1>12. CASE EjectReports
  <2>1. /\ cmd.at = "ejecting"
        /\ cmd' = Done
        /\ ejection' = NoEjection
        /\ UNCHANGED issued
    BY <1>12 DEF EjectReports
  <2> QED
    BY <2>1, DoneType DEF CommandTypeOK, EjectionTypeOK, Accounted, NoEjection
<1> QED
  BY <1>1, <1>2, <1>3, <1>4, <1>5, <1>6, <1>7, <1>8, <1>9, <1>10, <1>11, <1>12 DEF CommandStep
-----------------------------------------------------------------------------
(* The pull threads. *)

(* What makes each cancelled pull spend a flag of its own: outside crowded  *)
(* models there is one pull to see the flag, and nobody else takes it down. *)
Spent ==
    \A m \in Wanted \ crowded :
        /\ \A t, u \in Pull : ActiveOn(t, m) /\ ActiveOn(u, m) => t = u
        /\ \A t \in Pull : pulls[t].model = m /\ pulls[t].at = "cancelling" => m \in cancels
        /\ Cardinality(CancelledOf(m)) + Flag(m) <= asked[m]

LEMMA InitPulls == Init => PullTypeOK /\ Spent
<1> SUFFICES ASSUME Init PROVE PullTypeOK /\ Spent
  OBVIOUS
<1>1. PullTypeOK /\ Pull = {}
  BY DEF Init, PullTypeOK, Pull
<1>2. ASSUME NEW m \in Wanted PROVE Cardinality(CancelledOf(m)) + Flag(m) <= asked[m]
  <2>1. CancelledOf(m) = {}
    BY <1>1 DEF CancelledOf
  <2> QED
    BY <2>1, FS_EmptySet DEF Init, Flag
<1> QED
  BY <1>1, <1>2 DEF Spent

LEMMA CancelledFinite ==
    ASSUME PullTypeOK, NEW m
    PROVE  IsFiniteSet(CancelledOf(m)) /\ Cardinality(CancelledOf(m)) \in Nat
<1>1. Pull = 1..Len(pulls) /\ Len(pulls) \in Nat
  BY DEF Pull, PullTypeOK
<1>2. IsFiniteSet(Pull)
  BY <1>1, FS_Interval
<1>3. CancelledOf(m) \subseteq Pull
  BY DEF CancelledOf
<1>4. IsFiniteSet(CancelledOf(m))
  BY <1>2, <1>3, FS_Subset
<1> QED
  BY <1>4, FS_CardinalityType

(* A new pull is not cancelled yet, and crowds the model it is not alone on. *)
LEMMA StartPullKept ==
    ASSUME CommandTypeOK, PullTypeOK, Spent, StartPull
    PROVE  PullTypeOK' /\ Spent'
<1> DEFINE new == [model |-> Head(cmd.batch).model, url |-> cmd.url, at |-> "reading"]
           last == Len(pulls) + 1
<1>1. new.model \in Wanted
  BY HeadModel DEF StartPull
<1>2. /\ pulls' = Append(pulls, new)
      /\ crowded' = IF \E t \in Pull : ActiveOn(t, new.model)
                    THEN crowded \cup {new.model} ELSE crowded
      /\ UNCHANGED <<cancels, asked>>
      /\ cmd.url \in Backend
  BY DEF StartPull, Executes, CommandTypeOK
<1>3. PullTypeOK'
  BY <1>1, <1>2 DEF PullTypeOK
<1>4. /\ Pull = 1..Len(pulls) /\ Len(pulls) \in Nat
      /\ Pull' = Pull \cup {last} /\ last \notin Pull
      /\ \A t \in Pull : pulls'[t] = pulls[t]
      /\ pulls'[last] = new
  BY <1>2 DEF Pull, PullTypeOK
<1> HIDE DEF last
<1>5. ASSUME NEW m \in Wanted \ crowded'
      PROVE  /\ \A t, u \in Pull' : ActiveOn(t, m)' /\ ActiveOn(u, m)' => t = u
             /\ \A t \in Pull' : pulls'[t].model = m /\ pulls'[t].at = "cancelling" => m \in cancels'
             /\ Cardinality(CancelledOf(m)') + Flag(m)' <= asked'[m]
  <2>1. m \in Wanted \ crowded
    BY <1>2
  <2>2. m = new.model => ~ \E t \in Pull : ActiveOn(t, m)
    BY <1>2
  <2>3. \A t \in Pull : ActiveOn(t, m)' <=> ActiveOn(t, m)
    BY <1>4 DEF ActiveOn
  <2>4. \A t, u \in Pull' : ActiveOn(t, m)' /\ ActiveOn(u, m)' => t = u
    BY <1>4, <2>1, <2>2, <2>3 DEF Spent, ActiveOn
  <2>5. CancelledOf(m)' = CancelledOf(m)
    BY <1>4 DEF CancelledOf
  <2>6. ASSUME NEW t \in Pull', pulls'[t].model = m, pulls'[t].at = "cancelling"
        PROVE  m \in cancels'
    <3>1. t # last
      BY <1>4, <2>6
    <3>2. t \in Pull /\ pulls'[t] = pulls[t]
      BY <1>4, <3>1
    <3> QED
      BY <1>2, <2>1, <2>6, <3>2 DEF Spent
  <2> QED
    BY <1>2, <2>1, <2>4, <2>5, <2>6 DEF Spent, Flag
<1> QED
  BY <1>3, <1>5 DEF Spent

(* A command to cancel puts one flag up at most. *)
LEMMA CancelPullKept ==
    ASSUME CommandTypeOK, PullTypeOK, Spent, CancelPull
    PROVE  PullTypeOK' /\ Spent'
<1> DEFINE c == Head(cmd.batch).model
<1>1. c \in Wanted
  BY HeadModel DEF CancelPull
<1>2. /\ cancels' = cancels \cup {c}
      /\ asked' = [asked EXCEPT ![c] = @ + 1]
      /\ UNCHANGED <<crowded, pulls>>
  BY DEF CancelPull
<1>3. PullTypeOK'
  BY <1>1, <1>2 DEF PullTypeOK
<1> HIDE DEF c
<1>4. ASSUME NEW m \in Wanted \ crowded
      PROVE  Cardinality(CancelledOf(m)) + Flag(m)' <= asked'[m]
  <2>1. Cardinality(CancelledOf(m)) + Flag(m) <= asked[m]
    BY DEF Spent
  <2>2. Cardinality(CancelledOf(m)) \in Nat /\ asked[m] \in Nat
    BY CancelledFinite DEF PullTypeOK
  <2>3. CASE m = c
    <3>1. asked'[m] = asked[m] + 1 /\ Flag(m)' = 1 /\ Flag(m) \in {0, 1}
      BY <1>1, <1>2, <2>3 DEF PullTypeOK, Flag
    <3> QED
      BY <2>1, <2>2, <3>1
  <2>4. CASE m # c
    <3>1. asked'[m] = asked[m] /\ Flag(m)' = Flag(m)
      BY <1>1, <1>2, <2>4 DEF PullTypeOK, Flag
    <3> QED
      BY <2>1, <3>1
  <2> QED
    BY <2>3, <2>4
<1>5. /\ \A m : CancelledOf(m)' = CancelledOf(m)
      /\ \A t, m : ActiveOn(t, m)' <=> ActiveOn(t, m)
      /\ Pull' = Pull
  BY <1>2 DEF CancelledOf, ActiveOn, Pull
<1> QED
  BY <1>2, <1>3, <1>4, <1>5 DEF Spent

(* A step of one pull leaves the others as they are. *)
LEMMA PullMoves ==
    ASSUME PullTypeOK, NEW t \in Pull,
           NEW to \in {"cancelling", "cancelled", "ended"},
           pulls' = [pulls EXCEPT ![t].at = to],
           cancels' \subseteq Wanted, UNCHANGED <<asked, crowded>>
    PROVE  /\ PullTypeOK'
           /\ Pull' = Pull
           /\ \A u \in Pull : u # t => pulls'[u] = pulls[u]
           /\ pulls'[t].model = pulls[t].model
           /\ pulls'[t].at = to
<1> DEFINE S == [model : Wanted, url : Backend,
                 at : {"reading", "cancelling", "cancelled", "ended"}]
<1>1. pulls \in Seq(S) /\ t \in 1..Len(pulls)
  BY DEF PullTypeOK, Pull
<1>2. /\ Pull' = Pull
      /\ \A u \in Pull : u # t => pulls'[u] = pulls[u]
      /\ pulls'[t] = [pulls[t] EXCEPT !.at = to]
      /\ pulls[t] \in S
  <2>1. /\ Len(pulls') = Len(pulls) /\ Len(pulls) \in Nat
        /\ DOMAIN pulls' = 1..Len(pulls) /\ DOMAIN pulls = 1..Len(pulls)
    BY <1>1
  <2>2. \A u \in Pull : u # t => pulls'[u] = pulls[u]
    BY <2>1 DEF Pull
  <2>3. pulls'[t] = [pulls[t] EXCEPT !.at = to]
    BY <2>1, <1>1
  <2>4. pulls[t] \in S
    <3> HIDE DEF S
    <3> QED
      BY <1>1
  <2> QED
    BY <2>1, <2>2, <2>3, <2>4 DEF Pull
<1>3. pulls'[t] \in S
  BY <1>2
<1>4. pulls' = [pulls EXCEPT ![t] = pulls'[t]]
  BY <1>1, <1>2
<1> HIDE DEF S
<1>5. pulls' \in Seq(S)
  BY <1>1, <1>3, <1>4
<1>6. PullTypeOK'
  BY <1>5 DEF PullTypeOK, S
<1>7. pulls'[t].model = pulls[t].model /\ pulls'[t].at = to
  BY <1>2 DEF S
<1> QED
  BY <1>2, <1>6, <1>7

(* A pull that leaves its stream alone changes no account. *)
LEMMA StreamKept ==
    ASSUME PullTypeOK, Spent, NEW t \in Pull, SeeCancel(t) \/ StreamEnds(t)
    PROVE  PullTypeOK' /\ Spent'
<1>1. PICK to \in {"cancelling", "ended"} :
         /\ pulls[t].at = "reading"
         /\ pulls' = [pulls EXCEPT ![t].at = to]
         /\ to = "cancelling" => pulls[t].model \in cancels
         /\ UNCHANGED <<cancels, asked, crowded>>
  BY DEF SeeCancel, StreamEnds, PassesThrottle
<1>2. /\ PullTypeOK'
      /\ Pull' = Pull
      /\ \A u \in Pull : u # t => pulls'[u] = pulls[u]
      /\ pulls'[t].model = pulls[t].model
      /\ pulls'[t].at = to
  <2>1. cancels' \subseteq Wanted
    BY <1>1 DEF PullTypeOK
  <2> QED
    BY <1>1, <2>1, PullMoves
<1>3. \A m : CancelledOf(m)' = CancelledOf(m)
  BY <1>1, <1>2 DEF CancelledOf
<1>4. \A u \in Pull, m \in Wanted : ActiveOn(u, m)' => ActiveOn(u, m)
  BY <1>1, <1>2 DEF ActiveOn
<1>5. ASSUME NEW m \in Wanted \ crowded
      PROVE  /\ \A u, v \in Pull' : ActiveOn(u, m)' /\ ActiveOn(v, m)' => u = v
             /\ \A u \in Pull' : pulls'[u].model = m /\ pulls'[u].at = "cancelling" => m \in cancels'
             /\ Cardinality(CancelledOf(m)') + Flag(m)' <= asked'[m]
  <2>1. \A u, v \in Pull' : ActiveOn(u, m)' /\ ActiveOn(v, m)' => u = v
    BY <1>2, <1>4 DEF Spent
  <2>2. \A u \in Pull' : pulls'[u].model = m /\ pulls'[u].at = "cancelling" => m \in cancels'
    BY <1>1, <1>2 DEF Spent
  <2> QED
    BY <1>1, <1>3, <2>1, <2>2 DEF Spent, Flag
<1> QED
  BY <1>1, <1>2, <1>5 DEF Spent

(* The cancelled pull takes the flag down that it has seen: nobody else    *)
(* could have taken it in between.                                         *)
LEMMA CancelKept ==
    ASSUME PullTypeOK, Spent, NEW t \in Pull, Cancel(t)
    PROVE  PullTypeOK' /\ Spent'
<1> DEFINE c == pulls[t].model
<1>1. /\ pulls[t].at = "cancelling"
      /\ pulls' = [pulls EXCEPT ![t].at = "cancelled"]
      /\ cancels' = cancels \ {c}
      /\ UNCHANGED <<asked, crowded>>
  BY DEF Cancel, Cleared
<1>2. /\ PullTypeOK'
      /\ Pull' = Pull
      /\ \A u \in Pull : u # t => pulls'[u] = pulls[u]
      /\ pulls'[t].model = c
      /\ pulls'[t].at = "cancelled"
  <2>1. cancels' \subseteq Wanted
    BY <1>1 DEF PullTypeOK
  <2> QED
    BY <1>1, <2>1, PullMoves
<1> HIDE DEF c
<1>3. pulls[t].model = c
  BY DEF c
<1>4. \A u \in Pull, m \in Wanted : ActiveOn(u, m)' => ActiveOn(u, m) /\ u # t
  BY <1>1, <1>2 DEF ActiveOn
<1>5. ASSUME NEW m \in Wanted \ crowded
      PROVE  /\ \A u, v \in Pull' : ActiveOn(u, m)' /\ ActiveOn(v, m)' => u = v
             /\ \A u \in Pull' : pulls'[u].model = m /\ pulls'[u].at = "cancelling" => m \in cancels'
             /\ Cardinality(CancelledOf(m)') + Flag(m)' <= asked'[m]
  <2>1. \A u, v \in Pull' : ActiveOn(u, m)' /\ ActiveOn(v, m)' => u = v
    BY <1>2, <1>4 DEF Spent
  <2>2. /\ Cardinality(CancelledOf(m)) + Flag(m) <= asked[m]
        /\ Cardinality(CancelledOf(m)) \in Nat
        /\ IsFiniteSet(CancelledOf(m))
        /\ asked[m] \in Nat
    BY CancelledFinite DEF Spent, PullTypeOK
  <2>3. CASE m = c
    <3>1. m \in cancels
      BY <1>1, <1>3, <2>3 DEF Spent
    <3>2. CancelledOf(m)' = CancelledOf(m) \cup {t} /\ t \notin CancelledOf(m)
      BY <1>1, <1>2, <1>3, <2>3 DEF CancelledOf
    <3>3. Cardinality(CancelledOf(m)') = Cardinality(CancelledOf(m)) + 1
      BY <2>2, <3>2, FS_AddElement
    <3>4. Flag(m) = 1 /\ Flag(m)' = 0
      BY <1>1, <2>3, <3>1 DEF Flag
    <3>5. ActiveOn(t, m)
      BY <1>1, <1>3, <2>3 DEF ActiveOn
    <3>6. \A u \in Pull' : ~ (pulls'[u].model = m /\ pulls'[u].at = "cancelling")
      <4>1. SUFFICES ASSUME NEW u \in Pull, pulls'[u].model = m, pulls'[u].at = "cancelling"
                     PROVE  FALSE
        BY <1>2
      <4>2. u # t /\ ActiveOn(u, m)
        BY <1>2, <4>1 DEF ActiveOn
      <4> QED
        BY <3>5, <4>2 DEF Spent
    <3> QED
      BY <1>1, <2>1, <2>2, <3>3, <3>4, <3>6
  <2>4. CASE m # c
    <3>1. CancelledOf(m)' = CancelledOf(m)
      BY <1>2, <1>3, <2>4 DEF CancelledOf
    <3>2. Flag(m)' = Flag(m)
      BY <1>1, <2>4 DEF Flag
    <3>3. \A u \in Pull' : pulls'[u].model = m /\ pulls'[u].at = "cancelling" => m \in cancels'
      BY <1>1, <1>2, <1>3, <2>4 DEF Spent
    <3> QED
      BY <1>1, <2>1, <2>2, <3>1, <3>2, <3>3
  <2> QED
    BY <2>3, <2>4
<1> QED
  BY <1>1, <1>2, <1>5 DEF Spent
-----------------------------------------------------------------------------
(* The agent. *)

(* What every step keeps: the types, and for each of the three parts what  *)
(* makes its property inductive.                                           *)
IInv == TypeOK /\ Ordered /\ Accounted /\ Spent

LEMMA HeartbeatStill ==
    ASSUME HeartbeatTypeOK, Ordered, UNCHANGED <<engine, heartbeat>>
    PROVE  HeartbeatTypeOK' /\ Ordered'
BY DEF heartbeat, HeartbeatTypeOK, Ordered, Increasing, Below

LEMMA CommandsStill ==
    ASSUME CommandTypeOK, EjectionTypeOK, Accounted, UNCHANGED <<commands, ejection>>
    PROVE  CommandTypeOK' /\ EjectionTypeOK' /\ Accounted'
BY DEF commands, CommandTypeOK, EjectionTypeOK, Accounted

LEMMA PullsStill ==
    ASSUME PullTypeOK, Spent, UNCHANGED threads
    PROVE  PullTypeOK' /\ Spent'
<1>1. UNCHANGED <<cancels, asked, crowded, pulls>>
  BY DEF threads
<1>2. PullTypeOK'
  BY <1>1 DEF PullTypeOK
<1>3. Spent'
  BY <1>1 DEF Spent, ActiveOn, CancelledOf, Flag, Pull
<1> QED
  BY <1>2, <1>3

PullStep == \E t \in Pull : SeeCancel(t) \/ StreamEnds(t) \/ Cancel(t)

LEMMA NextIsOneOf == Next => Beat \/ Record \/ CommandStep \/ PullStep
BY DEF Next, CommandStep, PullStep

(* The command loop leaves the heartbeat alone, and of the pulls only      *)
(* starts or flags one.                                                    *)
LEMMA CommandStepApart ==
    CommandStep => /\ UNCHANGED <<engine, heartbeat>>
                   /\ UNCHANGED threads \/ StartPull \/ CancelPull
BY DEF CommandStep, Fetch, NoBackend, ChooseUrl, NameMissing, Reject, StartPull, CancelPull,
       Delete, EjectLists, EjectsNothing, Unload, UnloadFails, EjectReports, Load

LEMMA InitIInv == Init => IInv
BY InitHeartbeat, InitCommands, InitPulls DEF IInv, TypeOK

LEMMA StepIInv == IInv /\ [Next]_vars => IInv'
<1> SUFFICES ASSUME IInv, [Next]_vars PROVE IInv'
  OBVIOUS
<1>1. /\ HeartbeatTypeOK /\ Ordered
      /\ CommandTypeOK /\ EjectionTypeOK /\ Accounted
      /\ PullTypeOK /\ Spent
  BY DEF IInv, TypeOK
<1>2. CASE Beat \/ Record
  <2>1. UNCHANGED <<commands, threads, ejection>>
    BY <1>2 DEF Beat, Collect, Drain, PostArrives, PostFails, Record
  <2>2. HeartbeatTypeOK' /\ Ordered'
    BY <1>1, <1>2, BeatKeepsOrder, RecordKeepsOrder
  <2> QED
    BY <1>1, <2>1, <2>2, CommandsStill, PullsStill DEF IInv, TypeOK
<1>3. CASE CommandStep
  <2>1. HeartbeatTypeOK' /\ Ordered'
    BY <1>1, <1>3, CommandStepApart, HeartbeatStill
  <2>2. CommandTypeOK' /\ EjectionTypeOK' /\ Accounted'
    BY <1>1, <1>3, CommandStepKept
  <2>3. PullTypeOK' /\ Spent'
    BY <1>1, <1>3, CommandStepApart, PullsStill, StartPullKept, CancelPullKept
  <2> QED
    BY <2>1, <2>2, <2>3 DEF IInv, TypeOK
<1>4. CASE PullStep
  <2>1. PICK t \in Pull : SeeCancel(t) \/ StreamEnds(t) \/ Cancel(t)
    BY <1>4 DEF PullStep
  <2>2. UNCHANGED <<engine, heartbeat, commands, ejection>>
    BY <2>1 DEF SeeCancel, StreamEnds, Cancel
  <2>3. PullTypeOK' /\ Spent'
    BY <1>1, <2>1, StreamKept, CancelKept
  <2> QED
    BY <1>1, <2>2, <2>3, HeartbeatStill, CommandsStill DEF IInv, TypeOK
<1>5. CASE UNCHANGED vars
  <2>1. UNCHANGED <<engine, heartbeat, commands, threads, ejection>>
    BY <1>5 DEF vars
  <2> QED
    BY <1>1, <2>1, HeartbeatStill, CommandsStill, PullsStill DEF IInv, TypeOK
<1> QED
  BY <1>2, <1>3, <1>4, <1>5, NextIsOneOf

(* The invariant, for every number of models, events and commands.         *)
THEOREM Inductive == Spec => []IInv
BY InitIInv, StepIInv, PTL DEF Spec

(* TypeOK: every variable of the agent stays in its type, and the log      *)
(* within its capacity (RoutingEventLog, _poll_loop, _command_loop).       *)
THEOREM TypeCorrect == Spec => []TypeOK
<1>1. IInv => TypeOK
  BY DEF IInv
<1> QED
  BY <1>1, Inductive, PTL

(* The three parts in their order make the way in its order. *)
LEMMA OrderedWay == HeartbeatTypeOK /\ Ordered => EventsOnce
<1> SUFFICES ASSUME HeartbeatTypeOK, Ordered PROVE EventsOnce
  OBVIOUS
<1> DEFINE b == Len(beat.batch)
           way == <<told>> \o beat.batch \o log
<1>1. /\ beat.batch \in Seq(Int) /\ log \in Seq(Int)
      /\ told \in Int
  BY AgentAssumption DEF HeartbeatTypeOK
<1>2. /\ b \in Nat /\ Len(log) \in Nat
      /\ DOMAIN way = 1..(1 + b + Len(log))
      /\ way[1] = told
      /\ \A i \in 1..b : way[1 + i] = beat.batch[i]
      /\ \A i \in 1..Len(log) : way[1 + b + i] = log[i]
  <2>1. b \in Nat /\ Len(log) \in Nat
    BY <1>1
  <2>2. PICK s \in Seq(Int) : s = beat.batch
    BY <1>1
  <2>3. PICK t \in Seq(Int) : t = log
    BY <1>1
  <2> DEFINE w == <<told>> \o s \o t
  <2>4. way = w /\ b = Len(s)
    BY <2>2, <2>3, Zenon
  <2>5. DOMAIN w = 1..(1 + Len(s) + Len(t))
    BY <1>1
  <2>6. w[1] = told
    BY <1>1
  <2>7. \A i \in 1..Len(s) : w[1 + i] = s[i]
    BY <1>1
  <2>8. \A i \in 1..Len(t) : w[1 + Len(s) + i] = t[i]
    BY <1>1
  <2> HIDE DEF b, way, w
  <2> QED
    BY <2>2, <2>1, <2>3, <2>4, <2>5, <2>6, <2>7, <2>8
<1> HIDE DEF b, way
<1>3. ASSUME NEW i \in DOMAIN way, NEW j \in DOMAIN way, i < j
      PROVE  way[i] < way[j]
  <2>1. CASE j \in 2..(1 + b)
    <3>1. j - 1 \in 1..b /\ way[j] = beat.batch[j - 1]
      BY <1>2, <2>1
    <3>2. CASE i = 1
      BY <1>2, <3>1, <3>2 DEF Ordered, Below, b
    <3>3. CASE i # 1
      <4>1. i - 1 \in 1..b /\ way[i] = beat.batch[i - 1] /\ i - 1 < j - 1
        BY <1>2, <1>3, <2>1, <3>3
      <4> QED
        BY <3>1, <4>1 DEF Ordered, Increasing, b
    <3> QED
      BY <3>2, <3>3
  <2>2. CASE j \notin 2..(1 + b)
    <3>1. j - 1 - b \in 1..Len(log) /\ way[j] = log[j - 1 - b]
      BY <1>2, <1>3, <2>2
    <3>2. CASE i = 1
      BY <1>2, <3>1, <3>2 DEF Ordered, Below
    <3>3. CASE i \in 2..(1 + b)
      <4>1. i - 1 \in 1..b /\ way[i] = beat.batch[i - 1]
        BY <1>2, <3>3
      <4> QED
        BY <3>1, <4>1 DEF Ordered, Below, b
    <3>4. CASE i \notin 1..(1 + b)
      <4>1. i - 1 - b \in 1..Len(log) /\ way[i] = log[i - 1 - b] /\ i - 1 - b < j - 1 - b
        BY <1>2, <1>3, <3>4
      <4> QED
        BY <3>1, <4>1 DEF Ordered, Increasing
    <3> QED
      BY <1>2, <3>2, <3>3, <3>4
  <2> QED
    BY <2>1, <2>2
<1> QED
  BY <1>3 DEF EventsOnce, way

(* EventsOnce: whatever the posts and the proxy's thread do, no routing    *)
(* event is reported twice or after a later one (_push_telemetry).         *)
THEOREM EventsToldOnce == Spec => []EventsOnce
<1>1. IInv => EventsOnce
  BY OrderedWay DEF IInv, TypeOK
<1> QED
  BY <1>1, Inductive, PTL

(* CancelsSpent: a command to cancel stops one pull at most, as long as    *)
(* each model is pulled by one thread at a time (_handle_pull_with_progress). *)
THEOREM CancelSpentOnce == Spec => []CancelsSpent
<1>1. IInv => CancelsSpent
  BY DEF IInv, Spent, CancelsSpent
<1> QED
  BY <1>1, Inductive, PTL

(* EjectAccounted: what is left on the GPU when eject_all() returns has    *)
(* failed or has arrived since.                                            *)
THEOREM EjectExplained == Spec => EjectAccounted
<1>1. IInv /\ [Next]_vars
        => [cmd.at = "ejecting" /\ cmd'.at # "ejecting"
              => ejection.loaded \subseteq ejection.arrived
                                           \cup (IF EjectedAll THEN {} ELSE ejection.failed)]_vars
  <2> SUFFICES ASSUME IInv, Next, cmd.at = "ejecting", cmd'.at # "ejecting"
               PROVE  ejection.loaded \subseteq ejection.arrived
                                           \cup (IF EjectedAll THEN {} ELSE ejection.failed)
    OBVIOUS
  <2>1. ejection.todo = {}
    <3>1. CASE Beat \/ Record \/ PullStep
      <4>1. UNCHANGED commands
        BY <3>1 DEF Beat, Collect, Drain, PostArrives, PostFails, Record,
                    PullStep, SeeCancel, StreamEnds, Cancel
      <4> QED
        BY <4>1 DEF commands
    <3>2. CASE CommandStep
      BY <3>2 DEF CommandStep, Fetch, NoBackend, ChooseUrl, NameMissing, Reject, Executes,
                  StartPull, CancelPull, Delete, EjectLists, EjectsNothing, Unload,
                  UnloadFails, EjectReports, Load, commands
    <3> QED
      BY <3>1, <3>2, NextIsOneOf
  <2> QED
    BY <2>1 DEF IInv, Accounted, EjectedAll
<1> QED
  BY <1>1, Inductive, PTL DEF Spec, EjectAccounted

-----------------------------------------------------------------------------
(* What becomes of the events: which ones the dashboard can miss. *)

(* The log has the latest events, without a gap.                           *)
LogIsLatest == \A i \in 1..Len(log) : log[i] = recorded - Len(log) + i

(* While the log has room, it goes on where the batch being posted ends.   *)
LogFollows ==
    beat.batch # <<>> /\ Len(log) < MAXLEN => beat.batch[Len(beat.batch)] = recorded - Len(log)

(* A post that arrives with news, and before the log has filled again,     *)
(* makes an end of what was missing until then.                            *)
PostCatchesUp ==
    [][PostArrives /\ beat.batch # <<>> /\ Len(log) < MAXLEN => NothingMissing']_vars

(* The log of before Record, as it is after. *)
LEMMA RecordedLog ==
    ASSUME HeartbeatTypeOK, Record
    PROVE  /\ recorded' = recorded + 1
           /\ Len(log) < MAXLEN => log' = Append(log, recorded + 1)
           /\ Len(log) = MAXLEN => /\ Len(log') = MAXLEN
                                   /\ \A i \in 1..(MAXLEN - 1) : log'[i] = log[i + 1]
                                   /\ log'[MAXLEN] = recorded + 1
<1> USE AgentAssumption
<1>1. PICK events : events = Append(log, recorded + 1)
  OBVIOUS
<1>2. recorded' = recorded + 1 /\ log' = Kept(events)
  BY <1>1 DEF Record
<1>3. /\ log \in Seq(1..recorded) /\ recorded \in Nat /\ Len(log) \in Nat
      /\ Len(log) <= MAXLEN
  BY DEF HeartbeatTypeOK
<1>4. /\ events \in Seq(Nat) /\ Len(events) = Len(log) + 1
      /\ \A i \in 1..Len(log) : events[i] = log[i]
      /\ events[Len(log) + 1] = recorded + 1
  BY <1>1, <1>3
<1>5. CASE Len(log) < MAXLEN
  <2>1. Kept(events) = events
    BY <1>3, <1>4, <1>5 DEF Kept
  <2> QED
    BY <1>1, <1>2, <1>5, <2>1
<1>6. CASE Len(log) = MAXLEN
  <2>1. Len(events) = MAXLEN + 1
    BY <1>4, <1>6
  <2>2. Kept(events) = SubSeq(events, 2, MAXLEN + 1)
    BY <2>1 DEF Kept
  <2>3. \A i \in 2..(MAXLEN + 1) : events[i] \in Nat
    BY <1>4, <2>1
  <2>4. /\ Len(log') = MAXLEN
        /\ \A i \in 1..MAXLEN : log'[i] = events[i + 1]
    BY <1>2, <1>4, <2>1, <2>2
  <2>5. \A i \in 1..(MAXLEN - 1) : log'[i] = log[i + 1]
    BY <1>4, <1>6, <2>4
  <2>6. log'[MAXLEN] = recorded + 1
    BY <1>4, <1>6, <2>4
  <2> QED
    BY <1>2, <1>6, <2>4, <2>5, <2>6
<1> QED
  BY <1>3, <1>5, <1>6

LEMMA RecordKeepsLatest ==
    ASSUME HeartbeatTypeOK, LogIsLatest, LogFollows, Record
    PROVE  LogIsLatest' /\ LogFollows'
<1> USE AgentAssumption
<1>1. /\ log \in Seq(1..recorded) /\ recorded \in Nat /\ Len(log) \in Nat
      /\ Len(log) <= MAXLEN
  BY DEF HeartbeatTypeOK
<1>2. beat' = beat /\ recorded' = recorded + 1
  BY DEF Record
<1>3. CASE Len(log) < MAXLEN
  <2>1. log' = Append(log, recorded + 1)
    BY <1>3, RecordedLog
  <2>2. Len(log') = Len(log) + 1 /\ recorded' - Len(log') = recorded - Len(log)
    BY <1>1, <1>2, <2>1
  <2>3. ASSUME NEW i \in 1..Len(log') PROVE log'[i] = recorded' - Len(log') + i
    <3>1. CASE i \in 1..Len(log)
      BY <1>1, <2>1, <2>2, <3>1 DEF LogIsLatest
    <3>2. CASE i = Len(log) + 1
      <4>1. log'[i] = recorded + 1
        BY <1>1, <2>1, <3>2
      <4> QED
        BY <1>1, <2>2, <3>2, <4>1
    <3> QED
      BY <1>1, <2>2, <3>1, <3>2
  <2> QED
    BY <1>2, <1>3, <2>2, <2>3 DEF LogIsLatest, LogFollows
<1>4. CASE Len(log) = MAXLEN
  <2>1. /\ Len(log') = MAXLEN
        /\ \A i \in 1..(MAXLEN - 1) : log'[i] = log[i + 1]
        /\ log'[MAXLEN] = recorded + 1
    BY <1>4, RecordedLog
  <2>2. ASSUME NEW i \in 1..MAXLEN PROVE log'[i] = recorded' - MAXLEN + i
    <3>1. CASE i \in 1..(MAXLEN - 1)
      <4>1. i + 1 \in 1..Len(log)
        BY <1>4, <3>1
      <4>2. log[i + 1] = recorded - MAXLEN + (i + 1)
        BY <1>4, <4>1 DEF LogIsLatest
      <4> QED
        BY <1>1, <1>2, <2>1, <3>1, <4>2
    <3>2. CASE i = MAXLEN
      BY <1>1, <1>2, <2>1, <3>2
    <3> QED
      BY <3>1, <3>2
  <2> QED
    BY <2>1, <2>2 DEF LogIsLatest, LogFollows
<1> QED
  BY <1>1, <1>3, <1>4

LEMMA BeatKeepsLatest ==
    ASSUME HeartbeatTypeOK, Ordered, LogIsLatest, LogFollows, Beat
    PROVE  LogIsLatest' /\ LogFollows'
<1>1. /\ log \in Seq(1..recorded) /\ recorded \in Nat /\ recorded' = recorded
  BY AgentAssumption DEF HeartbeatTypeOK, Beat, Collect, Drain, PostArrives, PostFails
<1>2. CASE Collect \/ PostArrives \/ PostFails
  <2>1. log' = log /\ (beat'.batch = beat.batch \/ beat'.batch = <<>>)
    BY <1>2 DEF Collect, PostArrives, PostFails, HeartbeatTypeOK
  <2> QED
    BY <1>1, <2>1 DEF LogIsLatest, LogFollows
<1>3. CASE Drain
  <2>1. log' = <<>> /\ beat'.batch = log
    BY <1>3 DEF Drain, Drained
  <2>2. LogIsLatest' /\ Len(log') = 0
    BY <2>1 DEF LogIsLatest
  <2>3. log # <<>> => log[Len(log)] = recorded
    BY <1>1 DEF LogIsLatest
  <2> QED
    BY <1>1, <2>1, <2>2, <2>3 DEF LogFollows
<1> QED
  BY <1>2, <1>3 DEF Beat

LEMMA StepKeepsLatest ==
    ASSUME IInv, LogIsLatest, LogFollows, [Next]_vars
    PROVE  LogIsLatest' /\ LogFollows'
<1>1. HeartbeatTypeOK /\ Ordered
  BY DEF IInv, TypeOK
<1>2. CASE UNCHANGED heartbeat
  BY <1>2 DEF heartbeat, LogIsLatest, LogFollows
<1>3. CommandStep \/ PullStep \/ UNCHANGED vars => UNCHANGED heartbeat
  BY CommandStepApart DEF PullStep, SeeCancel, StreamEnds, Cancel, vars
<1> QED
  BY <1>1, <1>2, <1>3, RecordKeepsLatest, BeatKeepsLatest, NextIsOneOf

(* An event is lost only where the code loses it on purpose. *)
LEMMA RecordLosesOldest ==
    ASSUME HeartbeatTypeOK, NothingMissing, Record, Len(log) # MAXLEN
    PROVE  NothingMissing'
<1> USE AgentAssumption
<1>1. /\ log \in Seq(1..recorded) /\ recorded \in Nat /\ told \in 0..recorded
      /\ Len(log) <= MAXLEN /\ Len(log) \in Nat
  BY DEF HeartbeatTypeOK
<1>2. /\ beat' = beat /\ told' = told /\ recorded' = recorded + 1
      /\ log' = Append(log, recorded + 1)
  BY <1>1, RecordedLog DEF Record
<1>3. EventsIn(log') = EventsIn(log) \cup {recorded + 1}
  <2>1. /\ Len(log') = Len(log) + 1
        /\ \A i \in 1..Len(log) : log'[i] = log[i]
        /\ log'[Len(log) + 1] = recorded + 1
    BY <1>1, <1>2
  <2>2. 1..Len(log') = (1..Len(log)) \cup {Len(log) + 1}
    BY <1>1, <2>1
  <2> QED
    BY <2>1, <2>2 DEF EventsIn
<1>4. (told + 1)..(recorded + 1) = ((told + 1)..recorded) \cup {recorded + 1}
  BY <1>1
<1> QED
  BY <1>2, <1>3, <1>4 DEF NothingMissing

LEMMA BeatLosesPosts ==
    ASSUME HeartbeatTypeOK, Ordered, NothingMissing, Beat,
           ~ (PostFails /\ beat.batch # <<>>)
    PROVE  NothingMissing'
<1>1. /\ log \in Seq(1..recorded) /\ beat.batch \in Seq(1..recorded)
      /\ recorded \in Nat /\ told \in 0..recorded
  BY AgentAssumption DEF HeartbeatTypeOK
<1>2. EventsIn(<<>>) = {}
  BY DEF EventsIn
<1>3. CASE Collect
  <2>1. beat'.batch = beat.batch /\ UNCHANGED <<log, recorded, told>>
    BY <1>3 DEF Collect, HeartbeatTypeOK
  <2> QED
    BY <2>1 DEF NothingMissing
<1>4. CASE Drain
  <2>1. /\ beat.batch = <<>> /\ beat'.batch = log /\ log' = <<>>
        /\ UNCHANGED <<recorded, told>>
    BY <1>4 DEF Drain, Drained, Ordered
  <2> QED
    BY <1>2, <2>1 DEF NothingMissing
<1>5. CASE beat.batch = <<>> /\ (PostArrives \/ PostFails)
  <2>1. beat'.batch = <<>> /\ UNCHANGED <<log, recorded, told>>
    BY <1>5 DEF PostArrives, PostFails
  <2> QED
    BY <1>5, <2>1 DEF NothingMissing
<1>6. CASE beat.batch # <<>> /\ PostArrives
  <2>1. PICK last : last = Len(beat.batch)
    OBVIOUS
  <2>2. /\ last \in 1..Len(beat.batch)
        /\ beat'.batch = <<>> /\ UNCHANGED <<log, recorded>>
        /\ told' = beat.batch[last]
    BY <1>1, <1>6, <2>1 DEF PostArrives
  <2>3. told' \in (told + 1)..recorded
    BY <1>1, <2>2 DEF Ordered, Below
  <2>4. \A e \in EventsIn(beat.batch) : e <= told'
    <3>1. ASSUME NEW i \in 1..Len(beat.batch) PROVE beat.batch[i] <= beat.batch[last]
      <4>1. i < last \/ i = last
        BY <1>1, <2>1
      <4>2. beat.batch[i] \in Nat /\ beat.batch[last] \in Nat
        BY <1>1, <2>2
      <4>3. i < last => beat.batch[i] < beat.batch[last]
        BY <2>2 DEF Ordered, Increasing
      <4> QED
        BY <4>1, <4>2, <4>3
    <3> QED
      BY <2>2, <3>1 DEF EventsIn
  <2>5. \A e \in EventsIn(log) : e \in (told' + 1)..recorded
    <3>1. ASSUME NEW i \in 1..Len(log) PROVE log[i] \in 1..recorded /\ told' < log[i]
      BY <1>1, <2>2 DEF Ordered, Below
    <3> QED
      BY <1>1, <2>3, <3>1 DEF EventsIn
  <2>6. EventsIn(log) = (told' + 1)..recorded
    <3>1. ASSUME NEW e \in (told' + 1)..recorded PROVE e \in EventsIn(log)
      <4>1. e \in (told + 1)..recorded /\ ~ (e <= told')
        BY <1>1, <2>3, <3>1
      <4> QED
        BY <2>4, <4>1 DEF NothingMissing
    <3> QED
      BY <2>5, <3>1
  <2> QED
    BY <1>2, <2>2, <2>6 DEF NothingMissing
<1> QED
  BY <1>3, <1>4, <1>5, <1>6 DEF Beat

(* A post that arrives tells the last event before the log's. *)
LEMMA ArrivalCatchesUp ==
    ASSUME HeartbeatTypeOK, LogIsLatest, LogFollows,
           PostArrives, beat.batch # <<>>, Len(log) < MAXLEN
    PROVE  NothingMissing'
<1>1. /\ log \in Seq(1..recorded) /\ recorded \in Nat /\ Len(log) \in Nat
  BY AgentAssumption DEF HeartbeatTypeOK
<1>2. /\ beat'.batch = <<>> /\ UNCHANGED <<log, recorded>>
      /\ told' = recorded - Len(log)
  BY DEF PostArrives, LogFollows
<1>3. ASSUME NEW e \in (told' + 1)..recorded PROVE e \in EventsIn(log)
  <2>1. e - told' \in 1..Len(log)
    BY <1>1, <1>2
  <2>2. PICK i : i = e - told' /\ i \in 1..Len(log)
    BY <2>1
  <2>3. log[i] = recorded - Len(log) + i
    BY <2>2 DEF LogIsLatest
  <2>4. recorded - Len(log) + i = e
    BY <1>1, <1>2, <2>2
  <2> QED
    BY <2>2, <2>3, <2>4 DEF EventsIn
<1>4. ASSUME NEW i \in 1..Len(log) PROVE log[i] \in (told' + 1)..recorded
  <2>1. log[i] = recorded - Len(log) + i
    BY DEF LogIsLatest
  <2> QED
    BY <1>1, <1>2, <2>1
<1>5. EventsIn(<<>>) = {}
  BY DEF EventsIn
<1>6. EventsIn(log) = (told' + 1)..recorded
  BY <1>3, <1>4 DEF EventsIn
<1> QED
  BY <1>2, <1>5, <1>6 DEF NothingMissing

(* The dashboard misses an event only where the code gives one up: with a  *)
(* post that fails, or when a full log drops its oldest; the log always    *)
(* has the latest events without a gap, and the next post that arrives     *)
(* in time brings the dashboard up to date (_push_telemetry,               *)
(* RoutingEventLog.record).                                                *)
THEOREM LossesExplained ==
    Spec => []LogIsLatest /\ NothingMissing /\ LossExplained /\ PostCatchesUp
<1>1. Init => LogIsLatest /\ LogFollows /\ NothingMissing
  BY DEF Init, LogIsLatest, LogFollows, NothingMissing, EventsIn
<1>2. IInv /\ [Next]_vars
        => [NothingMissing => \/ NothingMissing'
                              \/ PostFails /\ beat.batch # <<>>
                              \/ Record /\ Len(log) = MAXLEN]_vars
  <2> SUFFICES ASSUME IInv, Next, NothingMissing, ~ (PostFails /\ beat.batch # <<>>),
                      ~ (Record /\ Len(log) = MAXLEN)
               PROVE  NothingMissing'
    OBVIOUS
  <2>1. HeartbeatTypeOK /\ Ordered
    BY DEF IInv, TypeOK
  <2>2. UNCHANGED heartbeat => NothingMissing'
    BY DEF heartbeat, NothingMissing
  <2>3. CommandStep \/ PullStep => UNCHANGED heartbeat
    BY CommandStepApart DEF PullStep, SeeCancel, StreamEnds, Cancel
  <2> QED
    BY <2>1, <2>2, <2>3, RecordLosesOldest, BeatLosesPosts, NextIsOneOf
<1>3. IInv /\ LogIsLatest /\ LogFollows
        => [PostArrives /\ beat.batch # <<>> /\ Len(log) < MAXLEN => NothingMissing']_vars
  BY ArrivalCatchesUp DEF IInv, TypeOK
<1> QED
  BY <1>1, <1>2, <1>3, StepKeepsLatest, Inductive, PTL DEF Spec, LossExplained, PostCatchesUp
=============================================================================
