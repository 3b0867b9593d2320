------------------------- MODULE FleetConfigProofs -------------------------
(***************************************************************************)
(* Safety of the fleet configuration for any number of agents, any         *)
(* settings and caps, and any number of crashes: a clean map is saved, the *)
(* file is never ahead of the map, and while tags are unique only          *)
(* operators make settings go away.  All rest on an invariant that traces  *)
(* every entry and every tombstone, in a map, in the file or on the wire,  *)
(* back to an operator's call.                                             *)
(***************************************************************************)
EXTENDS FleetConfig, ORMapProofs

(* Entries were set, and tombstones are tags of replaced entries. *)
Traced(r, I, B) ==
    /\ r \in Replica
    /\ r.entries \subseteq I
    /\ r.tombstones \subseteq TagsOf(B)

AllTraced ==
    /\ crdt \in [Replicas -> Replica]
    /\ \A r \in Replicas : Traced(crdt[r], issued, buried)
    /\ Traced(disk, issued, buried)
    /\ \A a \in Agent : Traced(beat[a].snapshot, issued, buried)
    /\ beat \in [Agent -> Beat]

HistorySound ==
    /\ seq \in Nat
    /\ issued \subseteq Entry
    /\ buried \subseteq issued
    /\ reissued \in BOOLEAN
    /\ ~ reissued => Coherent(issued)

IInv ==
    /\ AllTraced
    /\ HistorySound
    /\ CleanMeansSaved

-----------------------------------------------------------------------------

LEMMA TracedGrows ==
    ASSUME NEW r, NEW I, NEW J, NEW B, NEW C, I \subseteq J, B \subseteq C,
           Traced(r, I, B)
    PROVE  Traced(r, J, C)
BY DEF Traced, TagsOf

LEMMA TracedMerge ==
    ASSUME NEW a, NEW b, NEW I, NEW B, Traced(a, I, B), Traced(b, I, B),
           NEW r \in Merges(a, b)
    PROVE  Traced(r, I, B)
BY MergesContents DEF Traced

LEMMA EmptyTraced ==
    ASSUME NEW I, NEW B PROVE Traced(EmptyReplica, I, B)
BY DEF Traced, EmptyReplica, Replica

(* Writes at the dashboard. *)
LEMMA TracedSet ==
    ASSUME NEW r, NEW I, NEW B, Traced(r, I, B), NEW k, NEW v, NEW t,
           NEW e \in Entry, e = [key |-> k, value |-> v, tag |-> t],
           B \subseteq I
    PROVE  Traced(SetKey(r, k, v, t), I \cup {e}, B \cup At(r.entries, k))
<1> DEFINE s == SetKey(r, k, v, t)
<1>1. /\ s = [entries |-> s.entries, tombstones |-> s.tombstones]
      /\ s.entries = (r.entries \ At(r.entries, k)) \cup {e}
      /\ s.tombstones \subseteq r.tombstones \cup TagsOf(At(r.entries, k))
    BY GCSubset DEF SetKey
<1>2. TagsOf(At(r.entries, k)) \subseteq Tag
    BY DEF TagsOf, At, Traced, Replica, Entry
<1>3. s \in Replica
    BY <1>1, <1>2 DEF Traced, Replica
<1> QED BY <1>1, <1>3 DEF Traced, TagsOf

LEMMA TracedDelete ==
    ASSUME NEW r, NEW I, NEW B, Traced(r, I, B), NEW k
    PROVE  Traced(DeleteKey(r, k), I, B \cup At(r.entries, k))
<1> DEFINE s == DeleteKey(r, k)
<1>1. /\ s = [entries |-> s.entries, tombstones |-> s.tombstones]
      /\ s.entries = r.entries \ At(r.entries, k)
      /\ s.tombstones \subseteq r.tombstones \cup TagsOf(At(r.entries, k))
    BY GCSubset DEF DeleteKey
<1>2. TagsOf(At(r.entries, k)) \subseteq Tag
    BY DEF TagsOf, At, Traced, Replica, Entry
<1>3. s \in Replica
    BY <1>1, <1>2 DEF Traced, Replica
<1> QED BY <1>1, <1>3 DEF Traced, TagsOf

(* A save leaves the map saved or the flag up. *)
LEMMA AutoSaveClean ==
    ASSUME NEW r, AutoSave(r)
    PROVE  /\ ~ dirty' => disk' = r
           /\ disk' = r \/ UNCHANGED <<disk, unread>>
BY DEF AutoSave, SaveSucceeds, SaveFails

LEMMA MergeAndSaveMerges ==
    ASSUME NEW b \in Replica, crdt[Server] \in Replica, MergeAndSave(b)
    PROVE  \E r \in Merges(crdt[Server], b) :
              /\ crdt' = [crdt EXCEPT ![Server] = r]
              /\ \/ AutoSave(crdt'[Server])
                 \/ UNCHANGED <<disk, dirty, recent, unread>> /\ r.entries \subseteq crdt[Server].entries
<1>1. PICK A \in Adoptions(crdt[Server], b), B \in Absorptions(crdt[Server], b) :
          /\ crdt' = [crdt EXCEPT ![Server] =
                         Settled(crdt[Server].entries \cup A, crdt[Server].tombstones \cup B)]
          /\ IF A # {} THEN AutoSave(crdt'[Server])
                       ELSE UNCHANGED <<disk, dirty, recent, unread>>
    BY DEF MergeAndSave
<1> DEFINE r == Settled(crdt[Server].entries \cup A, crdt[Server].tombstones \cup B)
<1>2. r \in Merges(crdt[Server], b)
    BY MergesIntro
<1>3. A = {} => r.entries \subseteq crdt[Server].entries
    BY DEF Settled
<1> QED BY <1>1, <1>2, <1>3

-----------------------------------------------------------------------------

LEMMA InitIInv == Init => IInv
<1> SUFFICES ASSUME Init PROVE IInv
    OBVIOUS
<1>1. AllTraced
    BY EmptyTraced DEF Init, AllTraced, Idle, Beat, EmptyReplica, Replica
<1>2. HistorySound
    BY DEF Init, HistorySound, Coherent
<1>3. CleanMeansSaved
    BY DEF Init, CleanMeansSaved, EmptyReplica, TagsOf, Replicas
<1> QED BY <1>1, <1>2, <1>3 DEF IInv

(* A step at one replica r, whose map becomes s. *)
LEMMA TracedStep ==
    ASSUME IInv, NEW r \in Replicas, NEW s,
           crdt' = [crdt EXCEPT ![r] = s],
           issued \subseteq issued', buried \subseteq buried',
           Traced(s, issued', buried'),
           disk' = disk \/ disk' = s,
           beat' \in [Agent -> Beat],
           \A a \in Agent : \/ beat'[a].snapshot = s
                            \/ beat'[a].snapshot = beat[a].snapshot
                            \/ beat'[a].snapshot = EmptyReplica
    PROVE  AllTraced'
<1>1. \A q \in Replicas : Traced(crdt[q], issued', buried')
    BY TracedGrows DEF IInv, AllTraced
<1>2. \A q \in Replicas : crdt'[q] = IF q = r THEN s ELSE crdt[q]
    BY DEF IInv, AllTraced
<1>3. crdt' \in [Replicas -> Replica]
    BY DEF IInv, AllTraced, Traced
<1>4. Traced(disk', issued', buried')
    BY TracedGrows DEF IInv, AllTraced
<1>5. ASSUME NEW a \in Agent PROVE Traced(beat'[a].snapshot, issued', buried')
    <2>1. Traced(beat[a].snapshot, issued', buried')
        BY TracedGrows DEF IInv, AllTraced
    <2> QED BY <2>1, EmptyTraced
<1> QED BY <1>1, <1>2, <1>3, <1>4, <1>5 DEF AllTraced

LEMMA DashboardIInv ==
    ASSUME IInv, Dashboard
    PROVE  IInv'
<1>1. /\ Server \in Replicas /\ crdt[Server] \in Replica
      /\ Traced(crdt[Server], issued, buried)
    BY DEF IInv, AllTraced, Replicas
<1>2. ASSUME NEW k \in Key, NEW v \in Value, SetSetting(k, v) PROVE IInv'
    <2> DEFINE e == [key |-> k, value |-> v, tag |-> NextTag]
               s == SetKey(crdt[Server], k, v, NextTag)
    <2>1. /\ seq' = seq + 1
          /\ crdt' = [crdt EXCEPT ![Server] = s]
          /\ AutoSave(crdt'[Server])
          /\ issued' = issued \cup {e}
          /\ buried' = buried \cup At(crdt[Server].entries, k)
          /\ reissued' = (reissued \/ NextTag \in TagsOf(issued))
          /\ UNCHANGED beat
        BY <1>2 DEF SetSetting
    <2>2. NextTag \in Tag /\ e \in Entry
        BY ConfigAssumption DEF IInv, HistorySound, NextTag, Tag, Entry
    <2>3. Traced(s, issued', buried')
        BY <1>1, <2>1, <2>2, TracedSet DEF IInv, HistorySound
    <2>4. crdt'[Server] = s
        BY <1>1, <2>1 DEF IInv, AllTraced
    <2>5. AllTraced'
        BY <1>1, <2>1, <2>3, <2>4, AutoSaveClean, TracedStep DEF IInv, AllTraced
    <2>6. HistorySound'
        <3>1. At(crdt[Server].entries, k) \subseteq issued
            BY <1>1 DEF At, Traced
        <3>2. ~ reissued' => Coherent(issued')
            <4>1. ASSUME ~ reissued' PROVE Coherent(issued) /\ e.tag \notin TagsOf(issued)
                BY <2>1, <4>1 DEF IInv, HistorySound
            <4>2. ASSUME Coherent(issued), e.tag \notin TagsOf(issued)
                  PROVE  Coherent(issued \cup {e})
                <5> HIDE DEF e
                <5> QED BY <4>2 DEF Coherent, TagsOf
            <4> QED BY <2>1, <4>1, <4>2
        <3>3. reissued' \in BOOLEAN
            BY <2>1
        <3> QED BY <2>1, <2>2, <3>1, <3>2, <3>3 DEF IInv, HistorySound
    <2>7. CleanMeansSaved'
        BY <2>1, <2>4, AutoSaveClean DEF CleanMeansSaved, Known
    <2> QED BY <2>5, <2>6, <2>7 DEF IInv
<1>3. ASSUME NEW k \in Key, RemoveSetting(k) PROVE IInv'
    <2> DEFINE s == DeleteKey(crdt[Server], k)
    <2>1. /\ crdt' = [crdt EXCEPT ![Server] = s]
          /\ AutoSave(crdt'[Server])
          /\ buried' = buried \cup At(crdt[Server].entries, k)
          /\ UNCHANGED <<seq, beat, issued, reissued>>
        BY <1>3 DEF RemoveSetting
    <2>2. Traced(s, issued', buried')
        BY <1>1, <2>1, TracedDelete
    <2>3. crdt'[Server] = s
        BY <1>1, <2>1 DEF IInv, AllTraced
    <2>4. AllTraced'
        BY <1>1, <2>1, <2>2, <2>3, AutoSaveClean, TracedStep DEF IInv, AllTraced
    <2>5. HistorySound'
        BY <1>1, <2>1 DEF IInv, HistorySound, At, Traced
    <2>6. CleanMeansSaved'
        BY <2>1, <2>3, AutoSaveClean DEF CleanMeansSaved, Known
    <2> QED BY <2>4, <2>5, <2>6 DEF IInv
<1>4. ASSUME UNCHANGED <<crdt, seq, beat, history>>, disk' = disk \/ disk' = crdt[Server],
             CleanMeansSaved'
      PROVE  IInv'
    BY <1>1, <1>4 DEF IInv, AllTraced, HistorySound, history
<1>5. ASSUME NEW k \in Key, SetDropped(k) PROVE IInv'
    <2>1. UNCHANGED <<crdt, seq, beat, history>> /\ AutoSave(crdt[Server])
        BY <1>5 DEF SetDropped
    <2>2. CleanMeansSaved'
        BY <2>1, AutoSaveClean DEF CleanMeansSaved, Known
    <2> QED BY <1>4, <2>1, <2>2, AutoSaveClean
<1>6. CASE Flush
    <2>1. UNCHANGED <<crdt, seq, beat, history>>
        BY <1>6 DEF Flush
    <2>2. disk' = crdt[Server] \/ (dirty' /\ disk' = disk)
        BY <1>6 DEF Flush, SaveSucceeds, SaveFails
    <2>3. CleanMeansSaved'
        BY <2>1, <2>2 DEF CleanMeansSaved, Known
    <2> QED BY <1>4, <2>1, <2>2, <2>3
<1>7. CASE DebounceElapses
    <2>1. UNCHANGED <<crdt, seq, beat, history, disk, dirty>>
        BY <1>7 DEF DebounceElapses
    <2>2. CleanMeansSaved'
        BY <2>1 DEF IInv, CleanMeansSaved
    <2> QED BY <1>4, <2>1, <2>2
<1>8. CASE Restart
    <2>1. PICK s : /\ s \in Merges(EmptyReplica, disk) \/ s = EmptyReplica
                   /\ crdt' = [crdt EXCEPT ![Server] = s]
        BY <1>8 DEF Restart, Loads
    <2>2. seq' = 0 /\ UNCHANGED <<disk, beat, history>>
        BY <1>8 DEF Restart
    <2>3. Traced(disk, issued, buried)
        BY DEF IInv, AllTraced
    <2>4. Traced(s, issued, buried)
        BY <2>1, <2>3, EmptyTraced, TracedMerge
    <2>5. AllTraced'
        BY <1>1, <2>1, <2>2, <2>4, TracedStep DEF IInv, AllTraced, history
    <2>6. HistorySound'
        BY <2>2 DEF IInv, HistorySound, history
    <2>7. s.entries \subseteq disk.entries
        BY <2>1, <2>3, EmptyTraced, MergesContents DEF Traced, EmptyReplica
    <2>8. CleanMeansSaved'
        BY <1>1, <2>1, <2>2, <2>7 DEF IInv, AllTraced, CleanMeansSaved, Known, TagsOf
    <2> QED BY <2>5, <2>6, <2>8 DEF IInv
<1> QED BY <1>2, <1>3, <1>5, <1>6, <1>7, <1>8 DEF Dashboard

(* Every path to the end of a heartbeat leaves no snapshot behind. *)
LEMMA FinishBeat ==
    ASSUME IInv, NEW a \in Agent, NEW r, Finish(a, r)
    PROVE  /\ beat' \in [Agent -> Beat]
           /\ \A q \in Agent : \/ beat'[q].snapshot = beat[q].snapshot
                               \/ beat'[q].snapshot = EmptyReplica
BY EmptyTraced DEF IInv, AllTraced, Finish, Idle, Beat, Traced

(* Steps of an agent leave the dashboard's map and file alone. *)
LEMMA AgentStep ==
    ASSUME IInv, NEW a \in Agent, NEW s, Traced(s, issued, buried),
           crdt' = [crdt EXCEPT ![a] = s],
           UNCHANGED <<store, history>>,
           beat' \in [Agent -> Beat],
           \A q \in Agent : \/ beat'[q].snapshot = s
                            \/ beat'[q].snapshot = beat[q].snapshot
                            \/ beat'[q].snapshot = EmptyReplica
    PROVE  IInv'
<1>1. a \in Replicas /\ a # Server /\ crdt'[Server] = crdt[Server]
    BY ConfigAssumption DEF Replicas, IInv, AllTraced
<1>2. AllTraced'
    BY <1>1, TracedStep DEF store, history
<1>3. HistorySound' /\ CleanMeansSaved'
    BY <1>1 DEF IInv, HistorySound, CleanMeansSaved, store, history
<1> QED BY <1>2, <1>3 DEF IInv

LEMMA HeartbeatIInv ==
    ASSUME IInv, NEW a \in Agent, Heartbeat(a)
    PROVE  IInv'
<1>1. /\ a \in Replicas /\ Server \in Replicas
      /\ Traced(crdt[a], issued, buried) /\ Traced(crdt[Server], issued, buried)
      /\ Traced(beat[a].snapshot, issued, buried)
      /\ crdt = [crdt EXCEPT ![a] = crdt[a]]
      /\ crdt \in [Replicas -> Replica] /\ beat \in [Agent -> Beat]
    BY DEF IInv, AllTraced, Replicas
<1>2. CASE Pull(a)
    <2> DEFINE b == [at |-> "pulled", snapshot |-> crdt[Server]]
    <2>1. beat' = [beat EXCEPT ![a] = b] /\ UNCHANGED <<crdt, store, history>>
        BY <1>2 DEF Pull
    <2>2. b \in Beat /\ b.snapshot = crdt[Server]
        BY <1>1 DEF Beat
    <2>3. AllTraced'
        BY <1>1, <2>1, <2>2 DEF IInv, AllTraced, store, history
    <2>4. HistorySound' /\ CleanMeansSaved'
        BY <2>1 DEF IInv, HistorySound, CleanMeansSaved, store, history
    <2> QED BY <2>3, <2>4 DEF IInv
<1>3. CASE MergePulled(a)
    <2>1. PICK r \in Merges(crdt[a], beat[a].snapshot) :
              /\ crdt' = [crdt EXCEPT ![a] = r]
              /\ \/ beat' = [beat EXCEPT ![a] = [at |-> "posted", snapshot |-> r]]
                 \/ Finish(a, r)
        BY <1>3 DEF MergePulled
    <2>2. UNCHANGED <<store, history>>
        BY <1>3 DEF MergePulled
    <2>3. Traced(r, issued, buried)
        BY <1>1, <2>1, TracedMerge
    <2>4. /\ beat' \in [Agent -> Beat]
          /\ \A q \in Agent : \/ beat'[q].snapshot = r
                              \/ beat'[q].snapshot = beat[q].snapshot
                              \/ beat'[q].snapshot = EmptyReplica
        <3>1. CASE beat' = [beat EXCEPT ![a] = [at |-> "posted", snapshot |-> r]]
            BY <1>1, <2>3, <3>1 DEF Beat, Traced
        <3>2. CASE Finish(a, r)
            BY <3>2, FinishBeat
        <3> QED BY <2>1, <3>1, <3>2
    <2> QED BY <2>1, <2>2, <2>3, <2>4, AgentStep
<1>4. CASE Serve(a)
    <2>1. MergeAndSave(beat[a].snapshot) /\ UNCHANGED <<seq, history>>
        BY <1>4 DEF Serve
    <2>2. PICK r \in Merges(crdt[Server], beat[a].snapshot) :
              /\ crdt' = [crdt EXCEPT ![Server] = r]
              /\ \/ AutoSave(crdt'[Server])
                 \/ /\ UNCHANGED <<disk, dirty, recent, unread>>
                    /\ r.entries \subseteq crdt[Server].entries
        BY <1>1, <2>1, MergeAndSaveMerges DEF Traced
    <2>3. Traced(r, issued, buried)
        BY <1>1, <2>2, TracedMerge
    <2>4. crdt'[Server] = r
        BY <1>1, <2>2
    <2>5. beat' = [beat EXCEPT ![a] = [at |-> "answered", snapshot |-> r]]
        BY <1>4, <2>4 DEF Serve
    <2>6. /\ beat' \in [Agent -> Beat]
          /\ \A q \in Agent : beat'[q].snapshot = r \/ beat'[q].snapshot = beat[q].snapshot
        BY <1>1, <2>3, <2>5 DEF Beat, Traced
    <2>7. disk' = disk \/ disk' = r
        BY <2>2, <2>4, AutoSaveClean
    <2>8. AllTraced'
        BY <1>1, <2>1, <2>2, <2>3, <2>6, <2>7, TracedStep DEF history
    <2>9. HistorySound'
        BY <2>1 DEF IInv, HistorySound, history
    <2>10. CleanMeansSaved'
        BY <2>2, <2>4, AutoSaveClean DEF IInv, CleanMeansSaved, Known, TagsOf
    <2> QED BY <2>8, <2>9, <2>10 DEF IInv
<1>5. CASE MergeAnswer(a)
    <2>1. PICK r \in Merges(crdt[a], beat[a].snapshot) :
              crdt' = [crdt EXCEPT ![a] = r] /\ Finish(a, r)
        BY <1>5 DEF MergeAnswer
    <2>2. UNCHANGED <<store, history>>
        BY <1>5 DEF MergeAnswer
    <2>3. Traced(r, issued, buried)
        BY <1>1, <2>1, TracedMerge
    <2>4. /\ beat' \in [Agent -> Beat]
          /\ \A q \in Agent : \/ beat'[q].snapshot = beat[q].snapshot
                              \/ beat'[q].snapshot = EmptyReplica
        BY <2>1, FinishBeat
    <2> QED BY <2>1, <2>2, <2>3, <2>4, AgentStep
<1>6. CASE GiveUp(a)
    <2>1. Finish(a, crdt[a]) /\ UNCHANGED <<crdt, store, history>>
        BY <1>6 DEF GiveUp
    <2> QED BY <1>1, <2>1, FinishBeat, AgentStep
<1>7. CASE RestartAgent(a)
    <2>1. /\ crdt' = [crdt EXCEPT ![a] = EmptyReplica]
          /\ beat' = [beat EXCEPT ![a] = Idle]
          /\ UNCHANGED <<store, history>>
        BY <1>7 DEF RestartAgent
    <2>2. Idle \in Beat /\ Idle.snapshot = EmptyReplica
        BY EmptyTraced DEF Idle, Beat, Traced
    <2> QED BY <1>1, <2>1, <2>2, EmptyTraced, AgentStep
<1> QED BY <1>2, <1>3, <1>4, <1>5, <1>6, <1>7 DEF Heartbeat

LEMMA NextIInv == IInv /\ [Next]_vars => IInv'
<1>1. IInv /\ UNCHANGED vars => IInv'
    BY DEF IInv, AllTraced, HistorySound, CleanMeansSaved, vars, store, history
<1> QED BY <1>1, DashboardIInv, HeartbeatIInv DEF Next

THEOREM Inductive == Spec => []IInv
<1> QED BY InitIInv, NextIInv, PTL DEF Spec

-----------------------------------------------------------------------------

(* While the dirty flag is down, a crash of the dashboard loses no         *)
(* setting: every entry its map shows is in the file.                      *)
THEOREM CleanIsSaved == Spec => []CleanMeansSaved
<1>1. IInv => CleanMeansSaved
    BY DEF IInv
<1> QED BY <1>1, Inductive, PTL

(* An entry that carries the tag of a replaced one is that one. *)
LEMMA DeadIsReplaced ==
    ASSUME IInv, ~ reissued, NEW e \in issued, e.tag \in TagsOf(buried)
    PROVE  e \in buried
<1>1. PICK f \in buried : f.tag = e.tag
    BY DEF TagsOf
<1> QED BY <1>1 DEF IInv, HistorySound, Coherent

(* What merges and restarts take away from a map was replaced by someone.  *)
LEMMA MergeVanishes ==
    ASSUME IInv, ~ reissued, NEW q \in Replicas, NEW b, Traced(b, issued, buried),
           NEW r \in Merges(crdt[q], b), crdt' = [crdt EXCEPT ![q] = r],
           NEW p \in Replicas
    PROVE  Vanished(p) \subseteq buried
<1> SUFFICES ASSUME NEW e \in crdt[p].entries, e \notin crdt'[p].entries
             PROVE  e \in buried
    BY DEF Vanished
<1>1. p = q /\ crdt'[q] = r
    BY DEF IInv, AllTraced
<1>2. Traced(crdt[q], issued, buried)
    BY DEF IInv, AllTraced
<1>3. e.tag \in crdt[q].tombstones \cup b.tombstones
    BY <1>1, <1>2, MergesDrop DEF Traced
<1> QED BY <1>1, <1>2, <1>3, DeadIsReplaced DEF Traced

CrashCount == crashes \in Nat

(* Crashes are counted. *)
LEMMA CrashesCounted == Spec => []CrashCount
<1>1. Init => CrashCount
    BY DEF Init, CrashCount
<1>2. CrashCount /\ [Next]_vars => CrashCount'
    <2>1. Dashboard => crashes' = crashes \/ crashes' = crashes + 1
        BY DEF Dashboard, SetSetting, SetDropped, RemoveSetting, Flush,
               DebounceElapses, Restart
    <2>2. \A a \in Agent : Heartbeat(a) => crashes' = crashes \/ crashes' = crashes + 1
        BY DEF Heartbeat, Pull, MergePulled, Serve, MergeAnswer, GiveUp, RestartAgent
    <2> QED BY <2>1, <2>2 DEF Next, vars, CrashCount
<1> QED BY <1>1, <1>2, PTL DEF Spec

(* As long as no tag was issued twice, a setting goes away from a map that *)
(* stays up only because an operator replaced or removed it.               *)
THEOREM OnlyOperatorsRemove == Spec => OnlyReplacedVanish
<1>1. ASSUME IInv, CrashCount, Next, ~ reissued', crashes' = crashes,
             NEW p \in Replicas
      PROVE  Vanished(p) \subseteq buried'
    <2>1. crdt \in [Replicas -> Replica] /\ Server \in Replicas
        BY <1>1 DEF IInv, AllTraced, Replicas
    <2>2. CASE UNCHANGED crdt
        BY <2>2 DEF Vanished
    <2>3. ASSUME NEW k \in Key, NEW v \in Value, SetSetting(k, v)
          PROVE  Vanished(p) \subseteq buried'
        BY <2>1, <2>3 DEF SetSetting, SetKey, Vanished
    <2>4. ASSUME NEW k \in Key, RemoveSetting(k)
          PROVE  Vanished(p) \subseteq buried'
        BY <2>1, <2>4 DEF RemoveSetting, DeleteKey, Vanished
    <2>5. ASSUME NEW q \in Replicas, NEW a \in Agent, UNCHANGED history,
                 \E r \in Merges(crdt[q], beat[a].snapshot) : crdt' = [crdt EXCEPT ![q] = r]
          PROVE  Vanished(p) \subseteq buried'
        <3>1. PICK r \in Merges(crdt[q], beat[a].snapshot) : crdt' = [crdt EXCEPT ![q] = r]
            BY <2>5
        <3>2. Traced(beat[a].snapshot, issued, buried) /\ ~ reissued /\ buried' = buried
            BY <1>1, <2>5 DEF IInv, AllTraced, history
        <3> QED BY <1>1, <3>1, <3>2, MergeVanishes
    <2>6. ASSUME NEW a \in Agent, Heartbeat(a) PROVE Vanished(p) \subseteq buried'
        <3>1. a \in Replicas
            BY DEF Replicas
        <3>2. CASE MergePulled(a) \/ MergeAnswer(a)
            BY <2>5, <3>1, <3>2 DEF MergePulled, MergeAnswer
        <3>3. CASE Serve(a)
            <4>1. beat[a].snapshot \in Replica
                BY <1>1 DEF IInv, AllTraced, Traced
            <4>2. \E r \in Merges(crdt[Server], beat[a].snapshot) :
                      crdt' = [crdt EXCEPT ![Server] = r]
                BY <2>1, <3>3, <4>1, MergeAndSaveMerges DEF Serve
            <4> QED BY <2>1, <2>5, <3>3, <4>2 DEF Serve
        <3>4. CASE Pull(a) \/ GiveUp(a)
            BY <2>2, <3>4 DEF Pull, GiveUp
        <3>5. ~ RestartAgent(a)
            BY <1>1 DEF RestartAgent, CrashCount
        <3> QED BY <2>6, <3>2, <3>3, <3>4, <3>5 DEF Heartbeat
    <2>7. ASSUME \/ \E k \in Key : SetDropped(k)
                 \/ Flush
                 \/ DebounceElapses
          PROVE  UNCHANGED crdt
        BY <2>7 DEF SetDropped, Flush, DebounceElapses
    <2>8. ~ Restart
        BY <1>1 DEF Restart, CrashCount
    <2> QED BY <1>1, <2>2, <2>3, <2>4, <2>6, <2>7, <2>8 DEF Next, Dashboard
<1>2. IInv /\ CrashCount /\ [Next]_vars
          => [~ reissued' /\ crashes' = crashes =>
                 \A r \in Replicas : Vanished(r) \subseteq buried']_vars
    BY <1>1
<1> QED BY <1>2, Inductive, CrashesCounted, PTL DEF Spec, OnlyReplacedVanish

-----------------------------------------------------------------------------

(* Settings are written a bounded number of times, so that every map, file *)
(* and snapshot is finite and the winner of a key is one of its entries.   *)
Few == IsFiniteSet(issued) /\ Cardinality(issued) <= MaxWrites

Shown ==
    /\ dirty \in BOOLEAN
    /\ recent \in BOOLEAN
    /\ unread \in BOOLEAN
    /\ applied \in [Agent -> [Key -> Value \cup {Unset}]]

LEMMA InitFew == Init => Few
BY FS_EmptySet, ConfigAssumption DEF Init, Few

LEMMA FewStep == Few /\ [Next]_vars => Few'
<1> SUFFICES ASSUME Few, [Next]_vars PROVE Few'
    OBVIOUS
<1>1. ASSUME NEW e, issued' = issued \cup {e}, Cardinality(issued) < MaxWrites
      PROVE  Few'
    <2>1. /\ IsFiniteSet(issued \cup {e})
          /\ Cardinality(issued \cup {e}) \in {Cardinality(issued), Cardinality(issued) + 1}
        BY FS_AddElement DEF Few
    <2>2. Cardinality(issued) \in Nat
        BY FS_CardinalityType DEF Few
    <2> QED BY <1>1, <2>1, <2>2, ConfigAssumption DEF Few
<1>2. \A k \in Key, v \in Value : SetSetting(k, v) => Few'
    BY <1>1 DEF SetSetting
<1>3. issued' = issued => Few'
    BY DEF Few
<1>4. ASSUME \/ \E k \in Key : SetDropped(k) \/ RemoveSetting(k)
             \/ Flush \/ DebounceElapses \/ Restart
      PROVE  issued' = issued
    BY <1>4 DEF SetDropped, RemoveSetting, Flush, DebounceElapses, Restart, history
<1>5. \A a \in Agent : Heartbeat(a) => issued' = issued
    BY DEF Heartbeat, Pull, MergePulled, Serve, MergeAnswer, GiveUp, RestartAgent, history
<1>6. UNCHANGED vars => issued' = issued
    BY DEF vars, history
<1> QED BY <1>2, <1>3, <1>4, <1>5, <1>6 DEF Next, Dashboard

LEMMA SettingsTyped ==
    ASSUME NEW E \in SUBSET Entry, IsFiniteSet(E)
    PROVE  Settings(E) \in [Key -> Value \cup {Unset}]
<1>1. ASSUME NEW k \in Key, k \in KeysOf(E) PROVE Winner(E, k).value \in Value
    <2>1. Winner(E, k) \in E
        BY <1>1, WinnerIsOne DEF At
    <2> HIDE DEF Winner
    <2> QED BY <2>1 DEF Entry
<1> QED BY <1>1 DEF Settings

LEMMA FinishTyped ==
    ASSUME IInv, Few, Shown, NEW a \in Agent, NEW r, Traced(r, issued, buried), Finish(a, r)
    PROVE  applied' \in [Agent -> [Key -> Value \cup {Unset}]]
<1>1. r.entries \in SUBSET Entry /\ IsFiniteSet(r.entries)
    BY FS_Subset DEF Few, Traced, IInv, HistorySound
<1>2. Settings(r.entries) \in [Key -> Value \cup {Unset}]
    BY <1>1, SettingsTyped
<1> QED BY <1>2 DEF Finish, Shown

LEMMA ShownStep == IInv /\ Few /\ Shown /\ [Next]_vars => Shown'
<1> SUFFICES ASSUME IInv, Few, Shown, [Next]_vars PROVE Shown'
    OBVIOUS
<1>1. \A r : AutoSave(r) => dirty' \in BOOLEAN /\ recent' \in BOOLEAN /\ unread' \in BOOLEAN
    BY DEF AutoSave, SaveSucceeds, SaveFails, Shown
<1>2. CASE UNCHANGED vars
    BY <1>2 DEF vars, store, Shown
<1>3. CASE Dashboard
    <2>1. ASSUME NEW k \in Key,
                 SetDropped(k) \/ RemoveSetting(k) \/ \E v \in Value : SetSetting(k, v)
          PROVE  UNCHANGED applied /\ \E r : AutoSave(r)
        BY <2>1 DEF SetDropped, RemoveSetting, SetSetting
    <2>2. Flush \/ DebounceElapses \/ Restart => Shown'
        BY DEF Flush, DebounceElapses, Restart, SaveSucceeds, SaveFails, Shown
    <2> QED BY <1>1, <1>3, <2>1, <2>2 DEF Dashboard, Shown
<1>4. ASSUME NEW a \in Agent, Heartbeat(a) PROVE Shown'
    <2>1. Traced(crdt[a], issued, buried) /\ Traced(beat[a].snapshot, issued, buried)
        BY DEF IInv, AllTraced, Replicas
    <2>2. \A r \in Merges(crdt[a], beat[a].snapshot) : Traced(r, issued, buried)
        BY <2>1, TracedMerge
    <2>3. CASE MergePulled(a) \/ MergeAnswer(a)
        <3>1. UNCHANGED <<dirty, recent, unread>>
            BY <2>3 DEF MergePulled, MergeAnswer, store
        <3>2. UNCHANGED applied \/ \E r \in Merges(crdt[a], beat[a].snapshot) : Finish(a, r)
            BY <2>3 DEF MergePulled, MergeAnswer
        <3> QED BY <2>2, <3>1, <3>2, FinishTyped DEF Shown
    <2>4. CASE Serve(a)
        <3>1. UNCHANGED applied /\ MergeAndSave(beat[a].snapshot)
            BY <2>4 DEF Serve
        <3>2. (\E r : AutoSave(r)) \/ UNCHANGED <<dirty, recent, unread>>
            BY <3>1 DEF MergeAndSave
        <3> QED BY <1>1, <3>1, <3>2 DEF Shown
    <2>5. CASE GiveUp(a)
        BY <2>1, <2>5, FinishTyped DEF GiveUp, store, Shown
    <2>6. CASE Pull(a) \/ RestartAgent(a)
        BY <2>6 DEF Pull, RestartAgent, store, Shown
    <2> QED BY <1>4, <2>3, <2>4, <2>5, <2>6 DEF Heartbeat
<1> QED BY <1>2, <1>3, <1>4 DEF Next

(* Every variable has the shape the code gives it; that the proxies hold   *)
(* values at all is that each key shows one of the entries written for it. *)
THEOREM TypeCorrect == Spec => []TypeOK
<1>1. Init => Shown
    BY DEF Init, Shown
<1>2. IInv /\ CrashCount /\ Shown => TypeOK
    BY EmptyTraced DEF IInv, AllTraced, HistorySound, CrashCount, Shown, TypeOK, Traced
<1> QED BY <1>1, <1>2, InitFew, FewStep, ShownStep, Inductive, CrashesCounted, PTL DEF Spec

-----------------------------------------------------------------------------

(* Every setting ever written could be removed without an eviction. *)
RoomForTombstones == MaxWrites <= MAX_TOMBSTONES

Behind(r, s) == Known(r) \subseteq Known(s) /\ r.tombstones \subseteq s.tombstones

(* The map keeps the caps, and so does the file: a start that can read it  *)
(* loads all of it.                                                        *)
Kept ==
    /\ Capped(crdt[Server])
    /\ Capped(disk)
    /\ ~ unread => Behind(disk, crdt[Server])

LEMMA TracedFew ==
    ASSUME IInv, Few, RoomForTombstones, NEW T \in SUBSET TagsOf(issued)
    PROVE  Cardinality(T) <= MAX_TOMBSTONES /\ IsFiniteSet(T)
BY FewTags, ConfigAssumption DEF Few, RoomForTombstones

(* A merge forgets nothing of the map it is made into. *)
LEMMA MergeBehind ==
    ASSUME IInv, Few, RoomForTombstones, NEW a, NEW b,
           Traced(a, issued, buried), Traced(b, issued, buried), NEW r \in Merges(a, b)
    PROVE  Behind(a, r)
<1>1. PICK A \in Adoptions(a, b), B \in Absorptions(a, b) :
          r = Settled(a.entries \cup A, a.tombstones \cup B)
    BY MergesElim DEF Chosen
<1>2. B \subseteq b.tombstones
    BY DEF Absorptions, kSubset
<1>3. a.tombstones \cup B \in SUBSET TagsOf(issued)
    BY <1>2 DEF Traced, IInv, HistorySound, TagsOf
<1>4. /\ r.tombstones = a.tombstones \cup B
      /\ r.entries = {e \in a.entries \cup A : e.tag \notin a.tombstones \cup B}
    BY <1>1, <1>3, TracedFew, GCWithinCap DEF Settled
<1>5. \A e \in a.entries : e.tag \in Known(r)
    BY <1>4 DEF Known, TagsOf
<1> QED BY <1>4, <1>5 DEF Behind, Known, TagsOf

(* The file is loaded as a whole. *)
LEMMA LoadBehind ==
    ASSUME Capped(disk), disk \in Replica, NEW r \in Merges(EmptyReplica, disk)
    PROVE  Behind(disk, r)
<1>1. /\ UNION {s.entries : s \in {EmptyReplica, disk}} = disk.entries
      /\ UNION {s.tombstones : s \in {EmptyReplica, disk}} = disk.tombstones
    BY DEF EmptyReplica
<1>2. Fits({EmptyReplica, disk})
    BY <1>1 DEF Fits, Capped
<1>3. Finite(EmptyReplica) /\ EmptyReplica \in Replica /\ Finite(disk)
    BY EmptyCapped, EmptyTraced DEF Capped, Traced
<1>4. r = Join(EmptyReplica, disk)
    BY <1>2, <1>3, MergeWithinCaps
<1> QED BY <1>4, JoinKeepsKnowledge DEF Behind

LEMMA WriteBehind ==
    ASSUME IInv, Few, RoomForTombstones, NEW r, Traced(r, issued, buried), NEW k
    PROVE  /\ \A v, t : Behind(r, SetKey(r, k, v, t))
           /\ Behind(r, DeleteKey(r, k))
<1> DEFINE T == r.tombstones \cup TagsOf(At(r.entries, k))
<1>1. T \in SUBSET TagsOf(issued)
    BY DEF Traced, IInv, HistorySound, TagsOf, At
<1>2. Cardinality(T) <= MAX_TOMBSTONES
    <2> HIDE DEF T
    <2> QED BY <1>1, TracedFew
<1>3. r \in Replica
    BY DEF Traced
<1>4. /\ \A v, t : /\ Known(r) \cup {t} \subseteq Known(SetKey(r, k, v, t))
                   /\ SetKey(r, k, v, t).tombstones = T
      /\ Known(r) \subseteq Known(DeleteKey(r, k))
      /\ DeleteKey(r, k).tombstones = T
    BY <1>2, <1>3, BurialKeepsKnowledge
<1>5. ASSUME NEW v, NEW t PROVE Behind(r, SetKey(r, k, v, t))
    <2>1. PICK s : s = SetKey(r, k, v, t)
        OBVIOUS
    <2>2. Known(r) \cup {t} \subseteq Known(s) /\ s.tombstones = T
        BY <1>4, <2>1, Zenon
    <2> QED BY <2>1, <2>2 DEF Behind
<1> QED BY <1>4, <1>5 DEF Behind

(* A map that moves on to s and is saved, or not. *)
LEMMA KeptMovesOn ==
    ASSUME Kept, NEW s, Behind(crdt[Server], s), Capped(s),
           crdt'[Server] = s, disk' = s \/ UNCHANGED <<disk, unread>>
    PROVE  Kept'
BY DEF Behind, Kept

LEMMA KeptStep ==
    ASSUME IInv, Few, RoomForTombstones, Kept, [Next]_vars
    PROVE  Kept'
<1>1. /\ Server \in Replicas /\ crdt \in [Replicas -> Replica]
      /\ Traced(crdt[Server], issued, buried) /\ Traced(disk, issued, buried)
      /\ crdt[Server] \in Replica /\ disk \in Replica
    BY DEF IInv, AllTraced, Replicas, Traced
<1>2. /\ crdt'[Server] = crdt[Server]
      /\ disk' = crdt[Server] \/ UNCHANGED <<disk, unread>>
      => Kept'
    BY DEF Behind, Kept
<1>3. CASE UNCHANGED vars
    BY <1>2, <1>3 DEF vars, store
<1>4. ASSUME NEW k \in Key, NEW v \in Value, SetSetting(k, v)
      PROVE  Kept'
    <2> DEFINE s == SetKey(crdt[Server], k, v, NextTag)
    <2>1. crdt' = [crdt EXCEPT ![Server] = s] /\ AutoSave(crdt'[Server])
        BY <1>4 DEF SetSetting
    <2>2. Behind(crdt[Server], s)
        BY <1>1, WriteBehind
    <2>3. Capped(s)
        BY <1>1, <1>4, SetKeyCapped DEF SetSetting, Kept
    <2> HIDE DEF s
    <2> QED BY <1>1, <2>1, <2>2, <2>3, AutoSaveClean, KeptMovesOn
<1>5. ASSUME NEW k \in Key, RemoveSetting(k)
      PROVE  Kept'
    <2> DEFINE s == DeleteKey(crdt[Server], k)
    <2>1. crdt' = [crdt EXCEPT ![Server] = s] /\ AutoSave(crdt'[Server])
        BY <1>5 DEF RemoveSetting
    <2>2. Behind(crdt[Server], s)
        BY <1>1, WriteBehind
    <2>3. Capped(s)
        BY <1>1, DeleteKeyCapped DEF Kept
    <2> HIDE DEF s
    <2> QED BY <1>1, <2>1, <2>2, <2>3, AutoSaveClean, KeptMovesOn
<1>6. ASSUME \/ \E k \in Key : SetDropped(k)
             \/ Flush \/ DebounceElapses
      PROVE  Kept'
    <2>1. crdt' = crdt /\ (disk' = crdt[Server] \/ UNCHANGED <<disk, unread>>)
        BY <1>6, AutoSaveClean DEF SetDropped, Flush, DebounceElapses, SaveSucceeds, SaveFails
    <2> QED BY <1>2, <2>1
<1>7. CASE Restart
    <2>1. PICK s : /\ crdt' = [crdt EXCEPT ![Server] = s]
                   /\ \/ s \in Merges(EmptyReplica, disk)
                      \/ s = EmptyReplica /\ unread'
        BY <1>7 DEF Restart, Loads
    <2>2. (~ unread' => Behind(disk, s)) /\ disk' = disk
        BY <1>1, <1>7, <2>1, LoadBehind DEF Restart, Kept
    <2>3. Capped(s)
        BY <1>1, <2>1, EmptyTraced, EmptyCapped, MergesCapped DEF Kept, Capped, Traced
    <2> QED BY <1>1, <2>1, <2>2, <2>3 DEF Kept
<1>8. ASSUME NEW a \in Agent, Heartbeat(a)
      PROVE  Kept'
    <2>1. a \in Replicas /\ a # Server /\ Traced(beat[a].snapshot, issued, buried)
        BY ConfigAssumption DEF Replicas, IInv, AllTraced
    <2>2. CASE Serve(a)
        <3>1. MergeAndSave(beat[a].snapshot)
            BY <2>2 DEF Serve
        <3>2. PICK r \in Merges(crdt[Server], beat[a].snapshot) :
                  /\ crdt' = [crdt EXCEPT ![Server] = r]
                  /\ AutoSave(crdt'[Server]) \/ UNCHANGED <<disk, dirty, recent, unread>>
            BY <1>1, <2>1, <3>1, MergeAndSaveMerges DEF Traced
        <3>3. Behind(crdt[Server], r)
            BY <1>1, <2>1, MergeBehind
        <3>4. Finite(beat[a].snapshot) /\ beat[a].snapshot \in Replica
            <4>1. beat[a].snapshot.entries \subseteq issued
                  /\ beat[a].snapshot.tombstones \in SUBSET TagsOf(issued)
                BY <2>1 DEF Traced, IInv, HistorySound, TagsOf
            <4> QED BY <2>1, <4>1, TracedFew, FS_Subset DEF Finite, Few, Traced
        <3>5. Capped(r)
            BY <1>1, <3>4, MergesCapped DEF Kept
        <3> QED BY <1>1, <3>2, <3>3, <3>5, AutoSaveClean, KeptMovesOn
    <2>3. CASE ~ Serve(a)
        <3>1. /\ UNCHANGED <<disk, unread>>
              /\ (UNCHANGED crdt \/ \E r : crdt' = [crdt EXCEPT ![a] = r])
            BY <1>8, <2>3 DEF Heartbeat, Pull, MergePulled, MergeAnswer, GiveUp,
                              RestartAgent, store
        <3> QED BY <1>1, <1>2, <2>1, <3>1
    <2> QED BY <2>2, <2>3
<1> QED BY <1>3, <1>4, <1>5, <1>6, <1>7, <1>8 DEF Next, Dashboard

(* As long as no more settings are written than there is room for          *)
(* tombstones, the file runs ahead of the map only from a start that could *)
(* not load it to the next save: every start that can read it takes up all *)
(* that it says, and whatever agents push back, and however saves fail,    *)
(* nothing of that is unlearned, also when the map is full.                *)
THEOREM FileStaysBehind == ASSUME RoomForTombstones PROVE Spec => []FileBehindMap
<1>1. Init => Kept
    BY EmptyCapped DEF Init, Kept, Behind, Replicas
<1>2. IInv /\ Few /\ Kept /\ [Next]_vars => Kept'
    BY KeptStep
<1>3. Kept => FileBehindMap
    BY DEF Kept, Behind, FileBehindMap
<1> QED BY <1>1, <1>2, <1>3, InitFew, FewStep, Inductive, PTL DEF Spec

-----------------------------------------------------------------------------
(* What the proxies are given. *)

WasSet(I, k, v) == v \notin Invalid /\ \E e \in I : e.key = k /\ e.value = v

(* Whatever a proxy holds, an operator once set for that key, and it is    *)
(* valid: no crash, merge or late answer makes a setting up.               *)
AppliedWereSet ==
    \A a \in Agent, k \in Key :
        applied[a][k] # Unset => WasSet(issued, k, applied[a][k])

(* Between two heartbeats the proxy has the settings of the agent's map,   *)
(* however the last heartbeat ended.                                       *)
AppliedIsMap ==
    \A a \in Agent : beat[a].at \in {"idle", "pulled"} => applied[a] = Settings(crdt[a].entries)

LEMMA SettingsWereSet ==
    ASSUME NEW I \in SUBSET Entry, NEW E \in SUBSET I, IsFiniteSet(E), NEW k \in Key,
           Settings(E)[k] # Unset
    PROVE  WasSet(I, k, Settings(E)[k])
<1>1. PICK w : w = Winner(E, k)
    OBVIOUS
<1>2. k \in KeysOf(E) /\ Settings(E)[k] = w.value /\ w.value \notin Invalid
    BY <1>1 DEF Settings
<1>3. w \in At(E, k)
    BY <1>1, <1>2, WinnerIsOne
<1> QED BY <1>2, <1>3 DEF At, WasSet

LEMMA NothingSet == Settings({}) = [k \in Key |-> Unset]
BY DEF Settings, KeysOf

(* A step of a's heartbeat, seen by the proxies. *)
LEMMA ProxyStep ==
    ASSUME IInv, Few, Shown, AppliedWereSet, AppliedIsMap, [Next]_vars
    PROVE  AppliedWereSet' /\ AppliedIsMap'
<1>1. /\ crdt \in [Replicas -> Replica] /\ beat \in [Agent -> Beat] /\ issued \in SUBSET Entry
      /\ applied \in [Agent -> [Key -> Value \cup {Unset}]]
      /\ \A a \in Agent : a \in Replicas /\ a # Server
    BY ConfigAssumption DEF IInv, AllTraced, HistorySound, Shown, Replicas
<1>2. issued \subseteq issued'
    BY DEF Next, Dashboard, SetSetting, SetDropped, RemoveSetting, Flush, DebounceElapses, Restart,
           Heartbeat, Pull, MergePulled, Serve, MergeAnswer, GiveUp, RestartAgent, history, vars
<1>3. CASE UNCHANGED <<beat, applied>> /\ \A a \in Agent : crdt'[a] = crdt[a]
    BY <1>2, <1>3 DEF AppliedWereSet, AppliedIsMap, WasSet
<1>4. ASSUME Dashboard PROVE UNCHANGED <<beat, applied>> /\ \A a \in Agent : crdt'[a] = crdt[a]
    <2>1. UNCHANGED <<beat, applied>> /\ (UNCHANGED crdt \/ \E s : crdt' = [crdt EXCEPT ![Server] = s])
        BY <1>4 DEF Dashboard, SetSetting, SetDropped, RemoveSetting, Flush, DebounceElapses, Restart
    <2> QED BY <1>1, <2>1
<1>5. ASSUME NEW a \in Agent, NEW r, Finish(a, r), Traced(r, issued, buried), issued' = issued,
             crdt' = [crdt EXCEPT ![a] = r]
      PROVE  AppliedWereSet' /\ AppliedIsMap'
    <2>1. r.entries \in SUBSET issued /\ IsFiniteSet(r.entries)
        BY <1>5, FS_Subset DEF Few, Traced
    <2>2. /\ applied' = [applied EXCEPT ![a] = Settings(r.entries)]
          /\ beat' = [beat EXCEPT ![a] = Idle]
        BY <1>5 DEF Finish
    <2>3. AppliedWereSet'
        <3> SUFFICES ASSUME NEW b \in Agent, NEW k \in Key, applied'[b][k] # Unset
                     PROVE  WasSet(issued, k, applied'[b][k])
            BY <1>5 DEF AppliedWereSet
        <3>1. CASE b = a
            <4>1. applied'[b] = Settings(r.entries)
                BY <1>1, <2>2, <3>1
            <4>2. PICK E : E = r.entries
                OBVIOUS
            <4>3. E \in SUBSET issued /\ IsFiniteSet(E) /\ applied'[b][k] = Settings(E)[k] /\ Settings(E)[k] # Unset
                BY <2>1, <4>1, <4>2
            <4>4. WasSet(issued, k, Settings(E)[k])
                BY <1>1, <4>3, SettingsWereSet
            <4> QED BY <4>3, <4>4
        <3>2. CASE b # a
            BY <1>1, <2>2, <3>2 DEF AppliedWereSet
        <3> QED BY <3>1, <3>2
    <2>4. AppliedIsMap'
        <3> SUFFICES ASSUME NEW b \in Agent, beat'[b].at \in {"idle", "pulled"}
                     PROVE  applied'[b] = Settings(crdt'[b].entries)
            BY DEF AppliedIsMap
        <3>1. CASE b = a
            BY <1>1, <1>5, <2>2, <3>1
        <3>2. CASE b # a
            BY <1>1, <1>5, <2>2, <3>2 DEF AppliedIsMap
        <3> QED BY <3>1, <3>2
    <2> QED BY <2>3, <2>4
<1>6. ASSUME NEW a \in Agent, beat'[a].at \in {"posted", "answered"}, applied' = applied,
             \A b \in Agent \ {a} : beat'[b] = beat[b] /\ crdt'[b] = crdt[b]
      PROVE  AppliedWereSet' /\ AppliedIsMap'
    <2>1. AppliedWereSet'
        BY <1>2, <1>6 DEF AppliedWereSet, WasSet
    <2>2. AppliedIsMap'
        <3> SUFFICES ASSUME NEW b \in Agent, beat'[b].at \in {"idle", "pulled"}
                     PROVE  applied'[b] = Settings(crdt'[b].entries)
            BY DEF AppliedIsMap
        <3>1. b # a /\ beat'[b] = beat[b]
            BY <1>1, <1>6
        <3> QED BY <1>6, <3>1 DEF AppliedIsMap
    <2> QED BY <2>1, <2>2
<1>7. ASSUME NEW a \in Agent, Heartbeat(a) PROVE AppliedWereSet' /\ AppliedIsMap'
    <2>1. Traced(crdt[a], issued, buried) /\ Traced(beat[a].snapshot, issued, buried)
        BY <1>1 DEF IInv, AllTraced
    <2>2. \A r \in Merges(crdt[a], beat[a].snapshot) : Traced(r, issued, buried)
        BY <2>1, TracedMerge
    <2>3. CASE Pull(a)
        <3>1. /\ beat[a].at = "idle" /\ UNCHANGED <<crdt, applied>>
              /\ beat' = [beat EXCEPT ![a] = [at |-> "pulled", snapshot |-> crdt[Server]]]
            BY <2>3 DEF Pull
        <3>2. AppliedWereSet'
            BY <1>2, <3>1 DEF AppliedWereSet, WasSet
        <3>3. ASSUME NEW b \in Agent, beat'[b].at \in {"idle", "pulled"} PROVE beat[b].at \in {"idle", "pulled"}
            BY <1>1, <3>1, <3>3
        <3> QED BY <3>1, <3>2, <3>3 DEF AppliedIsMap
    <2>4. CASE MergePulled(a)
        <3>1. PICK r \in Merges(crdt[a], beat[a].snapshot) :
                  /\ crdt' = [crdt EXCEPT ![a] = r]
                  /\ \/ /\ beat' = [beat EXCEPT ![a] = [at |-> "posted", snapshot |-> r]]
                        /\ applied' = applied
                     \/ Finish(a, r)
            BY <2>4 DEF MergePulled
        <3>2. issued' = issued /\ Traced(r, issued, buried)
            BY <2>2, <2>4 DEF MergePulled, history
        <3>3. \A b \in Agent \ {a} : crdt'[b] = crdt[b]
            BY <1>1, <3>1
        <3>4. CASE Finish(a, r)
            BY <1>5, <3>1, <3>2, <3>4
        <3>5. CASE beat' = [beat EXCEPT ![a] = [at |-> "posted", snapshot |-> r]] /\ applied' = applied
            <4>1. beat'[a].at = "posted" /\ \A b \in Agent \ {a} : beat'[b] = beat[b]
                BY <1>1, <3>5
            <4> QED BY <1>6, <3>3, <3>5, <4>1
        <3> QED BY <3>1, <3>4, <3>5
    <2>5. CASE Serve(a)
        <3>1. /\ applied' = applied
              /\ beat' = [beat EXCEPT ![a] = [at |-> "answered", snapshot |-> crdt'[Server]]]
            BY <2>5 DEF Serve
        <3>2. \E s : crdt' = [crdt EXCEPT ![Server] = s]
            BY <2>5 DEF Serve, MergeAndSave
        <3>3. \A b \in Agent \ {a} : crdt'[b] = crdt[b]
            BY <1>1, <3>2
        <3>4. beat'[a].at = "answered" /\ \A b \in Agent \ {a} : beat'[b] = beat[b]
            BY <1>1, <3>1
        <3> QED BY <1>6, <3>1, <3>3, <3>4
    <2>6. CASE MergeAnswer(a)
        <3>1. PICK r \in Merges(crdt[a], beat[a].snapshot) :
                  crdt' = [crdt EXCEPT ![a] = r] /\ Finish(a, r)
            BY <2>6 DEF MergeAnswer
        <3>2. issued' = issued /\ Traced(r, issued, buried)
            BY <2>2, <2>6 DEF MergeAnswer, history
        <3> QED BY <1>5, <3>1, <3>2
    <2>7. CASE GiveUp(a)
        <3>1. Finish(a, crdt[a]) /\ issued' = issued /\ crdt' = [crdt EXCEPT ![a] = crdt[a]]
            BY <1>1, <2>7 DEF GiveUp, history
        <3> QED BY <1>5, <2>1, <3>1
    <2>8. CASE RestartAgent(a)
        <3>1. /\ crdt' = [crdt EXCEPT ![a] = EmptyReplica]
              /\ Finish(a, EmptyReplica) /\ issued' = issued
            BY <2>8, NothingSet DEF RestartAgent, Finish, EmptyReplica, history
        <3> QED BY <1>5, <3>1, EmptyTraced
    <2> QED BY <1>7, <2>3, <2>4, <2>5, <2>6, <2>7, <2>8 DEF Heartbeat
<1>8. CASE UNCHANGED vars
    BY <1>3, <1>8 DEF vars
<1> QED BY <1>3, <1>4, <1>7, <1>8 DEF Next

(* A proxy is never given a setting that nobody set, and between two       *)
(* heartbeats it has just what the agent's map says.                       *)
THEOREM ProxyHasTheMap == Spec => []AppliedWereSet /\ []AppliedIsMap
<1>1. Init => AppliedWereSet /\ AppliedIsMap
    <2> SUFFICES ASSUME Init PROVE AppliedWereSet /\ AppliedIsMap
        OBVIOUS
    <2>1. ASSUME NEW a \in Agent PROVE applied[a] = [k \in Key |-> Unset] /\ crdt[a].entries = {}
        BY DEF Init, EmptyReplica, Replicas
    <2>2. AppliedWereSet
        BY <2>1 DEF AppliedWereSet
    <2> QED BY <2>1, <2>2, NothingSet DEF AppliedIsMap
<1>2. Init => Shown
    BY DEF Init, Shown
<1> QED BY <1>1, <1>2, InitFew, FewStep, ShownStep, ProxyStep, Inductive, PTL DEF Spec

-----------------------------------------------------------------------------
(* What one heartbeat achieves, as long as the caps hold all that is ever  *)
(* written and no tag is issued twice.                                     *)

RoomForAll ==
    MaxWrites <= MAX_TOMBSTONES /\ MaxWrites <= MAX_KEYS /\ MaxWrites <= MAX_ENTRIES_PER_KEY

(* What an agent has posted is its map, and an answer knows all of it.     *)
RoundTrip ==
    \A a \in Agent : /\ beat[a].at = "posted" => beat[a].snapshot = crdt[a]
                     /\ beat[a].at = "answered" => Behind(crdt[a], beat[a].snapshot)

(* No map and no snapshot on its way shows what it knows to be removed.    *)
RemovedHidden ==
    ~ reissued => /\ \A r \in Replicas : Clean(crdt[r])
                  /\ \A a \in Agent : Clean(beat[a].snapshot)

(* A heartbeat that runs to its end leaves the agent with the very map the *)
(* dashboard answered with, and its proxy with that map's settings.        *)
HeartbeatSyncs ==
    [][\A a \in Agent : MergeAnswer(a) /\ ~ reissued =>
          /\ crdt'[a] = beat[a].snapshot
          /\ applied'[a] = Settings(beat[a].snapshot.entries)]_vars

LEMMA MergeJoins ==
    ASSUME IInv, Few, RoomForAll, NEW a, NEW b,
           Traced(a, issued, buried), Traced(b, issued, buried), NEW r \in Merges(a, b)
    PROVE  r = Join(a, b)
<1> DEFINE E == a.entries \cup b.entries
           T == a.tombstones \cup b.tombstones
<1>1. E \in SUBSET issued /\ T \in SUBSET TagsOf(issued)
    BY DEF Traced, IInv, HistorySound, TagsOf
<1>2. /\ UNION {s.entries : s \in {a, b}} = E
      /\ UNION {s.tombstones : s \in {a, b}} = T
    OBVIOUS
<1>3. /\ a \in Replica /\ b \in Replica
      /\ a.entries \subseteq E /\ b.entries \subseteq E /\ a.tombstones \subseteq T /\ b.tombstones \subseteq T
    BY DEF Traced
<1> HIDE DEF E, T
<1>4. IsFiniteSet(issued) /\ Cardinality(issued) <= MaxWrites /\ MaxWrites \in Nat
    BY ConfigAssumption DEF Few
<1>5. /\ Cardinality(T) <= MAX_TOMBSTONES /\ IsFiniteSet(T) /\ IsFiniteSet(E)
      /\ Cardinality(KeysOf(E)) <= MAX_KEYS
      /\ \A k : Cardinality(At(E, k)) <= MAX_ENTRIES_PER_KEY
    BY <1>1, <1>4, PartsOfFew DEF RoomForAll
<1>6. Fits({a, b})
    BY <1>2, <1>5 DEF Fits
<1>7. Finite(a) /\ Finite(b)
    BY <1>3, <1>5, FS_Subset DEF Finite
<1> QED BY <1>3, <1>6, <1>7, MergeWithinCaps

(* A write that does not use a tag again hides what it buries. *)
LEMMA WriteClean ==
    ASSUME IInv, NEW r, Traced(r, issued, buried), Clean(r), ~ reissued, NEW k
    PROVE  /\ Clean(DeleteKey(r, k))
           /\ \A v, t : t \notin TagsOf(issued) => Clean(SetKey(r, k, v, t))
<1> DEFINE T == r.tombstones \cup TagsOf(At(r.entries, k))
<1>1. GC(T) \subseteq T /\ T \subseteq TagsOf(issued)
    BY GCSubset DEF Traced, IInv, HistorySound, TagsOf, At
<1>2. ASSUME NEW e \in r.entries \ At(r.entries, k) PROVE e.tag \notin GC(T)
    <2>1. e.tag \notin r.tombstones
        BY DEF Clean, TagsOf
    <2>2. ASSUME NEW f \in At(r.entries, k), f.tag = e.tag PROVE FALSE
        <3>1. f \in issued /\ e \in issued /\ e # f
            BY DEF Traced, At
        <3> QED BY <2>2, <3>1 DEF IInv, HistorySound, Coherent
    <2> QED BY <1>1, <2>1, <2>2 DEF TagsOf
<1>3. Clean(DeleteKey(r, k))
    BY <1>2 DEF DeleteKey, Clean, TagsOf
<1>4. ASSUME NEW v, NEW t, t \notin TagsOf(issued) PROVE Clean(SetKey(r, k, v, t))
    <2>1. PICK s : s = SetKey(r, k, v, t)
        OBVIOUS
    <2>2. /\ s.tombstones = GC(T)
          /\ \A e \in s.entries : e \in r.entries \ At(r.entries, k) \/ e.tag = t
        BY <2>1 DEF SetKey
    <2>3. \A e \in s.entries : e.tag \notin GC(T)
        BY <1>1, <1>2, <1>4, <2>2
    <2> QED BY <2>1, <2>2, <2>3 DEF Clean, TagsOf
<1> QED BY <1>3, <1>4

LEMMA EmptyClean == Clean(EmptyReplica)
BY DEF Clean, EmptyReplica, TagsOf

LEMMA HiddenStep ==
    ASSUME IInv, RemovedHidden, [Next]_vars
    PROVE  RemovedHidden'
<1> SUFFICES ASSUME ~ reissued'
             PROVE  /\ \A r \in Replicas : Clean(crdt'[r])
                    /\ \A a \in Agent : Clean(beat'[a].snapshot)
    BY DEF RemovedHidden
<1>1. ~ reissued
    BY DEF Next, Dashboard, SetSetting, SetDropped, RemoveSetting, Flush, DebounceElapses, Restart,
           Heartbeat, Pull, MergePulled, Serve, MergeAnswer, GiveUp, RestartAgent, history, vars
<1>2. /\ crdt \in [Replicas -> Replica] /\ beat \in [Agent -> Beat]
      /\ Server \in Replicas /\ Agent \subseteq Replicas
      /\ \A r \in Replicas : Clean(crdt[r]) /\ Traced(crdt[r], issued, buried)
      /\ \A a \in Agent : Clean(beat[a].snapshot) /\ Traced(beat[a].snapshot, issued, buried)
    BY <1>1 DEF IInv, AllTraced, Replicas, RemovedHidden
<1>3. ASSUME NEW q \in Replicas, NEW s, Clean(s), crdt' = [crdt EXCEPT ![q] = s],
             \A a \in Agent : \/ beat'[a].snapshot \in {beat[a].snapshot, s}
                              \/ beat'[a].snapshot = EmptyReplica
      PROVE  /\ \A r \in Replicas : Clean(crdt'[r])
             /\ \A a \in Agent : Clean(beat'[a].snapshot)
    <2>1. \A r \in Replicas : Clean(crdt'[r])
        BY <1>2, <1>3
    <2>2. ASSUME NEW a \in Agent PROVE Clean(beat'[a].snapshot)
        BY <1>2, <1>3, EmptyClean
    <2> QED BY <2>1, <2>2
<1>4. CASE UNCHANGED <<crdt, beat>>
    BY <1>2, <1>4
<1>5. ASSUME NEW k \in Key, NEW v \in Value, SetSetting(k, v)
      PROVE  /\ \A r \in Replicas : Clean(crdt'[r])
             /\ \A a \in Agent : Clean(beat'[a].snapshot)
    <2>1. PICK s : s = SetKey(crdt[Server], k, v, NextTag)
        OBVIOUS
    <2>2. crdt' = [crdt EXCEPT ![Server] = s] /\ UNCHANGED beat /\ NextTag \notin TagsOf(issued)
        BY <1>5, <2>1 DEF SetSetting
    <2>3. Clean(s)
        BY <1>1, <1>2, <2>1, <2>2, WriteClean
    <2> QED BY <1>2, <1>3, <2>2, <2>3
<1>6. ASSUME NEW k \in Key, RemoveSetting(k)
      PROVE  /\ \A r \in Replicas : Clean(crdt'[r])
             /\ \A a \in Agent : Clean(beat'[a].snapshot)
    <2>1. PICK s : s = DeleteKey(crdt[Server], k)
        OBVIOUS
    <2>2. crdt' = [crdt EXCEPT ![Server] = s] /\ UNCHANGED beat
        BY <1>6, <2>1 DEF RemoveSetting
    <2>3. Clean(s)
        BY <1>1, <1>2, <2>1, WriteClean
    <2> QED BY <1>2, <1>3, <2>2, <2>3
<1>7. ASSUME Restart
      PROVE  /\ \A r \in Replicas : Clean(crdt'[r])
             /\ \A a \in Agent : Clean(beat'[a].snapshot)
    <2>1. PICK s : /\ s \in Merges(EmptyReplica, disk) \/ s = EmptyReplica
                   /\ crdt' = [crdt EXCEPT ![Server] = s]
        BY <1>7 DEF Restart, Loads
    <2>2. UNCHANGED beat /\ EmptyReplica \in Replica /\ disk \in Replica
        BY <1>7 DEF Restart, IInv, AllTraced, Traced, EmptyReplica, Replica
    <2>3. Clean(s)
        BY <2>1, <2>2, MergesContents DEF Clean, EmptyReplica, TagsOf
    <2> QED BY <1>2, <1>3, <2>1, <2>2, <2>3
<1>8. ASSUME NEW a \in Agent, Heartbeat(a)
      PROVE  /\ \A r \in Replicas : Clean(crdt'[r])
             /\ \A p \in Agent : Clean(beat'[p].snapshot)
    <2>1. Idle.snapshot = EmptyReplica
        BY DEF Idle
    <2>2. \A q \in Replicas : crdt[q] \in Replica /\ beat[a].snapshot \in Replica
        BY <1>2 DEF Traced
    <2>3. CASE Pull(a)
        <3>1. /\ UNCHANGED crdt
              /\ beat' = [beat EXCEPT ![a] = [at |-> "pulled", snapshot |-> crdt[Server]]]
            BY <2>3 DEF Pull
        <3>2. \A p \in Agent : beat'[p].snapshot \in {beat[p].snapshot, crdt[Server]}
            BY <1>2, <3>1
        <3> QED BY <1>2, <3>1, <3>2
    <2>4. CASE MergePulled(a) \/ MergeAnswer(a)
        <3>1. PICK s \in Merges(crdt[a], beat[a].snapshot) :
                  /\ crdt' = [crdt EXCEPT ![a] = s]
                  /\ \/ beat' = [beat EXCEPT ![a] = [at |-> "posted", snapshot |-> s]]
                     \/ beat' = [beat EXCEPT ![a] = Idle]
            BY <2>4 DEF MergePulled, MergeAnswer, Finish
        <3>2. Clean(s)
            BY <1>2, <2>2, <3>1, MergesContents
        <3>3. \A p \in Agent : beat'[p].snapshot \in {beat[p].snapshot, s, EmptyReplica}
            BY <1>2, <2>1, <3>1
        <3> QED BY <1>2, <1>3, <3>1, <3>2, <3>3
    <2>5. CASE Serve(a)
        <3>1. MergeAndSave(beat[a].snapshot)
            BY <2>5 DEF Serve
        <3>2. PICK s \in Merges(crdt[Server], beat[a].snapshot) : crdt' = [crdt EXCEPT ![Server] = s]
            BY <1>2, <2>2, <3>1, MergeAndSaveMerges
        <3>3. Clean(s) /\ crdt'[Server] = s
            BY <1>2, <2>2, <3>2, MergesContents
        <3>4. \A p \in Agent : beat'[p].snapshot \in {beat[p].snapshot, s}
            BY <1>2, <2>5, <3>3 DEF Serve
        <3> QED BY <1>2, <1>3, <3>2, <3>3, <3>4
    <2>6. CASE GiveUp(a) \/ RestartAgent(a)
        <3>1. /\ beat' = [beat EXCEPT ![a] = Idle]
              /\ crdt' = crdt \/ crdt' = [crdt EXCEPT ![a] = EmptyReplica]
            BY <2>6 DEF GiveUp, RestartAgent, Finish
        <3>2. \A p \in Agent : beat'[p].snapshot \in {beat[p].snapshot, EmptyReplica}
            BY <1>2, <2>1, <3>1
        <3> QED BY <1>2, <3>1, <3>2, EmptyClean
    <2> QED BY <1>8, <2>3, <2>4, <2>5, <2>6 DEF Heartbeat
<1>9. (\E k \in Key : SetDropped(k)) \/ Flush \/ DebounceElapses \/ UNCHANGED vars
          => UNCHANGED <<crdt, beat>>
    BY DEF SetDropped, Flush, DebounceElapses, vars
<1> QED BY <1>4, <1>5, <1>6, <1>7, <1>8, <1>9 DEF Next, Dashboard

LEMMA RoundTripStep ==
    ASSUME IInv, Few, RoomForAll, RoundTrip, [Next]_vars
    PROVE  RoundTrip'
<1>1. /\ crdt \in [Replicas -> Replica] /\ beat \in [Agent -> Beat]
      /\ Server \in Replicas /\ Agent \subseteq Replicas /\ Server \notin Agent
      /\ \A r \in Replicas : Traced(crdt[r], issued, buried)
      /\ \A a \in Agent : Traced(beat[a].snapshot, issued, buried)
    BY ConfigAssumption DEF IInv, AllTraced, Replicas
<1>2. CASE UNCHANGED beat /\ \A a \in Agent : crdt'[a] = crdt[a]
    BY <1>2 DEF RoundTrip
<1>3. ASSUME Dashboard PROVE UNCHANGED beat /\ \A a \in Agent : crdt'[a] = crdt[a]
    <2>1. UNCHANGED beat /\ (UNCHANGED crdt \/ \E s : crdt' = [crdt EXCEPT ![Server] = s])
        BY <1>3 DEF Dashboard, SetSetting, SetDropped, RemoveSetting, Flush, DebounceElapses, Restart
    <2> QED BY <1>1, <2>1
<1>4. ASSUME NEW a \in Agent, \A b \in Agent \ {a} : beat'[b] = beat[b] /\ crdt'[b] = crdt[b],
             beat'[a].at = "posted" => beat'[a].snapshot = crdt'[a],
             beat'[a].at = "answered" => Behind(crdt'[a], beat'[a].snapshot)
      PROVE  RoundTrip'
    <2> SUFFICES ASSUME NEW b \in Agent
                 PROVE  /\ beat'[b].at = "posted" => beat'[b].snapshot = crdt'[b]
                        /\ beat'[b].at = "answered" => Behind(crdt'[b], beat'[b].snapshot)
        BY DEF RoundTrip, Behind, Known
    <2>1. CASE b = a
        BY <1>4, <2>1
    <2>2. CASE b # a
        BY <1>4, <2>2 DEF RoundTrip
    <2> QED BY <2>1, <2>2
<1>5. ASSUME NEW a \in Agent, Heartbeat(a) PROVE RoundTrip'
    <2>1. CASE Pull(a) \/ GiveUp(a) \/ RestartAgent(a) \/ MergeAnswer(a)
        <3>1. /\ beat'[a].at \in {"idle", "pulled"}
              /\ \A b \in Agent \ {a} : beat'[b] = beat[b] /\ crdt'[b] = crdt[b]
            BY <1>1, <2>1 DEF Pull, GiveUp, RestartAgent, MergeAnswer, Finish, Idle
        <3> QED BY <1>4, <3>1
    <2>2. CASE MergePulled(a)
        <3>1. PICK r \in Merges(crdt[a], beat[a].snapshot) :
                  /\ crdt' = [crdt EXCEPT ![a] = r]
                  /\ \/ beat' = [beat EXCEPT ![a] = [at |-> "posted", snapshot |-> r]]
                     \/ beat' = [beat EXCEPT ![a] = Idle]
            BY <2>2 DEF MergePulled, Finish
        <3>2. /\ \A b \in Agent \ {a} : beat'[b] = beat[b] /\ crdt'[b] = crdt[b]
              /\ crdt'[a] = r
              /\ beat'[a] = [at |-> "posted", snapshot |-> r] \/ beat'[a] = Idle
            BY <1>1, <3>1
        <3>3. /\ beat'[a].at # "answered"
              /\ beat'[a].at = "posted" => beat'[a].snapshot = r
            BY <3>2 DEF Idle
        <3> QED BY <1>4, <3>2, <3>3
    <2>3. CASE Serve(a)
        <3>1. MergeAndSave(beat[a].snapshot) /\ beat[a].at = "posted"
            BY <2>3 DEF Serve
        <3>2. PICK s \in Merges(crdt[Server], beat[a].snapshot) : crdt' = [crdt EXCEPT ![Server] = s]
            BY <1>1, <3>1, MergeAndSaveMerges DEF Traced
        <3>3. s = Join(crdt[Server], beat[a].snapshot)
            BY <1>1, MergeJoins
        <3>4. beat[a].snapshot = crdt[a]
            BY <3>1 DEF RoundTrip
        <3>5. Behind(crdt[a], s)
            BY <3>3, <3>4, JoinKnows DEF Behind
        <3>6. /\ \A b \in Agent : crdt'[b] = crdt[b]
              /\ crdt'[Server] = s
            BY <1>1, <3>2
        <3>7. /\ beat'[a] = [at |-> "answered", snapshot |-> s]
              /\ \A b \in Agent \ {a} : beat'[b] = beat[b]
            BY <1>1, <2>3, <3>6 DEF Serve
        <3> QED BY <1>4, <3>5, <3>6, <3>7
    <2> QED BY <1>5, <2>1, <2>2, <2>3 DEF Heartbeat
<1>6. UNCHANGED vars => UNCHANGED <<crdt, beat>>
    BY DEF vars
<1> QED BY <1>2, <1>3, <1>5, <1>6 DEF Next

(* A heartbeat that reaches its end makes the agent's map the dashboard's, *)
(* as it was when it answered, whatever both sides had missed, lost in     *)
(* crashes or changed meanwhile.                                           *)
THEOREM HeartbeatsSync == ASSUME RoomForAll PROVE Spec => HeartbeatSyncs
<1>1. Init => RemovedHidden /\ RoundTrip /\ Shown
    <2> SUFFICES ASSUME Init PROVE RemovedHidden /\ RoundTrip /\ Shown
        OBVIOUS
    <2>1. \A a \in Agent : beat[a].at = "idle" /\ beat[a].snapshot = EmptyReplica
        BY DEF Init, Idle
    <2>2. \A r \in Replicas : crdt[r] = EmptyReplica
        BY DEF Init
    <2>3. Shown
        BY DEF Init, Shown
    <2> QED BY <2>1, <2>2, <2>3, EmptyClean DEF RemovedHidden, RoundTrip
<1>2. ASSUME IInv, Few, Shown, RemovedHidden, RoundTrip, NEW a \in Agent, MergeAnswer(a), ~ reissued
      PROVE  /\ crdt'[a] = beat[a].snapshot
             /\ applied'[a] = Settings(beat[a].snapshot.entries)
    <2>1. PICK r \in Merges(crdt[a], beat[a].snapshot) :
              crdt' = [crdt EXCEPT ![a] = r] /\ Finish(a, r)
        BY <1>2 DEF MergeAnswer
    <2>2. PICK s : s = beat[a].snapshot
        OBVIOUS
    <2>3. /\ Traced(crdt[a], issued, buried) /\ Traced(s, issued, buried)
          /\ crdt[a] \in Replica /\ s \in Replica /\ Clean(s)
          /\ a \in Replicas /\ crdt \in [Replicas -> Replica]
        BY <1>2, <2>2 DEF IInv, AllTraced, Replicas, Traced, RemovedHidden
    <2>4. r = Join(crdt[a], s)
        BY <1>2, <2>1, <2>2, <2>3, MergeJoins
    <2>5. Known(r) = Known(s) /\ r.tombstones = s.tombstones
        <3>1. Behind(crdt[a], s)
            <4>1. beat[a].at = "answered"
                BY <1>2 DEF MergeAnswer
            <4> QED BY <1>2, <2>2, <4>1 DEF RoundTrip
        <3>2. PICK m : m = crdt[a]
            OBVIOUS
        <3>3. Known(r) = Known(m) \cup Known(s) /\ r.tombstones = m.tombstones \cup s.tombstones
            BY <2>4, <3>2, JoinKnows
        <3>4. Known(m) \subseteq Known(s) /\ m.tombstones \subseteq s.tombstones
            BY <3>1, <3>2 DEF Behind
        <3> QED BY <3>3, <3>4
    <2>6. r \in Replica /\ Clean(r) /\ Traced(r, issued, buried)
        BY <2>1, <2>2, <2>3, MergesContents, TracedMerge
    <2>7. Coherent(r.entries \cup s.entries)
        BY <1>2, <2>3, <2>6 DEF Traced, IInv, HistorySound, Coherent
    <2>8. r = s
        BY <2>3, <2>5, <2>6, <2>7, SameKnowledgeSameMap
    <2>9. applied' = [applied EXCEPT ![a] = Settings(r.entries)]
        BY <2>1 DEF Finish
    <2>10. applied'[a] = Settings(r.entries)
        BY <1>2, <2>9 DEF Shown
    <2> QED BY <2>1, <2>2, <2>3, <2>8, <2>10
<1>3. IInv /\ Few /\ Shown /\ RemovedHidden /\ RoundTrip /\ [Next]_vars
          => [\A a \in Agent : MergeAnswer(a) /\ ~ reissued =>
                 /\ crdt'[a] = beat[a].snapshot
                 /\ applied'[a] = Settings(beat[a].snapshot.entries)]_vars
    BY <1>2
<1> QED BY <1>1, <1>3, InitFew, FewStep, ShownStep, HiddenStep, RoundTripStep, Inductive, PTL
        DEF Spec, HeartbeatSyncs
=============================================================================
