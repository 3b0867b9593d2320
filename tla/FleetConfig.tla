---------------------------- MODULE FleetConfig ----------------------------
(***************************************************************************)
(* The fleet configuration: FleetConfigMap (propagul/mesh/config.py), an   *)
(* OR-Map that the dashboard keeps on disk and every agent keeps in        *)
(* memory, and the part of the agent's heartbeat (propagul/mesh/agent.py)  *)
(* that pulls it, pushes it back and applies it to the agent's proxy.      *)
(*                                                                         *)
(* Only the dashboard writes settings.  Its HTTP handlers are not in the   *)
(* repository: GET /mesh/config is taken to return snapshot(), and POST    *)
(* /mesh/config/sync to merge() the body and return snapshot(), which is   *)
(* what _sync_config expects of them.  A missing file and a file with an   *)
(* empty snapshot load alike, so disk starts as the empty replica.         *)
(***************************************************************************)
EXTENDS ORMap

CONSTANTS
    Server,         \* the dashboard; its node id authors every tag
    Agent,          \* mesh agents
    Unset,          \* no override: the proxy leaves the backend's default
    Invalid,        \* values that fail validation in _apply_fleet_settings
    MaxWrites,      \* bound: settings written, in all
    MaxCrashes      \* bound: crashes of the dashboard and the agents, in all

ASSUME ConfigAssumption == /\ Server \in Node
                           /\ Server \notin Agent
                           /\ Unset \notin Value
                           /\ MaxWrites \in Nat
                           /\ MaxCrashes \in Nat

VARIABLES
    crdt,       \* crdt[r]: the _crdt of the dashboard's or an agent's map
    seq,        \* the dashboard's _seq
    disk,       \* the snapshot in its file
    dirty,      \* its _dirty
    recent,     \* is its last save less than debounce_seconds old?
    unread,     \* history: the file could not be loaded, and is still there
    beat,       \* beat[a]: where a's _sync_config stands, and the snapshot
                \*          that is on its way to a or to the dashboard
    applied,    \* applied[a]: the settings a's ProxyConfig holds
    crashes,    \* crashes so far
    issued,     \* history: every entry ever set
    buried,     \* history: every entry a set or a removal ever replaced
    reissued    \* history: was a tag ever issued a second time?

store == <<seq, disk, dirty, recent, unread>>
history == <<issued, buried, reissued>>
vars == <<crdt, store, beat, applied, crashes, history>>

Replicas == Agent \cup {Server}

Idle == [at |-> "idle", snapshot |-> EmptyReplica]

(* What the proxy is given: the winner of each key, if it is valid. *)
Settings(E) ==
    [k \in Key |-> IF k \in KeysOf(E) /\ Winner(E, k).value \notin Invalid
                   THEN Winner(E, k).value ELSE Unset]

Init ==
    /\ crdt = [r \in Replicas |-> EmptyReplica]
    /\ seq = 0
    /\ disk = EmptyReplica
    /\ dirty = FALSE
    /\ recent = FALSE
    /\ unread = FALSE
    /\ beat = [a \in Agent |-> Idle]
    /\ applied = [a \in Agent |-> [k \in Key |-> Unset]]
    /\ crashes = 0
    /\ issued = {}
    /\ buried = {}
    /\ reissued = FALSE

-----------------------------------------------------------------------------
(* The dashboard's map and its file. *)

(* save_to_disk() writes a temporary file and renames it, so the file is   *)
(* replaced as a whole or, if anything fails, not at all.                  *)
SaveSucceeds(r) ==
    /\ disk' = r
    /\ dirty' = FALSE
    /\ recent' = TRUE
    /\ unread' = FALSE

SaveFails ==
    /\ dirty' = TRUE
    /\ UNCHANGED <<disk, recent, unread>>

(* _auto_save() of the map that is now r: at most one save in each         *)
(* debounce interval, and none on a timer.                                 *)
AutoSave(r) ==
    \/ /\ recent
       /\ dirty' = TRUE
       /\ UNCHANGED <<disk, recent, unread>>
    \/ /\ ~ recent
       /\ SaveSucceeds(r) \/ SaveFails

(* Slip: the counter is raised only after it was read. *)
NextTagFromZero == <<Server, seq>>

NextTag == <<Server, seq + 1>>

(* set_fleet_setting(), set_desired_model(), set_node_preference() and     *)
(* set_model_setting().                                                    *)
SetSetting(k, v) ==
    LET mine == crdt[Server]
        entry == [key |-> k, value |-> v, tag |-> NextTag]
    IN  /\ Cardinality(issued) < MaxWrites
        /\ Accepts(mine, k)
        /\ seq' = seq + 1
        /\ crdt' = [crdt EXCEPT ![Server] = SetKey(@, k, v, NextTag)]
        /\ AutoSave(crdt'[Server])
        /\ issued' = issued \cup {entry}
        /\ buried' = buried \cup At(mine.entries, k)
        /\ reissued' = (reissued \/ NextTag \in TagsOf(issued))
        /\ UNCHANGED <<beat, applied, crashes>>

(* The same calls when the map is full: the set is dropped, yet a save     *)
(* follows.                                                                *)
SetDropped(k) ==
    /\ ~ Accepts(crdt[Server], k)
    /\ AutoSave(crdt[Server])
    /\ UNCHANGED <<crdt, seq, beat, applied, crashes, history>>

(* remove_desired_model(), and set_model_setting() with an empty value. *)
RemoveSetting(k) ==
    /\ crdt' = [crdt EXCEPT ![Server] = DeleteKey(@, k)]
    /\ AutoSave(crdt'[Server])
    /\ buried' = buried \cup At(crdt[Server].entries, k)
    /\ UNCHANGED <<seq, beat, applied, crashes, issued, reissued>>

Flush ==
    /\ dirty
    /\ SaveSucceeds(crdt[Server]) \/ SaveFails
    /\ UNCHANGED <<crdt, seq, beat, applied, crashes, history>>

DebounceElapses ==
    /\ recent
    /\ recent' = FALSE
    /\ UNCHANGED <<crdt, seq, disk, dirty, unread, beat, applied, crashes, history>>

(* Slip: the tombstones in the file are not loaded. *)
LoadsEntries == Merges(EmptyReplica, [disk EXCEPT !.tombstones = {}])

(* load_from_disk() merges the file into the empty map. *)
Loads == Merges(EmptyReplica, disk)

(* The dashboard dies, at any point of a save, and starts again with a new *)
(* FleetConfigMap(node_id = 0): _seq starts over.  A file that cannot be   *)
(* read, or makes no sense, is logged and left where it is, and the map    *)
(* stays empty; the next save replaces the file.                           *)
Restart ==
    /\ crashes < MaxCrashes
    /\ crashes' = crashes + 1
    /\ \/ /\ \E r \in Loads : crdt' = [crdt EXCEPT ![Server] = r]
          /\ unread' = FALSE
       \/ /\ crdt' = [crdt EXCEPT ![Server] = EmptyReplica]
          /\ unread' = TRUE
    /\ seq' = 0
    /\ dirty' = FALSE
    /\ recent' = FALSE
    /\ UNCHANGED <<disk, beat, applied, history>>

-----------------------------------------------------------------------------
(* The agent's heartbeat. *)

(* Slip: a heartbeat that adds nothing does not touch the proxy. *)
FinishUnapplied(a, r) ==
    /\ beat' = [beat EXCEPT ![a] = Idle]
    /\ applied' = [applied EXCEPT ![a] = IF r = crdt[a] THEN @ ELSE Settings(r.entries)]

(* The end of a heartbeat on every path, with the agent's map now r. *)
Finish(a, r) ==
    /\ beat' = [beat EXCEPT ![a] = Idle]
    /\ applied' = [applied EXCEPT ![a] = Settings(r.entries)]

(* The dashboard answers the GET. *)
Pull(a) ==
    /\ beat[a].at = "idle"
    /\ beat' = [beat EXCEPT ![a] = [at |-> "pulled", snapshot |-> crdt[Server]]]
    /\ UNCHANGED <<crdt, store, applied, crashes, history>>

(* The answer is merged and, if the agent now has any entry, its whole map *)
(* is posted.                                                              *)
MergePulled(a) ==
    /\ beat[a].at = "pulled"
    /\ \E r \in Merges(crdt[a], beat[a].snapshot) :
          /\ crdt' = [crdt EXCEPT ![a] = r]
          /\ \/ /\ r.entries # {}
                /\ beat' = [beat EXCEPT ![a] = [at |-> "posted", snapshot |-> r]]
                /\ UNCHANGED applied
             \/ /\ r.entries = {}
                /\ Finish(a, r)
    /\ UNCHANGED <<store, crashes, history>>

(* Slips: what a merge brings in is not saved; the map is replaced by what *)
(* was posted.                                                             *)
MergeUnsaved(theirs) ==
    /\ \E r \in Merges(crdt[Server], theirs) : crdt' = [crdt EXCEPT ![Server] = r]
    /\ UNCHANGED <<disk, dirty, recent, unread>>

MergeReplacing(theirs) ==
    /\ crdt' = [crdt EXCEPT ![Server] = theirs]
    /\ AutoSave(theirs)

(* merge() of the durable map saves if it added an entry: the tombstones   *)
(* that came along do not count.                                           *)
MergeAndSave(theirs) ==
    LET mine == crdt[Server]
    IN  \E A \in Adoptions(mine, theirs), B \in Absorptions(mine, theirs) :
           /\ crdt' = [crdt EXCEPT ![Server] =
                          Settled(mine.entries \cup A, mine.tombstones \cup B)]
           /\ IF A # {} THEN AutoSave(crdt'[Server])
                        ELSE UNCHANGED <<disk, dirty, recent, unread>>

(* The dashboard merges what was posted and answers with the result. *)
Serve(a) ==
    /\ beat[a].at = "posted"
    /\ MergeAndSave(beat[a].snapshot)
    /\ beat' = [beat EXCEPT ![a] = [at |-> "answered", snapshot |-> crdt'[Server]]]
    /\ UNCHANGED <<seq, applied, crashes, history>>

MergeAnswer(a) ==
    /\ beat[a].at = "answered"
    /\ \E r \in Merges(crdt[a], beat[a].snapshot) :
          /\ crdt' = [crdt EXCEPT ![a] = r]
          /\ Finish(a, r)
    /\ UNCHANGED <<store, crashes, history>>

(* A request or its answer is lost or late: the heartbeat goes on without. *)
GiveUp(a) ==
    /\ Finish(a, crdt[a])
    /\ UNCHANGED <<crdt, store, crashes, history>>

(* The agent's map lives in memory only. *)
RestartAgent(a) ==
    /\ crashes < MaxCrashes
    /\ crashes' = crashes + 1
    /\ crdt' = [crdt EXCEPT ![a] = EmptyReplica]
    /\ beat' = [beat EXCEPT ![a] = Idle]
    /\ applied' = [applied EXCEPT ![a] = [k \in Key |-> Unset]]
    /\ UNCHANGED <<store, history>>

-----------------------------------------------------------------------------

Dashboard ==
    \/ \E k \in Key, v \in Value : SetSetting(k, v)
    \/ \E k \in Key : SetDropped(k)
    \/ \E k \in Key : RemoveSetting(k)
    \/ Flush
    \/ DebounceElapses
    \/ Restart

Heartbeat(a) ==
    \/ Pull(a)
    \/ MergePulled(a)
    \/ Serve(a)
    \/ MergeAnswer(a)
    \/ GiveUp(a)
    \/ RestartAgent(a)

Next == Dashboard \/ \E a \in Agent : Heartbeat(a)

Spec == Init /\ [][Next]_vars

(* Agents keep beating, and no request fails for ever. *)
FairSpec ==
    /\ Spec
    /\ \A a \in Agent : /\ SF_vars(Pull(a)) /\ SF_vars(MergePulled(a))
                        /\ SF_vars(Serve(a)) /\ SF_vars(MergeAnswer(a))

-----------------------------------------------------------------------------

Beat == [at : {"idle", "pulled", "posted", "answered"}, snapshot : Replica]

(* Every variable has the shape the code gives it. *)
TypeOK ==
    /\ crdt \in [Replicas -> Replica]
    /\ seq \in Nat
    /\ disk \in Replica
    /\ dirty \in BOOLEAN
    /\ recent \in BOOLEAN
    /\ unread \in BOOLEAN
    /\ beat \in [Agent -> Beat]
    /\ applied \in [Agent -> [Key -> Value \cup {Unset}]]
    /\ crashes \in Nat
    /\ issued \subseteq Entry
    /\ buried \subseteq Entry
    /\ reissued \in BOOLEAN

(* "The dirty flag ensures no mutation is lost": as long as it is down, a  *)
(* crash of the dashboard loses no setting, whether an operator wrote it   *)
(* or an agent brought it back.                                            *)
CleanMeansSaved ==
    ~ dirty => TagsOf(crdt[Server].entries) \subseteq Known(disk)

(* The file runs ahead of the map only between a start that could not load *)
(* it and the next save, which gives up what it held: until then what it   *)
(* says is set is known, and what it says is removed stays removed, across *)
(* saves that fail, crashes and merges.                                    *)
FileBehindMap ==
    ~ unread => /\ Known(disk) \subseteq Known(crdt[Server])
                /\ disk.tombstones \subseteq crdt[Server].tombstones

(* The entries a step takes away from a replica. *)
Vanished(r) == crdt[r].entries \ crdt'[r].entries

(* "Survives network partitions, offline nodes, concurrent edits": at a    *)
(* replica that does not crash, a setting goes away only if an operator    *)
(* replaced or removed it; here, as long as no tag was issued twice.       *)
OnlyReplacedVanish ==
    [][~ reissued' /\ crashes' = crashes =>
          \A r \in Replicas : Vanished(r) \subseteq buried']_vars

(* "Config changes propagate to all nodes": in the end every proxy has the *)
(* dashboard's settings, and both sides know the same removals, also those *)
(* that the dashboard lost in a crash, or in a file it could not load, and *)
(* an agent brings back; if every agent is left with some setting to push. *)
SettingsReachProxies ==
    [](~ reissued) /\ <>[](\A a \in Agent : crdt[a].entries # {})
        => <>[](\A a \in Agent : /\ applied[a] = Settings(crdt[Server].entries)
                                 /\ crdt[a].tombstones = crdt[Server].tombstones)
=============================================================================
