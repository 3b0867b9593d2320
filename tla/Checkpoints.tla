----------------------------- MODULE Checkpoints -----------------------------
(* The LangGraph checkpointer (integrations/langgraph.py): a checkpoint is  *)
(* kept as several keys of a store, and every operation reads or writes     *)
(* them one by one while others run.  The store itself is GossipStore; here *)
(* each access is one step and the whole map reaches a peer now and then,   *)
(* which is taken to have room for it.  When the process is gone, the peer  *)
(* takes over with what it has.                                             *)
(*                                                                          *)
(* A value is the number of the checkpoint it belongs to, 0 if the key is   *)
(* absent.  The keys ts and versions are written like meta and never read:  *)
(* they are left out.                                                       *)
EXTENDS Naturals, Sequences

CONSTANTS
    Thread,
    Caller,             \* threads of the process that use the checkpointer
    Task,               \* tasks with pending writes
    max_history,
    MaxCheckpoints,     \* bound: checkpoints ever put
    MaxCalls,           \* bound: calls ever made
    MaxPushes,          \* bound: pushes that reach the peer
    MaxFaults           \* bound: keys lost to a full map, and crashes

ASSUME CheckpointsAssumption ==
    /\ max_history \in Nat \ {0}
    /\ {MaxCheckpoints, MaxCalls, MaxPushes, MaxFaults} \subseteq Nat

VARIABLES
    store,              \* the keys cp/..., and who has pending writes
    replica,            \* what the peer has of them
    checkpoint_counter,
    calls,              \* what each caller is doing
    made,               \* history: the checkpoints, in the order of their puts
    spoilt,             \* history: see Disturbs, for the store and the replica
    pruned,             \* history: threads that lost history to prune()
    spent               \* history: how much of each bound is used

vars == <<store, replica, checkpoint_counter, calls, made, spoilt, pruned, spent>>

Latest == <<"latest", 0>>
Id == <<"checkpoint_id", 0>>
Meta == <<"meta", 0>>
Parent == <<"parent", 0>>
History(slot) == <<"history", slot>>
Slots == {History(slot) : slot \in 0..(max_history - 1)}
Part == {Latest, Id, Meta, Parent} \cup Slots

Absent == [p \in Part |-> 0]

Idle == [kind |-> "idle"]

Init ==
    /\ store = [key |-> [t \in Thread |-> Absent], writes |-> [t \in Thread |-> {}]]
    /\ replica = store
    /\ checkpoint_counter = 0
    /\ calls = [c \in Caller |-> Idle]
    /\ made = <<>>
    /\ spoilt = [store |-> {}, replica |-> {}]
    /\ pruned = [store |-> {}, replica |-> {}]
    /\ spent = [calls |-> 0, pushes |-> 0, faults |-> 0]

-----------------------------------------------------------------------------
(* Which calls get in each other's way. *)

Writers == {"put", "delete", "copy"}

Writes(c, t) == calls[c].kind \in Writers /\ calls[c].thread = t
Written(t) == \E c \in Caller : Writes(c, t)
Uses(c, t) == Writes(c, t) \/ (calls[c].kind = "copy" /\ calls[c].source = t)

(* Another call uses the thread that a new one is about to write.          *)
Crosses(t) == \E c \in Caller : Uses(c, t)

(* What a new writer on thread t spoils: t, if another writer is under way *)
(* there, and the copies that are being made of t.                         *)
Disturbs(t) ==
    (IF Written(t) THEN {t} ELSE {})
      \cup {calls[c].thread : c \in {d \in Caller : calls[d].kind = "copy" /\ calls[d].source = t}}

(* The calls, once a writer of this kind has come to t: nothing that was   *)
(* there before it still runs alone.                                       *)
Crossed(kind, t) ==
    [c \in Caller |->
        CASE Uses(c, t) -> [calls[c] EXCEPT !.alone = FALSE]
          [] calls[c].kind = "get_tuple" /\ calls[c].thread = t ->
               [calls[c] EXCEPT !.alone = FALSE,
                                !.calm = @ /\ kind = "put" /\ ~ Written(t)]
          [] OTHER -> calls[c]]

Counted ==
    /\ spent.calls < MaxCalls
    /\ spent' = [spent EXCEPT !.calls = @ + 1]

Fault ==
    /\ spent.faults < MaxFaults
    /\ spent' = [spent EXCEPT !.faults = @ + 1]

Starts(c) == calls[c] = Idle /\ Counted

Spoil(threads) == spoilt' = [spoilt EXCEPT !.store = @ \cup threads]

Begin(c, call) == calls' = [Crossed(call.kind, call.thread) EXCEPT ![c] = call]

-----------------------------------------------------------------------------
(* put(). *)

(* The first step reads the id of what is there: it becomes the parent.    *)
Put(c, t) ==
    LET current == store.key[t][Id]
    IN  /\ Starts(c)
        /\ Len(made) < MaxCheckpoints
        /\ made' = Append(made, [thread |-> t, before |-> current, seen |-> store.writes[t]])
        /\ Begin(c, [kind |-> "put", thread |-> t, checkpoint |-> Len(made) + 1,
                     current |-> current, alone |-> ~ Crosses(t), counted |-> FALSE,
                     todo |-> (IF current = 0 THEN <<>> ELSE <<Parent>>) \o <<Latest, Id, Meta>>])
        /\ Spoil(Disturbs(t))
        /\ UNCHANGED <<store, replica, checkpoint_counter, pruned>>

Set(t, p, value) == store' = [store EXCEPT !.key[t][p] = value]

(* Once the map has MAX_KEYS keys, setting a key that is not there does     *)
(* nothing, and says nothing.  All that is in the room counts, the keys     *)
(* left out here and pending writes, which are never removed, included: any *)
(* set of a key that is not there may find the map full.                    *)
Dropped(present) ==
    /\ ~ present
    /\ Fault

Rest(c) == [calls EXCEPT ![c].todo = Tail(@)]

PutSet(c) ==
    LET call == calls[c]
    IN  /\ call.kind = "put"
        /\ call.todo # <<>>
        /\ Set(call.thread, Head(call.todo),
               IF Head(call.todo) = Parent THEN call.current ELSE call.checkpoint)
        /\ calls' = Rest(c)
        /\ UNCHANGED <<replica, checkpoint_counter, made, spoilt, pruned, spent>>

(* The calls, once a key of the put of c is lost: it is no better than a    *)
(* put that met another, nor are the reads that it meets.                   *)
Short(c) ==
    [d \in Caller |->
        CASE d = c -> [calls[c] EXCEPT !.todo = Tail(@), !.alone = FALSE]
          [] calls[d].kind = "get_tuple" /\ calls[d].thread = calls[c].thread ->
               [calls[d] EXCEPT !.calm = FALSE]
          [] OTHER -> calls[d]]

PutDropped(c) ==
    LET call == calls[c]
    IN  /\ call.kind = "put"
        /\ call.todo # <<>>
        /\ Dropped(store.key[call.thread][Head(call.todo)] # 0)
        /\ calls' = Short(c)
        /\ Spoil({call.thread})
        /\ UNCHANGED <<store, replica, checkpoint_counter, made, pruned>>

(* Slip: the ring keeps what the checkpoint replaces. *)
EntryOfParent(call) == call.current

Entry(call) == call.checkpoint

(* Whether a put that ran alone leaves a whole checkpoint: the parent of a *)
(* thread that had no checkpoint is not cleared.                           *)
Repairs(call) == call.alone /\ (call.current = 0 => store.key[call.thread][Parent] = 0)

(* Slip: it counts what it stores, and leaves slots of the ring unused. *)
NextCountTwice == checkpoint_counter + 2

NextCount == checkpoint_counter + 1

(* One counter serves all threads, and another put may advance it before   *)
(* the slot is taken from it.                                              *)
PutCount(c) ==
    /\ calls[c].kind = "put"
    /\ calls[c].todo = <<>>
    /\ ~ calls[c].counted
    /\ checkpoint_counter' = NextCount
    /\ calls' = [calls EXCEPT ![c].counted = TRUE]
    /\ UNCHANGED <<store, replica, made, spoilt, pruned, spent>>

NextSlot == History(checkpoint_counter % max_history)

PutEnds(c) ==
    LET call == calls[c]
    IN  /\ call.kind = "put"
        /\ call.todo = <<>>
        /\ call.counted
        /\ calls' = [calls EXCEPT ![c] = Idle]
        /\ spoilt' = [spoilt EXCEPT !.store = IF Repairs(call) THEN @ \ {call.thread} ELSE @]

(* The last step. *)
PutHistory(c) ==
    LET call == calls[c]
        t == call.thread
    IN  /\ PutEnds(c)
        /\ Set(t, NextSlot, Entry(call))
        /\ pruned' = [pruned EXCEPT !.store =
                         IF \E d \in Caller : calls[d].kind = "prune" /\ calls[d].thread = t
                         THEN @ ELSE @ \ {t}]
        /\ UNCHANGED <<replica, checkpoint_counter, made, spent>>

HistoryDropped(c) ==
    /\ PutEnds(c)
    /\ Dropped(store.key[calls[c].thread][NextSlot] # 0)
    /\ pruned' = [pruned EXCEPT !.store = @ \cup {calls[c].thread}]
    /\ UNCHANGED <<store, replica, checkpoint_counter, made>>

(* put_writes(): one key for each task, whatever checkpoint it is for.     *)
PutWrites(t, task) ==
    /\ Counted
    /\ store' = [store EXCEPT !.writes[t] = @ \cup {task}]
    /\ UNCHANGED <<replica, checkpoint_counter, calls, made, spoilt, pruned>>

WritesDropped(t, task) ==
    /\ Counted
    /\ task \notin store.writes[t]
    /\ UNCHANGED <<store, replica, checkpoint_counter, calls, made, spoilt, pruned>>

-----------------------------------------------------------------------------
(* delete_thread(), prune() and copy_thread(). *)

SlotsInOrder == [i \in 1..max_history |-> History(i - 1)]

(* Slip: the parent is forgotten. *)
DeleteOrderShort == <<Latest, Id, Meta>> \o SlotsInOrder

(* Pending writes are not deleted. *)
DeleteOrder == <<Latest, Id, Meta, Parent>> \o SlotsInOrder

(* prune() with the strategy "delete" does this for each thread.           *)
DeleteThread(c, t) ==
    /\ Starts(c)
    /\ Begin(c, [kind |-> "delete", thread |-> t, alone |-> ~ Crosses(t), todo |-> DeleteOrder])
    /\ Spoil(Disturbs(t))
    /\ UNCHANGED <<store, replica, checkpoint_counter, made, pruned>>

(* With "keep_latest" only the history goes. *)
Prune(c, t) ==
    /\ Starts(c)
    /\ calls' = [calls EXCEPT ![c] = [kind |-> "prune", thread |-> t, todo |-> SlotsInOrder]]
    /\ pruned' = [pruned EXCEPT !.store = @ \cup {t}]
    /\ UNCHANGED <<store, replica, checkpoint_counter, made, spoilt>>

(* A delete that ran alone leaves nothing to be torn.                      *)
RemoveKey(c) ==
    LET call == calls[c]
        last == Len(call.todo) = 1
    IN  /\ call.kind \in {"delete", "prune"}
        /\ Set(call.thread, Head(call.todo), 0)
        /\ calls' = IF last THEN [calls EXCEPT ![c] = Idle] ELSE Rest(c)
        /\ spoilt' = [spoilt EXCEPT !.store =
                         IF last /\ call.kind = "delete" /\ call.alone
                         THEN @ \ {call.thread} ELSE @]
        /\ UNCHANGED <<replica, checkpoint_counter, made, pruned, spent>>

(* A copy takes over what the source has and leaves the rest of the target *)
(* as it is, so that it needs an empty target and a source at rest.        *)
CopyThread(c, source, t) ==
    /\ Starts(c)
    /\ source # t
    /\ Begin(c, [kind |-> "copy", thread |-> t, source |-> source, held |-> 0,
                 alone |-> ~ Crosses(t), at |-> "get", todo |-> DeleteOrder])
    /\ Spoil(Disturbs(t) \cup (IF \/ store.key[t] # Absent
                                  \/ source \in spoilt.store
                                  \/ Written(source)
                               THEN {t} ELSE {}))
    /\ pruned' = [pruned EXCEPT !.store = @ \cup {t}]
    /\ UNCHANGED <<store, replica, checkpoint_counter, made>>

CopyGet(c) ==
    LET call == calls[c]
        value == store.key[call.source][Head(call.todo)]
    IN  /\ call.kind = "copy"
        /\ call.at = "get"
        /\ calls' = IF value # 0 THEN [calls EXCEPT ![c].held = value, ![c].at = "set"]
                    ELSE IF Len(call.todo) = 1 THEN [calls EXCEPT ![c] = Idle]
                    ELSE Rest(c)
        /\ UNCHANGED <<store, replica, checkpoint_counter, made, spoilt, pruned, spent>>

Onward(c) ==
    IF Len(calls[c].todo) = 1
    THEN [calls EXCEPT ![c] = Idle]
    ELSE [calls EXCEPT ![c].at = "get", ![c].held = 0, ![c].todo = Tail(@)]

CopySet(c) ==
    LET call == calls[c]
    IN  /\ call.kind = "copy"
        /\ call.at = "set"
        /\ Set(call.thread, Head(call.todo), call.held)
        /\ calls' = Onward(c)
        /\ UNCHANGED <<replica, checkpoint_counter, made, spoilt, pruned, spent>>

CopyDropped(c) ==
    LET call == calls[c]
    IN  /\ call.kind = "copy"
        /\ call.at = "set"
        /\ Dropped(store.key[call.thread][Head(call.todo)] # 0)
        /\ calls' = Onward(c)
        /\ Spoil(IF Head(call.todo) \in Slots THEN {} ELSE {call.thread})
        /\ UNCHANGED <<store, replica, checkpoint_counter, made, pruned>>

-----------------------------------------------------------------------------
(* get_tuple(). *)

(* Slip: the checkpoint is read last. *)
ReadLatestLast == <<Id, Meta, Parent, Latest>>

ReadOrder == <<Latest, Id, Meta, Parent>>

GetTuple(c, t) ==
    /\ Starts(c)
    /\ calls' = [calls EXCEPT ![c] =
          [kind |-> "get_tuple", thread |-> t, got |-> Absent, todo |-> ReadOrder,
           alone |-> t \notin spoilt.store /\ ~ Written(t),
           calm |-> /\ t \notin spoilt.store
                    /\ \A d \in Caller : Writes(d, t) => calls[d].kind = "put"]]
    /\ UNCHANGED <<store, replica, checkpoint_counter, made, spoilt, pruned>>

(* Without a checkpoint the answer is None. *)
Read(c) ==
    LET call == calls[c]
        p == Head(call.todo)
        value == store.key[call.thread][p]
    IN  /\ call.kind = "get_tuple"
        /\ call.todo # <<>>
        /\ calls' = [calls EXCEPT ![c].got[p] = value,
                                  ![c].todo = IF p = Latest /\ value = 0 THEN <<>> ELSE Tail(@)]
        /\ UNCHANGED <<store, replica, checkpoint_counter, made, spoilt, pruned, spent>>

Return(c) ==
    /\ calls[c].kind = "get_tuple"
    /\ calls[c].todo = <<>>
    /\ calls' = [calls EXCEPT ![c] = Idle]
    /\ UNCHANGED <<store, replica, checkpoint_counter, made, spoilt, pruned, spent>>

-----------------------------------------------------------------------------

(* Slip: a push that does not carry all keys. *)
SnapshotInParts == [store EXCEPT !.writes = replica.writes]

(* A push carries the map as it is at one moment. *)
Snapshot == store

Gossip ==
    /\ spent.pushes < MaxPushes
    /\ spent' = [spent EXCEPT !.pushes = @ + 1]
    /\ replica' = Snapshot
    /\ spoilt' = [spoilt EXCEPT !.replica = spoilt.store \cup {t \in Thread : Written(t)}]
    /\ pruned' = [pruned EXCEPT !.replica = pruned.store]
    /\ UNCHANGED <<store, checkpoint_counter, calls, made>>

(* The process ends in the middle of its calls; the peer's begins to count *)
(* again.                                                                  *)
Crash ==
    /\ Fault
    /\ store' = replica
    /\ spoilt' = [store |-> spoilt.replica, replica |-> {}]
    /\ pruned' = [store |-> pruned.replica, replica |-> {}]
    /\ calls' = [c \in Caller |-> Idle]
    /\ checkpoint_counter' = 0
    /\ replica' = [key |-> [t \in Thread |-> Absent], writes |-> [t \in Thread |-> {}]]
    /\ UNCHANGED made

Next ==
    \/ \E c \in Caller, t \in Thread : Put(c, t)
    \/ \E c \in Caller, t \in Thread : DeleteThread(c, t)
    \/ \E c \in Caller, t \in Thread : Prune(c, t)
    \/ \E c \in Caller, t \in Thread : GetTuple(c, t)
    \/ \E c \in Caller, s, t \in Thread : CopyThread(c, s, t)
    \/ \E c \in Caller : PutSet(c)
    \/ \E c \in Caller : PutDropped(c)
    \/ \E c \in Caller : PutCount(c)
    \/ \E c \in Caller : PutHistory(c)
    \/ \E c \in Caller : HistoryDropped(c)
    \/ \E c \in Caller : RemoveKey(c)
    \/ \E c \in Caller : CopyGet(c)
    \/ \E c \in Caller : CopySet(c)
    \/ \E c \in Caller : CopyDropped(c)
    \/ \E c \in Caller : Read(c)
    \/ \E c \in Caller : Return(c)
    \/ \E t \in Thread, task \in Task : PutWrites(t, task)
    \/ \E t \in Thread, task \in Task : WritesDropped(t, task)
    \/ Gossip
    \/ Crash

Spec == Init /\ [][Next]_vars

-----------------------------------------------------------------------------

Number == 0..MaxCheckpoints

TypeOK ==
    /\ {store, replica} \subseteq [key : [Thread -> [Part -> Number]], writes : [Thread -> SUBSET Task]]
    /\ checkpoint_counter \in Number
    /\ made \in Seq([thread : Thread, before : Number, seen : SUBSET Task])
    /\ Len(made) <= MaxCheckpoints
    /\ {spoilt, pruned} \subseteq [store : SUBSET Thread, replica : SUBSET Thread]
    /\ spent \in [calls : 0..MaxCalls, pushes : 0..MaxPushes, faults : 0..MaxFaults]
    /\ \A c \in Caller :
          \/ calls[c] = Idle
          \/ /\ calls[c].kind \in Writers \cup {"prune", "get_tuple"}
             /\ calls[c].thread \in Thread
             /\ calls[c].todo \in Seq(Part)

(* The keys of a thread belong to one checkpoint, whose parent is what it  *)
(* replaced.                                                               *)
Before(n) == IF n = 0 THEN 0 ELSE made[n].before

Whole(key) ==
    /\ key[Id] = key[Latest]
    /\ key[Meta] = key[Latest]
    /\ key[Parent] = Before(key[Latest])

(* A thread is torn only while it is written, or after writers that met, a *)
(* copy over a thread that was not empty, a key lost to a full map, or a   *)
(* crash whose last push fell in a write; and then until one delete, or    *)
(* one put with nothing lost, has run by itself - but a put that finds no  *)
(* id clears no parent that was left over.                                 *)
TornOnlyWhenDisturbed ==
    \A t \in Thread :
        /\ t \notin spoilt.store /\ ~ Written(t) => Whole(store.key[t])
        /\ t \notin spoilt.replica => Whole(replica.key[t])

(* What get_tuple() returns from a thread that is not torn is whole if no  *)
(* writer met it; and where puts met it that came one after the other, and *)
(* lost nothing to a full map, the id and the metadata are at most one     *)
(* checkpoint older than the checkpoint they come with.                    *)
ReadsNearlyWhole ==
    \A c \in Caller :
        LET got == calls[c].got
        IN  calls[c].kind = "get_tuple" /\ calls[c].todo = <<>> /\ got[Latest] # 0
              => /\ calls[c].alone => Whole(got)
                 /\ calls[c].calm =>
                      \A p \in {Id, Meta} : \/ got[p] = Before(got[Latest])
                                            \/ got[p] >= got[Latest]

(* The current checkpoint of a thread is in its history, however the one   *)
(* counter spreads the slots over the threads and wherever it starts over, *)
(* from the first put that found room for its entry; what prune() took     *)
(* away and what a copy took over are not promised.                        *)
HistoryHasLatest ==
    \A t \in Thread :
        t \notin spoilt.store \cup pruned.store /\ ~ Written(t) /\ store.key[t][Latest] # 0
          => \E slot \in Slots : store.key[t][slot] = store.key[t][Latest]

(* A process that goes on from a checkpoint of the thread has every        *)
(* pending write that was there when the checkpoint was put: a peer with   *)
(* room for both never gets the later of the two without the earlier.      *)
WritesBeforeCheckpoint ==
    \A map \in {store, replica}, t \in Thread :
        LET n == map.key[t][Latest]
        IN  n # 0 /\ made[n].thread = t => made[n].seen \subseteq map.writes[t]
=============================================================================
