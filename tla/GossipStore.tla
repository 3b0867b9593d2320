---------------------------- MODULE GossipStore ----------------------------
(***************************************************************************)
(* AgentStateStore (propagul/store.py) and the gossip protocol it runs     *)
(* (propagul/gossip.py): replicas of an OR-Map, one per node, that push    *)
(* full snapshots to random peers, and pull by digest when they start.     *)
(*                                                                         *)
(* The network keeps a set of messages.  A message may be received, lost   *)
(* (a send gives up, the receiver is not running), received again (a send  *)
(* that failed after delivery is retried on a fresh connection) and        *)
(* overtaken by later ones (concurrent sends use separate connections).    *)
(***************************************************************************)
EXTENDS ORMap

CONSTANTS
    NoReply,        \* reply_port 0: the receiver cannot address the sender
    Fanout,         \* what get_k may return; {1} without a scheduler
    MaxWrites,      \* bound: set() calls that create an entry, in all
    MaxInFlight     \* bound: messages in flight

ASSUME StoreAssumption == /\ NoReply \notin Node
                          /\ Fanout \subseteq Nat
                          /\ MaxWrites \in Nat
                          /\ MaxInFlight \in Nat

VARIABLES
    crdt,       \* crdt[n]: _entries and _tombstones of n's ORMap
    seq,        \* seq[n]: its _seq
    peers,      \* peers[n]: the addresses in n's StaticDiscovery
    phase,      \* phase[n]: where n's start()/stop() stand, see Phase
    scan,       \* scan[n]: entries and peers start() has read for its push
    net,        \* messages in flight
    issued,     \* history: every entry a set() ever created
    kills,      \* history: <<t, u>> when the set() that made u buried t,
                \*          <<t, t>> when a delete() buried t
    saturated   \* history: has a cap ever been exceeded, or a merge been
                \*          handed more than fits under the caps?

vars == <<crdt, seq, peers, phase, scan, net, issued, kills, saturated>>

(* "muted": start() raised after it had set _running, so the node receives *)
(* but no gossip task exists.                                              *)
Phase == {"stopped", "starting", "running", "muted"}

-----------------------------------------------------------------------------
(* Messages. *)

Snapshot(E, T) == [entries |-> E, tombstones |-> T]

FullState(snap, reply, to) ==
    [type |-> "full_state", snapshot |-> snap, reply |-> reply, to |-> to]

Digest(E) == [k \in KeysOf(E) |-> Winner(E, k).tag]

DigestMessage(E, reply, to) ==
    [type |-> "digest", digest |-> Digest(E), reply |-> reply, to |-> to]

(* The wanted keys that are here, and all tombstones.  No caller of        *)
(* encode_message passes it a reply port for a delta.                      *)
DeltaMessage(r, wanted, weNeed, to) ==
    [type |-> "delta",
     snapshot |-> Snapshot({e \in r.entries : e.key \in wanted}, r.tombstones),
     we_need |-> weNeed, reply |-> NoReply, to |-> to]

WeNeed(E, digest) ==
    {k \in DOMAIN digest :
        k \in KeysOf(E) => TagLess(Winner(E, k).tag, digest[k])}

RemoteNeeds(E, digest) ==
    {k \in KeysOf(E) :
        k \in DOMAIN digest => TagLess(digest[k], Winner(E, k).tag)}

DigestResponse(r, digest, to) ==
    DeltaMessage(r, RemoteNeeds(r.entries, digest), WeNeed(r.entries, digest), to)

(* handle_incoming_message returns a response for a digest and for a delta *)
(* with a wish list; _on_gossip_receive sends it when it knows where to.   *)
Responses(r, m) ==
    IF m.reply = NoReply THEN {}
    ELSE CASE m.type = "digest" -> {DigestResponse(r, m.digest, m.reply)}
           [] m.type = "delta" /\ m.we_need # {} ->
                 {DeltaMessage(r, m.we_need, {}, m.reply)}
           [] OTHER -> {}

(* The network after some messages left it and others entered it. *)
Exchange(gone, new) ==
    /\ net' = (net \ gone) \cup new
    /\ Cardinality(net') <= MaxInFlight

-----------------------------------------------------------------------------

NoScan == [entries |-> {}, to |-> {}]

Init ==
    /\ crdt = [n \in Node |-> EmptyReplica]
    /\ seq = [n \in Node |-> 0]
    /\ peers = [n \in Node |-> {}]
    /\ phase = [n \in Node |-> "stopped"]
    /\ scan = [n \in Node |-> NoScan]
    /\ net = {}
    /\ issued = {}
    /\ kills = {}
    /\ saturated = FALSE

(* Application calls, from any thread and in any phase: each holds         *)
(* _crdt_lock throughout.  A set() that the full map drops changes nothing *)
(* and is no step.                                                         *)
(* Slips: the number is taken from the map instead of the counter; the     *)
(* counter is raised only after it was read.                               *)
NextTagFromEntries(n) == <<n, Cardinality(crdt[n].entries) + 1>>

NextTagFromZero(n) == <<n, seq[n]>>

NextTag(n) == <<n, seq[n] + 1>>

Buried(r, k) == TagsOf(At(r.entries, k))

Overflows(r, k) == Cardinality(r.tombstones \cup Buried(r, k)) > MAX_TOMBSTONES

Set(n, k, v) ==
    /\ Cardinality(issued) < MaxWrites
    /\ Accepts(crdt[n], k)
    /\ seq' = [seq EXCEPT ![n] = @ + 1]
    /\ crdt' = [crdt EXCEPT ![n] = SetKey(@, k, v, NextTag(n))]
    /\ issued' = issued \cup {[key |-> k, value |-> v, tag |-> NextTag(n)]}
    /\ kills' = kills \cup {<<t, NextTag(n)>> : t \in Buried(crdt[n], k)}
    /\ saturated' = (saturated \/ Overflows(crdt[n], k))
    /\ UNCHANGED <<peers, phase, scan, net>>

Delete(n, k) ==
    /\ k \in KeysOf(crdt[n].entries)
    /\ crdt' = [crdt EXCEPT ![n] = DeleteKey(@, k)]
    /\ kills' = kills \cup {<<t, t>> : t \in Buried(crdt[n], k)}
    /\ saturated' = (saturated \/ Overflows(crdt[n], k))
    /\ UNCHANGED <<seq, peers, phase, scan, net, issued>>

-----------------------------------------------------------------------------
(* Lifecycle and discovery. *)

(* add_peer(), connect_to_cloud() and the initial peers of start().  A     *)
(* node's own address is excluded wherever peers are read, so a list never *)
(* holds it here.                                                          *)
AddPeer(n, p) ==
    /\ p \notin peers[n] \cup {n}
    /\ peers' = [peers EXCEPT ![n] = @ \cup {p}]
    /\ UNCHANGED <<crdt, seq, phase, scan, net, issued, kills, saturated>>

RemovePeer(n, p) ==
    /\ p \in peers[n]
    /\ peers' = [peers EXCEPT ![n] = @ \ {p}]
    /\ UNCHANGED <<crdt, seq, phase, scan, net, issued, kills, saturated>>

(* start() of a node that knows no peer. *)
StartAlone(n) ==
    /\ phase[n] = "stopped"
    /\ peers[n] = {}
    /\ phase' = [phase EXCEPT ![n] = "running"]
    /\ UNCHANGED <<crdt, seq, peers, scan, net, issued, kills, saturated>>

(* start() with peers reads the entries for its push without the lock ...  *)
StartScan(n) ==
    /\ phase[n] = "stopped"
    /\ peers[n] # {}
    /\ phase' = [phase EXCEPT ![n] = "starting"]
    /\ scan' = [scan EXCEPT ![n] = [entries |-> crdt[n].entries, to |-> peers[n]]]
    /\ UNCHANGED <<crdt, seq, peers, net, issued, kills, saturated>>

(* ... then it reads the tombstones, builds the digest, and sends both     *)
(* messages to every peer.                                                 *)
StartGreet(n) ==
    /\ phase[n] = "starting"
    /\ Exchange({}, UNION {{FullState(Snapshot(scan[n].entries, crdt[n].tombstones), n, p),
                            DigestMessage(crdt[n].entries, n, p)} : p \in scan[n].to})
    /\ phase' = [phase EXCEPT ![n] = "running"]
    /\ scan' = [scan EXCEPT ![n] = NoScan]
    /\ UNCHANGED <<crdt, seq, peers, issued, kills, saturated>>

(* ... unless a write of another thread changes the size of what it is     *)
(* iterating over, and the read raises.                                    *)
StartFails(n) ==
    /\ phase[n] = "starting"
    /\ scan[n].entries # crdt[n].entries
    /\ phase' = [phase EXCEPT ![n] = "muted"]
    /\ scan' = [scan EXCEPT ![n] = NoScan]
    /\ UNCHANGED <<crdt, seq, peers, net, issued, kills, saturated>>

Stop(n) ==
    /\ phase[n] \in {"running", "muted"}
    /\ phase' = [phase EXCEPT ![n] = "stopped"]
    /\ UNCHANGED <<crdt, seq, peers, scan, net, issued, kills, saturated>>

-----------------------------------------------------------------------------
(* Gossip. *)

(* One round of _gossip_loop that pushes to the given sample of peers.  A  *)
(* map without keys is not pushed, whatever tombstones it holds.           *)
Push(n, targets) ==
    /\ phase[n] = "running"
    /\ crdt[n].entries # {}
    /\ targets # {}
    /\ \E k \in Fanout :
          targets \in kSubset(AtMost(k, Cardinality(peers[n])), peers[n])
    /\ Exchange({}, {FullState(crdt[n], n, p) : p \in targets})
    /\ UNCHANGED <<crdt, seq, peers, phase, scan, issued, kills, saturated>>

Listening(n) == phase[n] \in {"running", "muted"}

(* Slip: the sender's reply port is read but not registered. *)
DiscoverNobody(m) == peers' = peers

Discover(m) ==
    peers' = [peers EXCEPT ![m.to] =
                 @ \cup (IF m.reply = NoReply THEN {} ELSE {m.reply} \ {m.to})]

(* _on_gossip_receive for a message with a snapshot: it is merged, its     *)
(* sender registered, and a wish list answered when there is an address.   *)
ReceiveSnapshot(m, gone) ==
    /\ Listening(m.to)
    /\ m.type \in {"full_state", "delta"}
    /\ \E r \in Merges(crdt[m.to], m.snapshot) :
          /\ crdt' = [crdt EXCEPT ![m.to] = r]
          /\ Exchange(gone, Responses(r, m))
    /\ saturated' = (saturated \/ ~ Fits({crdt[m.to], m.snapshot}))
    /\ Discover(m)
    /\ UNCHANGED <<seq, phase, scan, issued, kills>>

(* _on_gossip_receive for a digest: nothing is merged, a delta goes back. *)
ReceiveDigest(m, gone) ==
    /\ Listening(m.to)
    /\ m.type = "digest"
    /\ Exchange(gone, Responses(crdt[m.to], m))
    /\ Discover(m)
    /\ UNCHANGED <<crdt, seq, phase, scan, issued, kills, saturated>>

(* Delivery failed, or the receiver is not running. *)
Lose(m) ==
    /\ net' = net \ {m}
    /\ UNCHANGED <<crdt, seq, peers, phase, scan, issued, kills, saturated>>

-----------------------------------------------------------------------------

(* What the application does, and what peers do to each other. *)
Write ==
    \/ \E n \in Node, k \in Key, v \in Value : Set(n, k, v)
    \/ \E n \in Node, k \in Key : Delete(n, k)

Arrange ==
    \/ \E n, p \in Node : AddPeer(n, p)
    \/ \E n, p \in Node : RemovePeer(n, p)
    \/ \E n \in Node : StartAlone(n)
    \/ \E n \in Node : Stop(n)

Greet ==
    \/ \E n \in Node : StartScan(n)
    \/ \E n \in Node : StartGreet(n)
    \/ \E n \in Node : StartFails(n)

Gossip ==
    \/ \E n \in Node, T \in SUBSET Node : Push(n, T)
    \/ \E m \in net : ReceiveSnapshot(m, {m})
    \/ \E m \in net : ReceiveSnapshot(m, {})
    \/ \E m \in net : ReceiveDigest(m, {m})
    \/ \E m \in net : ReceiveDigest(m, {})
    \/ \E m \in net : Lose(m)

Next == Write \/ Arrange \/ Greet \/ Gossip

Spec == Init /\ [][Next]_vars

(* The runs in which every node starts before it is told of a peer, so     *)
(* that nobody greets and every message is a full state.                   *)
PushNext == Write \/ Arrange \/ Gossip

PushSpec == Init /\ [][PushNext]_vars

-----------------------------------------------------------------------------
(* What is in the system: replicas, unsent reads of start(), messages. *)

Carried == {m.snapshot : m \in {x \in net : x.type # "digest"}}

EntriesInSystem ==
    (UNION {crdt[n].entries : n \in Node})
        \cup (UNION {scan[n].entries : n \in Node})
        \cup (UNION {s.entries : s \in Carried})

TombstonesInSystem ==
    (UNION {crdt[n].tombstones : n \in Node}) \cup (UNION {s.tombstones : s \in Carried})

MessageOK(m) ==
    /\ m.type \in {"full_state", "digest", "delta"}
    /\ m.to \in Node
    /\ m.reply \in Node \cup {NoReply}
    /\ m.type # "digest" => m.snapshot \in Replica
    /\ m.type = "digest" => DOMAIN m.digest \subseteq Key
    /\ m.type = "delta" => m.we_need \subseteq Key

(* Every variable has the shape the code gives it. *)
TypeOK ==
    /\ crdt \in [Node -> Replica]
    /\ seq \in [Node -> Nat]
    /\ peers \in [Node -> SUBSET Node]
    /\ phase \in [Node -> Phase]
    /\ scan \in [Node -> [entries : SUBSET Entry, to : SUBSET Node]]
    /\ \A m \in net : MessageOK(m)
    /\ issued \subseteq Entry
    /\ kills \subseteq Tag \X Tag
    /\ saturated \in BOOLEAN

(* The promise "unique-tag" of crdt.py: however writes, merges and late    *)
(* messages interleave, no two different entries share a tag anywhere.     *)
TagsUnique ==
    \A e, f \in EntriesInSystem : e.tag = f.tag => e = f

(* No replica, message or tombstone names a tag its author has not issued: *)
(* the author's next set() is new to everyone, and no tombstone waits      *)
(* for it.                                                                 *)
SeqCoversTags ==
    \A t \in TagsOf(EntriesInSystem) \cup TombstonesInSystem :
        t[1] \in Node /\ t[2] <= seq[t[1]]

(* A replica never shows an entry it holds a tombstone for, not even right *)
(* after a local set(), which does not look at the tombstones.             *)
DeadStaysHidden ==
    \A n \in Node : TagsOf(crdt[n].entries) \cap crdt[n].tombstones = {}

(* "A remove only affects tags the remover has observed": a tombstone is   *)
(* found in the system only if some node, while it showed the entry,       *)
(* deleted or overwrote it.                                                *)
RemovesOnlyObserved ==
    TombstonesInSystem \subseteq {p[1] : p \in kills}

(* A stale, repeated or overtaken message never takes knowledge away: as   *)
(* long as no cap bites, a tag once heard of is never unheard of and one   *)
(* once dead is never alive again.                                         *)
NothingForgotten ==
    [][~ saturated' =>
          \A n \in Node : /\ Known(crdt[n]) \subseteq Known(crdt'[n])
                          /\ crdt[n].tombstones \subseteq crdt'[n].tombstones]_vars

(* set() replaces atomically at every replica: who has the tombstone of an *)
(* overwritten entry also knows the entry that replaced it, unless the     *)
(* entry was also deleted outright.                                        *)
Explained(r) ==
    \A t \in r.tombstones :
        \E u \in Known(r) : <<t, u>> \in kills

NoOrphanTombstone ==
    ~ saturated => \A n \in Node : Explained(crdt[n])

(* The same seen by a reader: a key that has a value at some replica loses *)
(* it there only when that replica learns of a delete() of that key.       *)
OverwriteKeepsKey ==
    [][~ saturated' =>
          \A n \in Node : \A k \in KeysOf(crdt[n].entries) \ KeysOf(crdt'[n].entries) :
              \E e \in issued : /\ e.key = k
                                /\ e.tag \in crdt'[n].tombstones
                                /\ <<e.tag, e.tag>> \in kills']_vars

(* The store implements the abstract map, as long as no cap can bite:      *)
(* whatever the messages do, each step is a write, a removal, or a node    *)
(* learning of what others wrote and removed.                              *)
Abstract ==
    INSTANCE ObservedRemoveMap WITH
        written <- issued,
        alive   <- [n \in Node |-> crdt[n].entries],
        dead    <- [n \in Node |-> crdt[n].tombstones],
        Tag     <- Node \X (1 .. MaxWrites)

ImplementsMap == Abstract!Spec

(* The three safety caps hold at every replica, however merges overlap. *)
CapsHold ==
    \A n \in Node :
        /\ Cardinality(crdt[n].tombstones) <= MAX_TOMBSTONES
        /\ Cardinality(KeysOf(crdt[n].entries)) <= MAX_KEYS
        /\ \A k \in KeysOf(crdt[n].entries) :
              Cardinality(At(crdt[n].entries, k)) <= MAX_ENTRIES_PER_KEY

-----------------------------------------------------------------------------
(* Liveness.  The event loop keeps every gossip task running, the random   *)
(* sample of a round picks no peer only finitely often, and no link fails  *)
(* for ever.                                                               *)

PushTo(n, p) == \E T \in SUBSET Node : p \in T /\ Push(n, T)

DeliverPush(n, p) ==
    \E m \in net : /\ m.type = "full_state" /\ m.reply = n /\ m.to = p
                   /\ ReceiveSnapshot(m, {m})

GossipFairness ==
    \A n, p \in Node : SF_vars(PushTo(n, p)) /\ SF_vars(DeliverPush(n, p))

FairPushSpec == PushSpec /\ GossipFairness

AllUp == \A n \in Node : phase[n] = "running"

(* Every node can be reached from some other through peer lists, read in   *)
(* either direction: what discovery starts from.                           *)
Linked ==
    \A S \in SUBSET Node \ {{}, Node} :
        \E n \in S, p \in Node \ S : p \in peers[n] \/ n \in peers[p]

Agreement == \A n, p \in Node : crdt[n] = crdt[p]

(* Once all nodes stay up, linked, and holding some key, they end up with  *)
(* the same map and the same tombstones, although only one side of each    *)
(* link need know the other at first.                                      *)
Convergence ==
    <>[](AllUp /\ Linked /\ \A n \in Node : crdt[n].entries # {}) => <>[]Agreement

(* "Delete a key (propagates via tombstone)": once all nodes stay up and   *)
(* know each other, they end up showing the same keys.                     *)
DeletesPropagate ==
    <>[](AllUp /\ \A n \in Node : peers[n] = Node \ {n})
        => <>[](\A n, p \in Node : KeysOf(crdt[n].entries) = KeysOf(crdt[p].entries))
=============================================================================
