# Propagul in TLA+

Propagul keeps the state of a fleet of agents in replicated OR-Maps (observed-remove
maps) that travel by gossip. This directory holds TLA+ specifications of its core, TLC
configurations that check them on small instances, and theorems checked by TLAPS. Every
definition is translated from the Python code under `src/python/propagul/`; names follow
the code where TLA+ allows. `PROJECT.json` says, definition by definition, which lines
each one stands for.

    tlc -workers 2 -config gossip_safety.cfg MCGossipStore.tla
    tlapm GossipStoreProofs.tla

Contents: 1 the system, 2 modules, 3 model checking, 4 proofs, 5 what the models show
about the code, 6 what is left out, 7 plan.


## 1. The system

### Components

| component | state | operations | talks to |
|---|---|---|---|
| OR-Map, `crdt.py` | `_entries` (key to value/tag pairs), `_tombstones`, `_seq` | `set`, `delete`, `get`, `merge`, `snapshot`, `_gc_tombstones` | called by every store below, under its owner's lock |
| OR-Map, Rust twin, `src/or_map.rs` | the same | the same, through PyO3 | used instead of `crdt.py` when the extension is built |
| gossip protocol, `gossip.py` | none | build and handle FULL_STATE, DIGEST, DELTA | pure functions of `AgentStateStore` |
| `AgentStateStore`, `store.py` | an OR-Map, peers, `_running`, a gossip task | `set`, `delete`, `start`, `stop`, `add_peer`, gossip round, receive | application threads, its transport, other stores |
| `StaticDiscovery`, `discovery.py` | the list of peers | add, remove, read | `AgentStateStore` |
| `GossipTransport`, `transport.py` | connection pool, inbound handlers, `_running` | `send`, `send_to_k_peers`, `start`, `stop`, inbound handler | TCP; calls back the store |
| EntropyAgent, `src/entropy_agent.rs` | loss estimate, fan-out, cooldown, sleeps in a row | `get_k`, `on_packet_sent`, `on_receive`, `is_likely_partitioned` | the store's gossip round, through PyO3 |
| `FleetConfigMap`, `mesh/config.py` | an OR-Map, a JSON file, `_dirty`, `_last_save` | setters, removals, `merge`, debounced save, `flush_to_disk`, `load_from_disk` | dashboard handlers, agents |
| `MeshAgent`, `mesh/agent.py` | the engines detected, a `FleetConfigMap` in memory, cancel flags, pull guards, proxy settings | heartbeat (telemetry, routing events, config synchronisation, reconciliation), command loop, one thread for each pull | dashboard over HTTP, backend, proxy |
| fleet router, `mesh/router.py` | fleet table, connection counts, event log | `update`, `select`, `select_ordered`, `drain` | proxy, agent |
| inference proxy, `mesh/proxy.py` | in-flight requests, a reader thread and a bounded queue for each stream | forward, fall back, stream | router, backends |
| A2A rooms, `a2a/` | a durable OR-Map with presence keys | join, leave, set, save, load | dashboard, agents |
| LangGraph checkpointer, `integrations/langgraph.py` | a slot counter; keys in a store | `put`, `get_tuple`, `put_writes`, `delete_thread`, `prune` | `AgentStateStore` |
| CrewAI integration, `integrations/crewai.py` | keys in a store | kickoff, recover | `AgentStateStore` |
| backends, `mesh/backends/` | none of their own | `execute_command`, `execute_pull_streaming`, `eject_all`, detection | the agent's threads; Ollama over HTTP |
| telemetry, CLI | none of their own | system calls, arguments | everything else |

### What is hard

* **Merges in any order.** Snapshots are lost, repeated and overtaken; two nodes overwrite
  the same key at once; three caps (tombstones, entries per key, keys) bite in the middle
  of a merge. Correct means: a merge only adds knowledge, a remove touches only what the
  remover saw, replicas that heard the same agree.
* **Tags.** Everything rests on a tag naming one entry for ever. `_seq` starts at 0 in every
  process, so a restart is where this is at risk.
* **Threads beside the event loop.** `start()` reads the map without the lock.
* **Crash and restart.** The dashboard debounces its saves and may fail to write; the dirty
  flag must cover what is at risk, and agents bring back what a crash lost.
* **Lost requests.** The agent's pull, push and answer may each be lost or late.
* **Shared connections.** Sends open connections outside the pool's lock, evict each
  other's, retry, time out and are cancelled, while `stop()` walks the same pool.
* **Streams through threads.** Each stream of the proxy is read by a thread of a shared pool and passed on
  through a bounded queue to a coroutine that may stop taking from it; clients and backends fail at any await.
* **Threads of the agent.** Pulls run in threads of their own while the command loop goes on: a cancel is a flag
  that a pull looks at only when its throttle is open, and that may be meant for a pull that is over. The list of engines
  is replaced by the heartbeat while the command loop reads it twice. The event log is filled on one thread and
  emptied on another, and what was taken out may not arrive.
* **Checkpoints in several keys.** `put()` writes up to eight keys one by one, `get_tuple()` reads them one by one, a
  push to the peer or a crash may fall in between, and one counter places the history of all threads.
* **Sleeping on purpose.** The scheduler skips gossip rounds for three reasons; together they must not silence a node.

`hazards` in `PROJECT.json` lists each of them at its line with the properties that
watch it.


## 2. Modules

| module | models | built on |
|---|---|---|
| `ORMap` | `crdt.py` as operators on replicas: no state | |
| `ObservedRemoveMap` | what an OR-Map promises: abstract specification | |
| `GossipStore` | `store.py`, `gossip.py`, `discovery.py` | `ORMap`; implements `ObservedRemoveMap` |
| `GossipRestart` | the same with process crashes | `GossipStore` |
| `FleetConfig` | `mesh/config.py` and config synchronisation of `mesh/agent.py` | `ORMap` |
| `TransportPool` | `transport.py` | |
| `FleetProxy` | `mesh/proxy.py` and the choice of backends of `mesh/router.py` | |
| `MeshAgent` | heartbeat, commands and pulls of `mesh/agent.py`, `mesh/backends/ollama.py`, the event log of `mesh/router.py` | |
| `Checkpoints` | `integrations/langgraph.py` | |
| `SilenceBudget` | what a scheduler owes its node: abstract specification | |
| `EntropyAgent` | `src/entropy_agent.rs` | implements `SilenceBudget` |
| `MC...` | instances for TLC | |
| `ORMapProofs`, `GossipStoreProofs`, `FleetConfigProofs`, `TransportPoolProofs`, `FleetProxyProofs`, `MeshAgentProofs`, `EntropyAgentProofs`, `CheckpointsProofs` | theorems | the module each is named for; `GossipStoreProofs` also has those of `GossipRestart` |

**ORMap.** A replica is a record of a set of entries (key, value, tag) and a set of
tombstones (tags): `snapshot()` read as sets. A tag is `<<node, seq>>` and tags are ordered as
Python tuples are. `SetKey` and `DeleteKey` are `set()` and `delete()` with the tombstone
collection at their end. `Merges(mine, theirs)` is the *set* of outcomes of `merge()`: the code
iterates over dicts in an order the sender chose, and once a cap is reached the order
decides what is admitted (`Admissions`, which keys; `Adoptions`, which entries;
`Absorptions`, which tombstones). `Settled` is the end of `merge()`: dead entries go,
tombstones are collected. `MAX_TOMBSTONES`, `MAX_ENTRIES_PER_KEY` and `MAX_KEYS` are
constants of the same names.

**GossipStore.** One replica, one counter, one peer list and one phase per node, and a set
of messages in flight. `Set` and `Delete` hold `_crdt_lock` in the code and are one step
each. `start()` is two steps (`StartScan`, `StartGreet`) because it reads entries and
then tombstones without the lock; `StartFails` is the iteration that raises when another
thread writes in between, after `_running` was set, which leaves a node that receives but has
no gossip task. `Push` is a gossip round with any sample of peers the fan-out allows; a map
without keys is not pushed. `ReceiveSnapshot` and `ReceiveDigest` are `_on_gossip_receive`:
merge, register the sender, answer. A receive may leave its message in the network
(a send that failed after delivery is repeated) or take it; `Lose` drops one. Messages in
flight are bounded by `MaxInFlight`, entries ever written by `MaxWrites`. History
variables (`issued`, `kills`, `saturated`) record what was written, what buried what, and
whether a cap ever bit; no guard reads them except the bound on writes.

**ObservedRemoveMap.** Nodes write fresh tags, remove what they see, and learn. There are
no caps, no messages and no clocks. `GossipStore` maps to it by `written <- issued`,
`alive <- entries`, `dead <- tombstones`.

**GossipRestart** adds `Crash(n)`: the node is a new object with the same id and nothing
else, as in `examples/demo_crash_recovery.py`.

**FleetConfig.** The dashboard's map, its counter, its file, its dirty flag and whether the
debounce interval is running; for each agent its map, where its heartbeat stands and what its
proxy was given. Every setter ends in `AutoSave`, a part of the same step: a save (which may
fail) outside the debounce interval, the dirty flag inside it. A save replaces the file as a whole
(temporary file and rename). `Restart` is the dashboard's crash at any point: the file is merged into a
new map whose `_seq` is 0, or it cannot be loaded (another version, a bad snapshot, corrupt or unreadable) and the map
stays empty while the file stays where it is; the history variable `unread` says so until the next save replaces it. The heartbeat is `Pull`, `MergePulled`, `Serve`, `MergeAnswer`,
each of which can be followed by `GiveUp`; on every path it ends by applying the agent's
own map to the proxy. The dashboard's HTTP handlers are not in the repository: `Serve`
is what `_sync_config` expects of them and is marked external.

**TransportPool.** The tasks in `send()`, one step from await to await: look up, open, lock and
write, drain, close and retry; a task may be cancelled at each await. No await happens while
`_pool_lock` is held, so the lock makes no task wait and is no variable. A connection is
open, dead (the other side is gone, unnoticed), eof or closed. A write to a dead connection is
swallowed, one to a closed connection is refused unless the connection is still flushing.
`Stop` closes the pool in a loop that awaits; `StopRaises` is Python's error when the pool
changes its size meanwhile. `HangUp` is the other side's handler leaving for whatever reason.
`Refuse` is an early return of `send()`. Message contents play no part here; `GossipStore` takes
from this module that a message may arrive twice, late or never.

**FleetProxy.** Each request is a coroutine (`call`) with at most one job in a thread and one queue (`pipe`);
`jobs` is the line for the executor's threads, `counts` the router's connection counts, `out` what the client was
sent. Steps go from await to await, and `LoopIdle` keeps a coroutine in the middle of a stretch alone on the loop. One
such stretch can last: `close()` of a backend's response takes the buffer lock its reader holds in `readline()`, so `Close`
waits for the reader and everything else waits for `Close`. `Selected` is `select()` for whatever table the
heartbeat left. Ollama's translation and the passthrough follow one protocol; the model has the outcomes of both:
a line may be forwarded, skipped, or fail. Backend failures are told to the client where they occur (`Answered`, `Join`);
only a lost client (`DrainRaises`) or a body that does not translate reaches the fallback (`Fail`). A client
that is gone is one whose connection the loop knows to be lost: `drain()` raises from then on.
`/v1/models` and `/v1/completions` are requests that are not routed.

**MeshAgent.** Three kinds of threads. `beat` is the heartbeat: `Collect` replaces the list of engines (`engine` is its
first element, all that the code uses), `Drain` takes the events out of the log, `PostArrives` and `PostFails` are the
request; the exchange of settings that follows is `FleetConfig`. `cmd` is the command loop: it works through
its batch, and reads the URL (`ChooseUrl`) and the name (`Executes`, `NameMissing`) of the engine in two steps, between which
`Collect` may come. `pulls` are the threads that `StartPull` starts: each reads a stream, sees a cancel flag only past its
throttle (`SeeCancel`), and takes the flag down in a further step (`Cancel`). `Unload`, `UnloadFails` and
`Load` are `eject_all()` with Ollama at work beside it, `Record` is the proxy writing its log. What a delete or a pull does inside
Ollama is left out. The agent modelled is one without `--ollama`. With auto-pull on, `_poll_loop` calls
`create_task` where no loop runs (section 5), so that the reconciliation it would start has no action.

**Checkpoints.** Keys hold the number of the checkpoint whose value they are. `put()` is `Put` (it reads what will be the parent),
`PutSet` once for each key, `PutCount` and `PutHistory`; reading the counter again after it was advanced is a step of its own, so
that two puts may take one slot. `PutDropped`, `HistoryDropped`, `CopyDropped` and `WritesDropped` are the same steps where
`ORMap.set()` finds the map full and drops the new key without a word; since the map also holds what is not modelled here (other users'
keys, `ts` and `versions`), any key that is not there may meet that, as often as `MaxFaults` allows. `DeleteThread`, `Prune` and `CopyThread` begin calls that go on with
`RemoveKey`, `CopyGet` and `CopySet`; `GetTuple`, `Read` and `Return` are `get_tuple()`. `Gossip` gives the peer the whole
map of one moment, as a full state does; after `Crash` the peer goes on from what it has, with a counter of 0.
The history variables say which threads other writers or a full map have met (`spoilt`), which have lost history to `prune()`
(`pruned`) or to a full map, and what was put (`made`); `Disturbs`, `Crossed` and `Repairs` are the rules by which they change.

**EntropyAgent.** One action for each call. The loss estimate is kept as the band the code compares it with; `AfterLoss`
and `AfterDelivery` are the bands its moving average can reach. Draws of the random generator are choices. The clock is
whether the last call lies further back than the offline threshold. `Sleep` is the floor guard that the three kinds
of sleep share. In this repository the store does not call `on_receive`, so that a cooldown begins only for other users
of the class (it is exported to Python); the model has all of its methods.

**SilenceBudget.** Rounds speak or are skipped, fewer than `Budget` in a row.


## 3. Model checking

| run | instance | checks |
|---|---|---|
| `gossip_safety` | 2 nodes that know each other, from stopped; 1 key, 2 writes, 2 messages; caps out of reach | `TypeOK`, `RemovesOnlyObserved`, `NothingForgotten`, `ImplementsMap` |
| `gossip_push` | 2 running nodes, 2 keys, 3 writes; caps of 2 tombstones, 2 entries, 1 key | `TagsUnique`, `NoOrphanTombstone`, `CapsHold`, `OverwriteKeepsKey` |
| `gossip_live` | 2 nodes, 1 key, 2 writes, peer lists that change | `Convergence` |
| `delete_last_key` | the same with 1 write | violates `DeletesPropagate` |
| `restart_tags` | 2 nodes, 2 writes, 1 crash | violates `TagsUnique` |
| `config_sync` | dashboard and 1 agent, 2 keys, a valid and an invalid value, 2 writes, 1 crash, `MAX_KEYS = 1` | `TypeOK`, `CleanMeansSaved`, `FileBehindMap`, `OnlyReplacedVanish`, `SettingsReachProxies` |
| `transport_pool` | 2 sends, 2 peers, a pool of 1, an inbound limit of 1 | `TypeOK`, `ConnectionsBounded`, `RetryIsFresh`, `TrueMeansSent`, `SendsReturn` |
| `proxy_requests` | 2 requests, 1 node and the configured backend, a queue of 1, 2 lines, 1 thread | `TypeOK`, `CountsMatch`, `OneAnswer`, `EndIsLast`, `StuckForGood`, `EndsUnlessStuck` |
| `fleet_failover` | 1 request, 2 nodes and the configured backend | violates `FleetFailsOver` |
| `mesh_agent` | 2 models, 1 of which commands name, a log of 1, 2 events, 3 commands in batches of at most 2 | `TypeOK`, `EventsOnce`, `CancelsSpent`, `EjectAccounted`, `LossExplained`, `LogDrained`, `CancelHeeded` |
| `checkpoints` | 2 threads, 2 callers, 1 task, a history of 2, 3 checkpoints, 3 calls, 1 push, 1 fault (a crash or a key lost to a full map) | `TypeOK`, `TornOnlyWhenDisturbed`, `ReadsNearlyWhole`, `HistoryHasLatest`, `WritesBeforeCheckpoint` |
| `scheduler` | the limits the code has, bursts below and above the threshold, maps of 2 sizes | `TypeOK`, `KeepsBudget`, `PartitionNoticed` |

Every property has a *slip* beside the definition it guards: an operator that changes that
definition the way a programming error would (`SettledUnfiltered`, `DrainedAtOnce`, ...). With the slip in
place the same run violates the property.

**Why the bounds are enough.** Two nodes are the smallest system with a lost update, a
concurrent overwrite, a stale message and a message that overtakes another (two in flight). Two
writes give an overwrite, two concurrent entries under one key, and a restart that reissues a
tag; three writes with caps of two make every cap bite, at a `set()` and in a merge. One crash is enough to lose
what the debounce put off and to see it come back from an agent. Two sends are enough for
every race of the pool: one acts between another's lookup and its write. A pool of one with two peers is always
full; the inbound limit of one is reached when both sends connect, and when one connects again. (With two, liveness takes longer to
check; what is proved in section 4 holds for every limit.) `gossip_safety` starts where
`AddPeer` has been called for every pair, `gossip_push` where the nodes have started too;
`gossip_live` begins with the code's own initial state and has these steps.
One thread for two requests makes one wait
for the other's stream; a queue of one is full after a line, and two lines leave one in the reader's hands when
its handler gives up. With two nodes, or two threads, the safety properties of the proxy hold as well (0.9 and 0.55 million states);
the run keeps to one of each so that liveness is checked in about a minute.
Sends and peers are interchangeable, so `transport_pool` follows only the runs in which one given send is made first, to one given peer
(`InOrder`); symmetry reduction would not be sound for `SendsReturn`, and calls are the only steps that are cut off, which no fairness obliges.
`checkpoints` takes callers and threads as symmetric.
Three commands are a pull, its cancel and a second pull that finds the flag, or two pulls of one model and a cancel; the second model
tells an eject that misses one of two from one that misses all. A log of one overflows at the second event. A history
of two slots wraps with the third checkpoint; two callers are the fewest that meet on a thread, two
threads the fewest for a copy and for sharing the counter, and one push with one crash bring a peer back to any moment of a call. A lost key
and a crash in the same run are left to the proofs: the theorems hold for any number of faults.
`scheduler` has no bound of its own: its counters are bounded by the code's limits.

**Deadlock** is not checked where the bounds end every behaviour (no writes left, no call
left to make); nodes that stop for good are legal as well.

**Fairness.**
`GossipFairness` is strong fairness, for every pair of nodes, of a push from one to the other
and of the delivery of a push: a gossip task samples peers at random for as long as it runs, so
it does not pass over a peer for ever, and a link that is tried again and again is taken not
to fail each time. Nothing is assumed of digests, deltas, starts or writes.
`FleetConfig` assumes that agents keep beating and that a request does not fail for ever
(strong fairness of the four steps of the exchange, each of which `GiveUp` can interrupt).
It does not assume that a save succeeds, that the dashboard flushes, or that the debounce
interval ends. `TransportPool` assumes that each await ends, which the code's own timeouts
ensure (`CONNECT_TIMEOUT`, `SEND_TIMEOUT`, one second for a close), and strong fairness of
taking the write lock, because `asyncio.Lock` serves its waiters in the order they came.
`FleetProxy` assumes weak fairness of each handler, each reader and the executor: sockets time out after 300
seconds, the loop runs what is ready, and a client either reads what it is sent or its connection breaks.
`MeshAgent` assumes weak fairness of the heartbeat, whose requests time out, and of each pull's look at its flag: as long as a stream
lasts, one of its events falls outside the half second that the last report closed. It does not assume that a post arrives, nor
that a stream ends. `EntropyAgent` assumes that the gossip loop keeps asking, as it does while the store runs.
`Checkpoints` states no fairness: its properties are about states.

**What the liveness properties say.** `Convergence`: if from some moment on all nodes run and their peer lists link
them in either direction (a push registers its sender at the receiver), then replicas that have something to push
end up equal. `SettingsReachProxies`: unless a tag is issued twice, every proxy ends up with the dashboard's
settings and knows the same removals, also those that a crash, or a file that could not be loaded, lost and an agent brings back. `SendsReturn`: no send hangs.
`EndsUnlessStuck`: a request that is routed ends, or some request is stuck. That the second case is real
TLC shows when asked without it (see section 5). `LogDrained`: the heartbeat comes back to an empty log whatever becomes of its posts.
`CancelHeeded`: a cancel flag that has a pull to stop is taken by one, or the pulls of that model end by themselves.
`PartitionNoticed`: once nothing changes, the scheduler keeps coming into
states in which it may report a partition.


## 4. Proofs

The theorems hold for all nodes, keys, values, caps and bounds that satisfy the assumptions
named in the modules (`NodeAssumption`, `CapAssumption`, `StoreAssumption`, `ConfigAssumption`, `PoolAssumption`, `ProxyAssumption`,
`AgentAssumption`, `SchedulerAssumption`, `CheckpointsAssumption`: node ids are numbers, caps and bounds naturals, the markers are no members of the sets
they stand beside, models form a finite set, the scheduler's minimal fan-out is at least 1 and at most the maximal one).

**ORMapProofs.** `MergeWithinCaps`: if both replicas together fit under the caps, `merge()`
has one outcome, their join, however the dicts are ordered. `MergeCommutes`,
`MergeAssociates`, `MergeIdempotent`: the laws promised in `crdt.py`, for
replicas of one history (no tag names two entries). `SameKnowledgeSameMap`: two such
replicas with the same known tags and the same tombstones are equal.
A merge that meets a cap need not obey them. What remains then is that writes and merges keep the three caps (`SetKeyCapped`,
`DeleteKeyCapped`, `MergesCapped`). Eviction is the hard part, since `GC` says of each tombstone how many are younger, not how many
stay: of the ones that stay there is one that all others follow (`FirstEvicted`: strict inclusion of finite sets is
well-founded), and fewer than the cap follow it. The same argument gives that a key has a winner (`WinnerIsOne`).

**GossipStoreProofs.** The inductive invariant of `Spec` is

    IInv == /\ TypeOK
            /\ IsFiniteSet(issued)
            /\ Coherent(issued)         \* no two entries ever written share a tag
            /\ SeqAhead                 \* every written tag is at most its author's _seq
            /\ Sourced                  \* replicas, reads of start() and messages hold only
                                        \*   what was written, and bury only what was killed
            /\ DeadStaysHidden

`TagsUnique` is not inductive by itself: a tag may be in nobody's map and still come back from
a message, so the argument goes through everything ever written (`issued`) and where each
thing in the system came from (`Sourced`). `SeqAhead` gives that the next tag is new. From `IInv` follow
`TagsAreUnique`, `SeqCovers` (every tag anywhere was issued), `DeadIsHidden`, `RemovesAreObserved`, and with the lemmas on
merges within the caps the action property `NothingIsForgotten`. `OverwritesAreAtomic` needs
more (`PushInv`): not only each replica but each snapshot in flight explains its tombstones, and
every message is a full state; a delta breaks this, which is why the theorem is about `PushSpec`. `OverwritesKeepKeys` adds that the
replaced entry and the one that replaced it are of one key (`KillsKeyed`) and that replacements never go round in a circle
(`LastKilled`: every set of written tags has one that no other of them replaced), so that the dead entries of a key
lead to a live one or to a delete. `CapsAreKept` follows from the lemmas on the caps. `StoresImplementMap` maps
every step to a step of `ObservedRemoveMap` or a stutter, under `Roomy`: no more is written than each cap
holds, so that every merge is a join and no tombstone is evicted. It needs `Counted` (counters are bounded by what was written)
and `CarriedHeld` (a tombstone in a message is held by some replica: a replica learns only what others have).

Four results go beyond what the runs check. `ConvergenceNears` is the safety half of `Convergence`, for stores whose caps were
never met: a replica's facts are the tags it has heard of and those it knows to be dead, `Missing(n)` are the facts that some node has and `n` has not,
and agreement is that nobody misses any. Without writes no `Missing(n)` grows, a delivery takes off it whatever its snapshot knows, and
agreement, once reached, stays; the lemma it rests on is `NothingNewInFlight` (no snapshot holds a fact that no node holds). What
fairness adds, and TLC checks, is that the deliveries happen. `WritesStay` holds with every cap: an entry leaves a replica only because a node that
showed it deleted or overwrote it (`NothingVanishes`), and until then its author shows it (`LiveAtAuthor`).
`PullCatchesUp` is about digests, which name tags only: however stale the one that is answered, the
one who merges the answer has heard of the newest entry of each key the answerer shows, or had told of one not older, and knows all its tombstones.

For the restarts of `GossipRestart` the invariant is taken apart. `Base` (types, and where everything
came from) survives a crash and gives `CrashesContained`: with any number of crashes the caps hold, removals are of entries
that were observed, and nothing is in the system that nobody wrote. What a crash breaks is the promise of one counter, `Author(a)`;
`HarmIsOnesOwn` shows that it is that of the crashed node alone: for a node `a` that never crashes, its tags stay unique, its removed entries
stay hidden, and what it wrote stays with it until a node that showed it takes it out, whatever happens to the others.

**FleetConfigProofs.** `IInv == AllTraced /\ HistorySound /\ CleanMeansSaved`: every map, file and
snapshot on its way holds only entries that were written and tombstones of entries that were
replaced. It gives `CleanIsSaved`, and `OnlyOperatorsRemove` as an action property:
a merge that removes an entry does so for a tombstone, whose tag belongs, until a tag is issued
twice, to that entry alone. `TypeCorrect` rests on `Few`: what was written is finite, so every key that an agent applies has a winner.
`FileStaysBehind` rests on `Kept`: map and file are within the caps, so that a restart takes up the whole file, and a map only learns,
as long as there is room for the tombstones of everything ever written (`RoomForTombstones`). A load that fails is the one way for
the file to get ahead of the map, and lasts until the next save: `FileBehindMap` speaks of the time when the file is not `unread`.

What the proxies get is `ProxyHasTheMap`: no proxy is given a setting that nobody set (`AppliedWereSet`), and between two heartbeats
it has just what its agent's map says (`AppliedIsMap`), also after a heartbeat that gave up half-way.
`HeartbeatsSync`, the safety half of `SettingsReachProxies`, is an action property: a heartbeat that gets to `MergeAnswer` leaves the agent with the very map the
dashboard answered with, and its proxy with that map's settings. The dashboard has by then merged what
the agent sent (`RoundTrip`), so that the join adds nothing to the answer; `RemovedHidden` (no map shows what it has buried) makes
the two maps equal and not merely as large. It holds while all that was written fits under the caps
(`RoomForAll`) and until a crash made the dashboard issue a tag again.

**TransportPoolProofs.** `IInv` adds to the type invariant what the code leaves implicit: an
awaiting call knows its peer and, past the lookup, a connection that was opened (`Engaged`); a link is lost only where
the other side ended it (`LostIsCut`); a frame that was written is still on its connection, or the other side ended
that connection (`SentOrCut`); pool and handlers are finite sets within their limits (`Limits`). Each step is first shown to
let connections only evolve (`Evolves`: none is forgotten, its opener stays known, a cut one stays cut),
which the other parts then use. Results: `TypeCorrect` (two attempts at most), `ConnectionsStayBounded`,
`RetriesAreFresh`, `TrueIsSent`.

Three more say why the asyncio code needs no further lock. `WritersExclude`: on every connection at most one call is between its write and the end of its
drain, and a lock is taken only while such a call exists (`LockIsDrain`), so that frames never interleave and no
lock outlives its holder, also when the holder is cancelled. `FramesReachTheirPeer`: the pool's entry of a
peer, the connection a call has in hand, and each frame on a connection belong to the address they are kept under, through
every close, retry and replacement. `CallsAreFinite`: each step of a call takes at least one off `StepsLeft`, eight at
most, and no step of another call adds to it; `SendsReturn` needs fairness besides.

**FleetProxyProofs.** The invariant is the conjunction of `TypeParts`, `AllCareful` (a client that is there has had at most
the current backend asked for it, and none on the way to another), `CountsMatch`, `Quiet` and `Queued` (a handler has a job only
while it deals with a backend; the line for threads holds each waiting request once). It gives `TypeCorrect`,
`SecondIsForNobody` (what is behind the violation of `FleetFailsOver`: no client that waits ever has a second backend asked for it), `CountsAreRight` (the test in `release()` never fails), and the action property
`StuckIsForGood`: none of the steps of the request itself is enabled, and no other request touches its queue. `AllTold` says what a client that
is there has been sent at each stage of its handler (nothing before the head, an open stream after it), which gives `AnswersAreOne`. `AllFlow` says that
what the reader has read was taken, is in the queue or is about to be put, and that the end mark is the last it puts, unless something failed, which
gives `EndMarkIsLast`.

The two parts of `EndsUnlessStuck` that are not about fairness are theorems. `OnlyStuckStops`: while a request has not ended, the handler
of some request, a thread, or the line for threads can take a step, or a request is `Stuck`; between handlers, bounded queues and a
limited number of threads there is no other deadlock. That a step can be taken is said by the guards of the actions, written out as
`HandlerReady`, `ThreadReady` and `JobReady`, since `ENABLED` is out of the prover's reach; `MovesAreReady` shows that
they are no wider than the actions need, and TLC, asked once on a small instance, found them equal to `ENABLED`. The invariants are `AllStaged` (how far the job is at each stage of
its handler) and `InLine` (a job that waits is in the line). `RequestsAreFinite`: `Rank`, from the handler's stage, the job's state, the backend still to
ask and the lines still to come, is at most `34 + 8 * MaxLines`; each step of a request takes one off at least, and nothing another request does adds to it.
Requests form a finite set (`ProxyAssumption`), since counts are cardinalities.

**MeshAgentProofs.** `IInv == TypeOK /\ Ordered /\ Accounted /\ Spent`. `Ordered`: what the dashboard was told, what is being
posted and what is in the log are numbers that increase and none exceeds `recorded`; `EventsOnce` says the same of
the three put in line, but not that a new event is the largest. `Accounted`: during an eject, what is loaded
is still to be unloaded, has failed, or has arrived since. `Spent`: where no two pulls of a model have met, the commands to cancel it cover its
cancelled pulls and its flag, and at most one of its pulls is active, so that the flag a pull has seen is still up when it takes it down;
without that second part `CancelsSpent` is not inductive. The three give `EventsToldOnce`, `CancelSpentOnce` and `EjectExplained`,
for any number of events, commands and models.

`EventsOnce` allows that the dashboard never hears of an event at all. `LossesExplained` says when: the log holds the latest events without a gap
(`LogIsLatest`), events go missing only with a post that failed or in a log that was full (`LossExplained`), and a post that arrives
with news before the log has filled again makes an end of what was missing (`PostCatchesUp`). The
link between the log and the batch that is being posted is `LogFollows`.

**EntropyAgentProofs.** `TypeCorrect` holds the counters within their limits for every choice of the limits with a positive budget
and minimum; `BudgetKept` is the refinement of `SilenceBudget`: every call is a step that speaks, a skip within the budget, or a
stutter. `PartitionNears` is what `PartitionNoticed` needs besides fairness: `RoundsToSuspicion`, the cooldown and the rounds without growth still to come,
is bounded; while nothing changes no call moves it away and each `get_k()` brings it nearer; at 0 the sleeps are all that
keeps a partition from being reported.

**CheckpointsProofs.** Five results, each from an invariant of its own. `IInv == Typed /\ Covered` gives `WritesComeFirst`: `WritesBeforeCheckpoint`
speaks of the key `latest` only, but a number gets there from other keys and from calls, by a copy between threads, a put that
has read its parent, a push or a crash. `Covered` therefore says of every place a number can be in, and can come from, that its
pending writes are in the same map. `Undisturbed`, inductive together with `IInv`, gives `TornOnlyThen`: for each call it says which
of the keys it has dealt with have their value by now (`PutSound`, `DeleteSound`, `CopySound`; `PruneSound`: a prune touches no key of
the checkpoint itself), as long as the call is trusted: nobody has met it, or its thread is not spoilt. `SoleWriters` says that a
trusted writer has its thread for itself. A put that loses a key to a full map is not trusted any more, and its thread is spoilt. The steps come in three kinds, one lemma for each: a writer comes (`BeginStep`), it
goes on or ends (`WriterStep`), and steps no checkpoint depends on (`BystanderStep`). `Remembered` gives `LatestInHistory`:
a thread that nobody writes has its current checkpoint in a slot unless it is marked as pruned, copied to, or without room for the entry, and it stays marked while a prune or a
copy is under way, whoever else ends there. `Readable` gives
`ReadsComeNear`: what a put has set is newer than what it replaces (`PutFresh`), and what a reader has got is as it is now, if it is alone,
or near it, if only puts in a row met it (`ReadSound`). `Counts` gives `TypeCorrect`: the counter and the puts that have yet
to count are together at most the checkpoints put, also after a crash set the counter back.

**Model-checked only.** Liveness under fairness, which is out of the prover's reach. For five of the seven properties the part that is
not fairness is proved, as a variant that goes down or a state that can be left:

| checked by TLC | proved |
|---|---|
| `Convergence` | `ConvergenceNears` |
| `SettingsReachProxies` | `HeartbeatsSync`, `ProxyHasTheMap` |
| `SendsReturn` | `CallsAreFinite` |
| `EndsUnlessStuck` | `OnlyStuckStops`, `RequestsAreFinite` |
| `PartitionNoticed` | `PartitionNears` |
| `LogDrained`, `CancelHeeded` | nothing yet |

Every invariant, action property and refinement that a passing run checks is also proved.

**Conditions.** Some theorems say less than all of `Spec`, for reasons in the code. `StoresImplementMap`, `FileStaysBehind` and
`HeartbeatsSync` hold while no more is written than the caps leave room for, since an eviction does forget; `ConvergenceNears` for
the same reason speaks of stores that are not `saturated`. The runs' bounds meet these conditions, except that `config_sync` also has a full map
(`MAX_KEYS` is 1), where `merge()` may leave a key out: what its liveness property says there, TLC alone shows. `HeartbeatsSync` and `OnlyOperatorsRemove` hold until a restarted dashboard has used a tag again. `OverwritesAreAtomic` and `OverwritesKeepKeys` are about stores that push full states (`PushSpec`).
`HarmIsOnesOwn` assumes of one node that it does not crash; of `RestartSpec` as a whole `DeadStaysHidden` is false.


## 5. What the models show about the code

* `delete_last_key`: `_gossip_loop` pushes only if the map has keys (`store.py:394`). After
  the last key is deleted the tombstone stays where it is and peers show the key for ever.
  `Convergence` holds because it speaks only of nodes that have something to push.
* `restart_tags`: a node that restarts with its id issues `(node, 1)` again (`crdt.py:47`)
  while its peers hold another entry of that tag.
* `proxy_requests`: `Stuck` is reached. A client whose connection breaks while its queue is full makes the handler
  leave its loop and wait for the reader (`proxy.py:1035` and `:1166`), while the reader waits for room in the queue (`:988`, `:1131`).
  Neither ever ends, the node's connection count stays up, and the thread is lost to the whole agent.
  Asked for `EndsUnlessStuck` without its second case, TLC shows it with one request.
* `fleet_failover`: "Automatic failover: if the selected backend fails, the caller retries with the next candidate from the ordered
  list" (`router.py:211`; also `router.py:10` and `:278`, `proxy.py:575`, and "Local fallback" at `proxy.py:701`). The fallback of
  `_handle_chat_completions` (`proxy.py:779`) is meant for a fleet target that fails, but the functions it calls answer the client
  themselves when a backend fails (`proxy.py:909`, `:1039`, `:1074`, `:1170`), and no other is asked. What reaches the fallback is
  a body that does not translate, for which no backend was asked, and a client that has left, for whom a whole request is
  then repeated on the local backend (`SecondIsForNobody`). `select_ordered` has no caller outside the tests.

What the models show of the code without a run of its own, and what was read from the source:

* Gossip. A digest names the highest tag of each key (`gossip.py:162`), so that a delta leaves out an entry under a lower
  tag; pushes of full states repair it. A DELTA carries reply port 0, and the wish list in it is never served (`Responses` is
  empty for it).
* Fleet configuration. The restarted dashboard issues tags again, and removing one setting can then make another one
  vanish at an agent, which is why `OnlyReplacedVanish` and `SettingsReachProxies` hold only until a tag is issued twice. `merge()`
  neither saves nor flags a merge that brought only tombstones, so that a crash forgets them until an agent brings them back.
  A file that cannot be loaded is kept only until the next save, which replaces it by what the new map has (`config.py:355`).
* Transport. A send that failed removes the pool's entry of its peer (`transport.py:330`), which may be a working connection of another
  send; that connection stays open and nobody owns it. A failed `stop()` (`StopRaises`) leaves the server listening.
* Agent. "Nodes auto-pull and auto-delete to converge" (`README.md:42`), but `agent.py:750` calls `asyncio.create_task` in a
  worker thread, where no loop is running: the call raises, the loop logs it, and no reconciliation starts. URL and
  name of the engine are read one after the other (`agent.py:783`), so that a command may go to one engine under the name of another, and a
  list that was emptied in between ends the whole batch. A cancel that comes after its pull stays up and cancels the next
  pull of that model.
* Checkpoints. `ORMap.set()` drops a new key without a word when the map has `MAX_KEYS` keys (`crdt.py:55`), and the keys of pending
  writes, which nothing removes, fill it in ordinary use. A later `put()` still overwrites `latest`, and may lose the parent it has no key for yet, or
  its slot in the history; `put()` returns as always. Pending writes survive `delete_thread()` and belong to no checkpoint: a new thread of that id finds them. A put on
  a thread without a checkpoint does not clear the parent another writer left. The history counter is shared by all threads and
  starts at 0 again in a new process, so that slots are overwritten out of order, recent ones before older ones; the current checkpoint is in the history all the same
  (`HistoryHasLatest`), unless the map was full.


## 6. What is left out

* Encoding, HMAC, TLS, framing and malformed input: a written frame arrives as it was or not at all.
* Statistics, change callbacks, logging.
* Wall-clock time: the TTL, the debounce interval and the timeouts are steps that may happen.
* The Rust twin differs from `crdt.py` in three places: `set()` does not look at `MAX_KEYS`, ties in
  eviction are broken arbitrarily, and the result of `merge()` subtracts dropped keys. It is not modelled.
* A2A rooms (`a2a/state.py`): the map and the file are those of `FleetConfig`, without its debounce. What is new is the presence
  key, whose reissued tag after a restart is what `restart_tags` shows.
* `list()` and the async variants of the checkpointer: `list()` reads the history slots as `get_tuple()` reads its keys,
  and the variants call the same methods directly, on the event loop, where each runs without another in between: `Checkpoints` has all the
  interleavings of threads that call them. The keys `ts` and `versions` are never read.
* A peer's merge at `MAX_KEYS` (`crdt.py:140`) is not part of `Checkpoints`: `Gossip` gives the peer the whole map, as to a peer with room.
  A peer without room may take some keys of a checkpoint and leave others, in the order the snapshot lists them.
* The CrewAI integration keeps one key for each run and writes it whole.
* The passthrough of the OpenAI routes, telemetry values, detection of hardware, and the command line: no state that a later
  step depends on.


## 7. Plan

Done: the modules of section 2 and the proofs of section 4. What a continuation would take up:

1. `SharedRoom`: the A2A room with its presence keys and its file, as a variation of `FleetConfig`.
2. The reconciliation of desired models, once the code can start it, with its guard `_pull_in_progress`.
3. `EntropyAgent` in place of the constant `Fanout` of `GossipStore`, and the Rust variant of `ORMap`.
4. Proofs: what `ObservedRemoveMap` itself promises (so that the stores inherit it through `StoresImplementMap`), variants behind `LogDrained` and
   `CancelHeeded`, and the checkpointer without interference as a refinement of a store that writes in one step.
