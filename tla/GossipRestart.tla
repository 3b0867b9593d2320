--------------------------- MODULE GossipRestart ---------------------------
(***************************************************************************)
(* GossipStore with process crashes.  AgentStateStore keeps nothing on     *)
(* disk: a node that comes back is a new object built with the same        *)
(* node_id, as examples/demo_crash_recovery.py does, and recovers the      *)
(* map, but not _seq, from its peers.                                      *)
(***************************************************************************)
EXTENDS GossipStore

CONSTANT MaxRestarts    \* bound: crashes, in all

VARIABLE restarts

Crash(n) ==
    /\ restarts < MaxRestarts
    /\ restarts' = restarts + 1
    /\ crdt' = [crdt EXCEPT ![n] = EmptyReplica]
    /\ seq' = [seq EXCEPT ![n] = 0]
    /\ peers' = [peers EXCEPT ![n] = {}]
    /\ phase' = [phase EXCEPT ![n] = "stopped"]
    /\ scan' = [scan EXCEPT ![n] = NoScan]
    /\ UNCHANGED <<net, issued, kills, saturated>>

RestartInit == Init /\ restarts = 0

RestartNext ==
    \/ Next /\ UNCHANGED restarts
    \/ \E n \in Node : Crash(n)

RestartSpec == RestartInit /\ [][RestartNext]_<<vars, restarts>>
=============================================================================
