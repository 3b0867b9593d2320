--------------------------- MODULE MCGossipStore ---------------------------
(* Instances of GossipStore for TLC.  Node ids are numbers, because tags   *)
(* are ordered, so nodes are not symmetric.                                *)
EXTENDS GossipStore

One == {1}
Two == {1, 2}

(* Every node has been told of every other and none has started: the state *)
(* after the AddPeer steps.  From here nodes write, start, greet, gossip   *)
(* and stop, with peer lists that no longer change.                        *)
MeshFrom(start) ==
    /\ crdt = [n \in Node |-> EmptyReplica]
    /\ seq = [n \in Node |-> 0]
    /\ peers = [n \in Node |-> Node \ {n}]
    /\ phase = [n \in Node |-> start]
    /\ scan = [n \in Node |-> NoScan]
    /\ net = {}
    /\ issued = {}
    /\ kills = {}
    /\ saturated = FALSE

MeshSpec ==
    /\ MeshFrom("stopped")
    /\ [][Write \/ Greet \/ Gossip \/ \E n \in Node : Stop(n)]_vars

(* Every node runs as well: the state after StartAlone and AddPeer steps.  *)
(* From here nodes write and push.                                         *)
WarmSpec ==
    /\ MeshFrom("running")
    /\ [][Write \/ Gossip]_vars
=============================================================================
