-------------------------- MODULE MCTransportPool --------------------------
(* Instances of TransportPool for TLC. *)
EXTENDS TransportPool

CONSTANTS First, Home

(* No action and no property tells one call, or one peer, from another: it *)
(* is enough to follow the runs in which a given call is the first to be   *)
(* made, and goes to a given peer.  Only calls are cut off by this, and    *)
(* nothing obliges anybody to call.                                        *)
InOrder ==
    /\ calls[First].peer \in {None, Home}
    /\ \A s \in Send : calls[s].at # "uncalled" => calls[First].at # "uncalled"
=============================================================================
