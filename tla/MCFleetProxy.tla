---------------------------- MODULE MCFleetProxy ----------------------------
(* Instances of FleetProxy for TLC. *)
EXTENDS FleetProxy
=============================================================================
