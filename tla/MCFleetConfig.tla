--------------------------- MODULE MCFleetConfig ---------------------------
(* Instances of FleetConfig for TLC.  The dashboard is node 0. *)
EXTENDS FleetConfig

Dash == 0
Zero == {0}
=============================================================================
