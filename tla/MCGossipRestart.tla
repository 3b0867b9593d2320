-------------------------- MODULE MCGossipRestart --------------------------
(* Instances of GossipRestart for TLC. *)
EXTENDS GossipRestart

Two == {1, 2}
One == {1}
=============================================================================
