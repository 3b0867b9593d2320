----------------------------- MODULE MCMeshAgent -----------------------------
(* Instances of MeshAgent for TLC. *)
EXTENDS MeshAgent
=============================================================================
