---------------------------- MODULE MCCheckpoints ----------------------------
(* Instances of Checkpoints for TLC.  Callers are alike, and so are threads. *)
EXTENDS Checkpoints, TLC

Symmetry == Permutations(Caller) \cup Permutations(Thread)
=============================================================================
