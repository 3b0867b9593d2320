--------------------------- MODULE MCEntropyAgent ---------------------------
(* Instances of EntropyAgent for TLC, with the limits the code has. *)
EXTENDS EntropyAgent

Bursts == {-1, 2, 18, 40}
Sizes == {0, 1}
=============================================================================
