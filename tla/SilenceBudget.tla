---------------------------- MODULE SilenceBudget ----------------------------
(* What an adaptive gossip scheduler owes the node that asks it: rounds may *)
(* be skipped, but never Budget of them in a row.  EntropyAgent implements  *)
(* this specification.                                                      *)
EXTENDS Naturals

CONSTANT Budget     \* positive: MAX_CONSECUTIVE_SLEEPS

VARIABLES
    silent,     \* rounds skipped since the last one that gossiped
    spoke       \* whether the last round gossiped

vars == <<silent, spoke>>

Init ==
    /\ silent = 0
    /\ spoke = TRUE

Speak ==
    /\ silent' = 0
    /\ spoke' = TRUE

Skip ==
    /\ silent + 1 < Budget
    /\ silent' = silent + 1
    /\ spoke' = FALSE

Next == Speak \/ Skip

Spec == Init /\ [][Next]_vars
=============================================================================
