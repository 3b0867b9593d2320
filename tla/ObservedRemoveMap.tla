------------------------- MODULE ObservedRemoveMap -------------------------
(***************************************************************************)
(* What the replicated map promises its users, without messages, caps or   *)
(* sequence numbers: every write is an entry of its own under a tag nobody *)
(* used before; a write or a delete kills exactly the entries its node     *)
(* sees under the key; and a node learns, at any time and in any order and *)
(* portion, of entries that were written and of deaths that happened.      *)
(***************************************************************************)
CONSTANTS Node, Key, Value, Tag

VARIABLES
    written,   \* every entry ever written
    alive,     \* alive[n]: the entries node n shows
    dead       \* dead[n]: the tags node n knows to be dead

vars == <<written, alive, dead>>

Init ==
    /\ written = {}
    /\ alive = [n \in Node |-> {}]
    /\ dead = [n \in Node |-> {}]

Seen(n, k) == {e \in alive[n] : e.key = k}

(* The node's view once it shows no entry of S any more but those of E. *)
Replace(n, S, E) ==
    /\ alive' = [alive EXCEPT ![n] = (@ \ S) \cup E]
    /\ dead' = [dead EXCEPT ![n] = @ \cup {e.tag : e \in S}]

Write(n, k, v, t) ==
    /\ \A e \in written : e.tag # t
    /\ LET entry == [key |-> k, value |-> v, tag |-> t]
       IN  /\ written' = written \cup {entry}
           /\ Replace(n, Seen(n, k), {entry})

Remove(n, k) ==
    /\ Replace(n, Seen(n, k), {})
    /\ UNCHANGED written

(* Entries E and deaths D reach node n. *)
Learn(n, E, D) ==
    /\ dead' = [dead EXCEPT ![n] = @ \cup D]
    /\ alive' = [alive EXCEPT ![n] = {e \in @ \cup E : e.tag \notin dead'[n]}]
    /\ UNCHANGED written

Next ==
    \/ \E n \in Node, k \in Key, v \in Value, t \in Tag : Write(n, k, v, t)
    \/ \E n \in Node, k \in Key : Remove(n, k)
    \/ \E n \in Node, E \in SUBSET written, D \in SUBSET UNION {dead[m] : m \in Node} :
          Learn(n, E, D)

Spec == Init /\ [][Next]_vars
=============================================================================
