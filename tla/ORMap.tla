------------------------------- MODULE ORMap -------------------------------
(***************************************************************************)
(* The observed-remove map of propagul/crdt.py as operators on replicas.   *)
(*                                                                         *)
(* A replica is what ORMap keeps in _entries and _tombstones and what its  *)
(* snapshot() puts on the wire.  _entries, a dictionary of lists of        *)
(* Entry(value, tag), is a set of records [key, value, tag]: a key is in   *)
(* the dictionary when some record has it.  The order inside a list or a   *)
(* dictionary matters only where a cap stops a loop early, and there the   *)
(* operators return every outcome some order gives.                        *)
(*                                                                         *)
(* The sequence counter _seq is not part of a replica: no merge reads or   *)
(* writes it.                                                              *)
(***************************************************************************)
EXTENDS Integers, FiniteSets, FiniteSetsExt

CONSTANTS
    Node,                 \* node ids, the first half of a tag
    Key,                  \* application keys
    Value,                \* application values
    MAX_TOMBSTONES,       \* the three safety caps of crdt.py
    MAX_ENTRIES_PER_KEY,
    MAX_KEYS

ASSUME NodeAssumption == Node \subseteq Nat
ASSUME CapAssumption == /\ MAX_TOMBSTONES \in Nat \ {0}
                        /\ MAX_ENTRIES_PER_KEY \in Nat \ {0}
                        /\ MAX_KEYS \in Nat \ {0}

-----------------------------------------------------------------------------
(* Tags, entries and replicas. *)

Tag == Node \X (Nat \ {0})

Entry == [key : Key, value : Value, tag : Tag]

Replica == [entries : SUBSET Entry, tombstones : SUBSET Tag]

EmptyReplica == [entries |-> {}, tombstones |-> {}]

KeysOf(E) == {e.key : e \in E}

TagsOf(E) == {e.tag : e \in E}

At(E, k) == {e \in E : e.key = k}

(* Every tag a replica has heard of, alive or dead. *)
Known(r) == TagsOf(r.entries) \cup r.tombstones

(* Python's order on tags as tuples: node id first, then sequence number. *)
TagLess(t, u) == \/ t[1] < u[1]
                 \/ t[1] = u[1] /\ t[2] < u[2]

(* The order in which tombstones are evicted: sequence number first. *)
EvictedBefore(t, u) == \/ t[2] < u[2]
                       \/ t[2] = u[2] /\ t[1] < u[1]

(* The entry max(entries, key = tag) picks: get() returns its value and    *)
(* build_digest its tag.                                                   *)
Winner(E, k) ==
    CHOOSE e \in At(E, k) : \A f \in At(E, k) : ~ TagLess(e.tag, f.tag)

-----------------------------------------------------------------------------
(* Writes. *)

(* Keep at most MAX_TOMBSTONES tombstones, evicting the oldest first. *)
GC(T) ==
    IF Cardinality(T) <= MAX_TOMBSTONES
    THEN T
    ELSE {t \in T : Cardinality({u \in T : EvictedBefore(t, u)}) < MAX_TOMBSTONES}

(* set() drops the write of a new key when the map is full. *)
Accepts(r, k) ==
    \/ k \in KeysOf(r.entries)
    \/ Cardinality(KeysOf(r.entries)) < MAX_KEYS

(* Slips: the new entry goes in before its predecessors are buried; the    *)
(* predecessors are not buried at all.                                     *)
SetKeyBuriesItself(r, k, v, tag) ==
    [entries    |-> (r.entries \ At(r.entries, k))
                        \cup {[key |-> k, value |-> v, tag |-> tag]},
     tombstones |-> GC(r.tombstones \cup TagsOf(At(r.entries, k)) \cup {tag})]

SetKeyBuriesNothing(r, k, v, tag) ==
    [entries    |-> (r.entries \ At(r.entries, k))
                        \cup {[key |-> k, value |-> v, tag |-> tag]},
     tombstones |-> r.tombstones]

SetKey(r, k, v, tag) ==
    [entries    |-> (r.entries \ At(r.entries, k))
                        \cup {[key |-> k, value |-> v, tag |-> tag]},
     tombstones |-> GC(r.tombstones \cup TagsOf(At(r.entries, k)))]

DeleteKey(r, k) ==
    [entries    |-> r.entries \ At(r.entries, k),
     tombstones |-> GC(r.tombstones \cup TagsOf(At(r.entries, k)))]

-----------------------------------------------------------------------------
(* Merge. *)

(* Slip: a key that has a value here takes none from the remote. *)
FreshForNewKeys(mine, theirs) ==
    {e \in theirs.entries : /\ e.tag \notin mine.tombstones
                            /\ At(mine.entries, e.key) = {}}

(* The remote entries the first loop of merge() would like to add. *)
Fresh(mine, theirs) ==
    {e \in theirs.entries : /\ e.tag \notin mine.tombstones
                            /\ e.tag \notin TagsOf(At(mine.entries, e.key))}

AtMost(n, m) == IF n <= m THEN n ELSE m

(* Slip: the first loop does not look at MAX_KEYS. *)
AdmissionsUncapped(mine, theirs) ==
    {KeysOf(mine.entries) \cup KeysOf(theirs.entries)}

(* The keys the first loop opens: all those already present, and new ones  *)
(* while there is room.  A new key takes its slot even when every entry it *)
(* brings is already dead here.                                            *)
Admissions(mine, theirs) ==
    LET newKeys == KeysOf(theirs.entries) \ KeysOf(mine.entries)
        room    == AtMost(Cardinality(newKeys),
                          MAX_KEYS - Cardinality(KeysOf(mine.entries)))
    IN  {KeysOf(mine.entries) \cup N : N \in kSubset(room, newKeys)}

(* The sets of entries the first loop may add, one per iteration order. *)
Adoptions(mine, theirs) ==
    {A \in SUBSET Fresh(mine, theirs) :
        \E K \in Admissions(mine, theirs) :
            /\ KeysOf(A) \subseteq K
            /\ \A k \in K :
                  Cardinality(At(A, k)) =
                      AtMost(Cardinality(At(Fresh(mine, theirs), k)),
                             MAX_ENTRIES_PER_KEY - Cardinality(At(mine.entries, k)))}

(* The sets of remote tombstones the second loop may absorb. *)
Absorptions(mine, theirs) ==
    LET unseen == theirs.tombstones \ mine.tombstones
        room   == MAX_TOMBSTONES - Cardinality(mine.tombstones)
    IN  kSubset(AtMost(Cardinality(unseen), room), unseen)

(* Both loops done: drop what the tombstones kill, then evict. *)
Settled(E, T) ==
    [entries    |-> {e \in E : e.tag \notin T},
     tombstones |-> GC(T)]

(* Slip: the remote's tombstones replace the local ones. *)
MergesForgetting(mine, theirs) ==
    {Settled(mine.entries \cup A, theirs.tombstones) : A \in Adoptions(mine, theirs)}

(* Every replica merge() may leave behind. *)
Merges(mine, theirs) ==
    {Settled(mine.entries \cup A, mine.tombstones \cup B) :
        A \in Adoptions(mine, theirs), B \in Absorptions(mine, theirs)}

(* The replicas and snapshots of S taken together stay within the caps. *)
Fits(S) ==
    LET E == UNION {s.entries : s \in S}
    IN  /\ Cardinality(UNION {s.tombstones : s \in S}) <= MAX_TOMBSTONES
        /\ Cardinality(KeysOf(E)) <= MAX_KEYS
        /\ \A k \in KeysOf(E) : Cardinality(At(E, k)) <= MAX_ENTRIES_PER_KEY

(* The replica merge() leaves behind when no cap interferes. *)
Join(mine, theirs) ==
    [entries    |-> {e \in mine.entries \cup Fresh(mine, theirs) :
                        e.tag \notin mine.tombstones \cup theirs.tombstones},
     tombstones |-> mine.tombstones \cup theirs.tombstones]
=============================================================================
