---------------------------- MODULE ORMapProofs ----------------------------
(***************************************************************************)
(* What the operators of ORMap return, for every value of the caps: what   *)
(* they are made of, that tombstones win, that merge() is a function while *)
(* the caps are not reached, and that this function is commutative,        *)
(* associative and idempotent on replicas whose tags are unique.           *)
(***************************************************************************)
EXTENDS ORMap, FiniteSetTheorems, TLAPS

(* Tags identify entries throughout E. *)
Coherent(E) == \A e, f \in E : e.tag = f.tag => e = f

(* What the code keeps of a replica: no visible entry is dead. *)
Clean(r) == TagsOf(r.entries) \cap r.tombstones = {}

Finite(r) == IsFiniteSet(r.entries) /\ IsFiniteSet(r.tombstones)

-----------------------------------------------------------------------------

(* Eviction only removes, and removes nothing up to the cap. *)
LEMMA GCSubset ==
    ASSUME NEW T PROVE GC(T) \subseteq T
BY DEF GC

LEMMA GCWithinCap ==
    ASSUME NEW T, Cardinality(T) <= MAX_TOMBSTONES PROVE GC(T) = T
BY DEF GC

Chosen(a, b, r) ==
    \E A \in Adoptions(a, b), B \in Absorptions(a, b) :
       r = Settled(a.entries \cup A, a.tombstones \cup B)

(* An outcome of merge() stems from some choice in each of its two loops. *)
LEMMA MergesElim ==
    ASSUME NEW a, NEW b, NEW r \in Merges(a, b)
    PROVE  Chosen(a, b, r)
<1> DEFINE F(X, Y) == Settled(a.entries \cup X, a.tombstones \cup Y)
<1>1. Merges(a, b) = {F(X, Y) : X \in Adoptions(a, b), Y \in Absorptions(a, b)}
    BY DEF Merges
<1> HIDE DEF F
<1>2. \E A \in Adoptions(a, b), B \in Absorptions(a, b) : r = F(A, B)
    BY <1>1
<1> QED BY <1>2 DEF F, Chosen

(* merge() invents nothing: its outcome is made of what the two sides hold. *)
LEMMA MergesContents ==
    ASSUME NEW a \in Replica, NEW b \in Replica, NEW r \in Merges(a, b)
    PROVE  /\ r \in Replica
           /\ r.entries \subseteq a.entries \cup b.entries
           /\ r.tombstones \subseteq a.tombstones \cup b.tombstones
           /\ Clean(r)
<1>0. Chosen(a, b, r)
    BY MergesElim
<1>1. PICK A \in Adoptions(a, b), B \in Absorptions(a, b) :
          r = Settled(a.entries \cup A, a.tombstones \cup B)
    BY <1>0 DEF Chosen
<1>2. A \subseteq b.entries
    BY <1>1 DEF Adoptions, Fresh
<1>3. B \subseteq b.tombstones
    BY <1>1 DEF Absorptions, kSubset
<1>4. /\ r.entries = {e \in a.entries \cup A : e.tag \notin a.tombstones \cup B}
      /\ r.tombstones = GC(a.tombstones \cup B)
      /\ r = [entries |-> r.entries, tombstones |-> r.tombstones]
    BY <1>1 DEF Settled
<1>5. r.tombstones \subseteq a.tombstones \cup B
    BY <1>4, GCSubset
<1>6. Clean(r)
    BY <1>4, <1>5 DEF Clean, TagsOf
<1>7. r \in Replica
    BY <1>2, <1>3, <1>4, <1>5 DEF Replica
<1> QED BY <1>2, <1>3, <1>4, <1>5, <1>6, <1>7

(* Any choice the two loops may make is an outcome. *)
LEMMA MergesIntro ==
    ASSUME NEW a \in Replica, NEW b \in Replica,
           NEW A \in Adoptions(a, b), NEW B \in Absorptions(a, b)
    PROVE  Settled(a.entries \cup A, a.tombstones \cup B) \in Merges(a, b)
<1> DEFINE F(X, Y) == Settled(a.entries \cup X, a.tombstones \cup Y)
<1>1. Merges(a, b) = {F(X, Y) : X \in Adoptions(a, b), Y \in Absorptions(a, b)}
    BY DEF Merges
<1> HIDE DEF F
<1>2. F(A, B) \in {F(X, Y) : X \in Adoptions(a, b), Y \in Absorptions(a, b)}
    OBVIOUS
<1>3. F(A, B) \in Merges(a, b)
    BY <1>1, <1>2
<1> QED BY <1>3 DEF F

(* A local entry that merge() drops was dead on one of the two sides. *)
LEMMA MergesDrop ==
    ASSUME NEW a \in Replica, NEW b \in Replica, NEW r \in Merges(a, b),
           NEW e \in a.entries, e \notin r.entries
    PROVE  e.tag \in a.tombstones \cup b.tombstones
<1>0. Chosen(a, b, r)
    BY MergesElim
<1>1. PICK A \in Adoptions(a, b), B \in Absorptions(a, b) :
          r = Settled(a.entries \cup A, a.tombstones \cup B)
    BY <1>0 DEF Chosen
<1>2. B \subseteq b.tombstones
    BY <1>1 DEF Absorptions, kSubset
<1> QED BY <1>1, <1>2 DEF Settled

(* The loops of merge() leave nothing out while everything fits. *)
LEMMA SubsetOfAll ==
    ASSUME NEW S, IsFiniteSet(S), NEW room \in Int, Cardinality(S) <= room,
           NEW T \in SUBSET S, Cardinality(T) = AtMost(Cardinality(S), room)
    PROVE  T = S
<1>1. Cardinality(T) = Cardinality(S)
    BY FS_CardinalityType DEF AtMost
<1> QED BY <1>1, FS_Subset

LEMMA DisjointUnion ==
    ASSUME NEW S, NEW T, NEW U, NEW cap \in Int, IsFiniteSet(U), Cardinality(U) <= cap,
           S \cup T \subseteq U, S \cap T = {}
    PROVE  /\ IsFiniteSet(S) /\ IsFiniteSet(T)
           /\ Cardinality(S) \in Int /\ Cardinality(T) \in Int
           /\ Cardinality(T) <= cap - Cardinality(S)
<1>1. IsFiniteSet(S) /\ IsFiniteSet(T) /\ IsFiniteSet(S \cup T)
    BY FS_Subset
<1>2. Cardinality(S) \in Nat /\ Cardinality(T) \in Nat /\ Cardinality(U) \in Nat
    BY <1>1, FS_CardinalityType
<1>3. Cardinality(S \cup T) = Cardinality(S) + Cardinality(T)
    <2>1. Cardinality(S \cup T) =
              Cardinality(S) + Cardinality(T) - Cardinality(S \cap T)
        BY <1>1, FS_Union
    <2>2. Cardinality(S \cap T) = 0
        BY FS_EmptySet, S \cap T = {}
    <2> QED BY <1>2, <2>1, <2>2
<1>4. Cardinality(S \cup T) <= Cardinality(U)
    BY FS_Subset
<1> QED BY <1>1, <1>2, <1>3, <1>4

(* Finiteness of keys and slices. *)
LEMMA FiniteSlices ==
    ASSUME NEW E, IsFiniteSet(E)
    PROVE  /\ IsFiniteSet(KeysOf(E))
           /\ IsFiniteSet(TagsOf(E))
           /\ \A k : IsFiniteSet(At(E, k))
<1>1. \A k : At(E, k) \in SUBSET E
    BY DEF At
<1>2. IsFiniteSet(KeysOf(E))
    <2> DEFINE f == [e \in E |-> e.key]
    <2>1. f \in Surjection(E, KeysOf(E))
        BY DEF KeysOf, Surjection
    <2> QED BY <2>1, FS_Surjection
<1>3. IsFiniteSet(TagsOf(E))
    <2> DEFINE f == [e \in E |-> e.tag]
    <2>1. f \in Surjection(E, TagsOf(E))
        BY DEF TagsOf, Surjection
    <2> QED BY <2>1, FS_Surjection
<1> QED BY <1>1, <1>2, <1>3, FS_Subset

-----------------------------------------------------------------------------

(* The union two replicas make, as Fits measures it. *)
LEMMA FitsTwo ==
    ASSUME NEW a, NEW b, Fits({a, b})
    PROVE  /\ Cardinality(a.tombstones \cup b.tombstones) <= MAX_TOMBSTONES
           /\ Cardinality(KeysOf(a.entries \cup b.entries)) <= MAX_KEYS
           /\ \A k \in KeysOf(a.entries \cup b.entries) :
                 Cardinality(At(a.entries \cup b.entries, k)) <= MAX_ENTRIES_PER_KEY
<1>1. UNION {s.entries : s \in {a, b}} = a.entries \cup b.entries
    OBVIOUS
<1>2. UNION {s.tombstones : s \in {a, b}} = a.tombstones \cup b.tombstones
    OBVIOUS
<1> QED BY <1>1, <1>2 DEF Fits

(* Every key of the remote is opened while the keys fit. *)
LEMMA AdmissionsComplete ==
    ASSUME NEW a, NEW b, Finite(a), Finite(b), Fits({a, b}),
           NEW K \in Admissions(a, b)
    PROVE  K = KeysOf(a.entries \cup b.entries)
<1> DEFINE mine == KeysOf(a.entries)
           new == KeysOf(b.entries) \ mine
           all == KeysOf(a.entries \cup b.entries)
<1>1. all = mine \cup new
    BY DEF KeysOf
<1>2. IsFiniteSet(all)
    <2>1. IsFiniteSet(a.entries \cup b.entries)
        BY FS_Union DEF Finite
    <2> QED BY <2>1, FiniteSlices
<1>3. /\ IsFiniteSet(new) /\ Cardinality(mine) \in Int
      /\ Cardinality(new) <= MAX_KEYS - Cardinality(mine)
    <2>1. Cardinality(all) <= MAX_KEYS
        BY FitsTwo
    <2>3. MAX_KEYS \in Int
        BY CapAssumption
    <2> HIDE DEF mine, new, all
    <2>2. mine \cap new = {}
        BY DEF new
    <2> QED BY <1>1, <1>2, <2>1, <2>2, <2>3, DisjointUnion
<1>4. PICK N \in kSubset(AtMost(Cardinality(new), MAX_KEYS - Cardinality(mine)), new) :
          K = mine \cup N
    BY DEF Admissions
<1>5. N = new
    <2>1. N \in SUBSET new /\ Cardinality(N) = AtMost(Cardinality(new), MAX_KEYS - Cardinality(mine))
        BY <1>4 DEF kSubset
    <2>2. MAX_KEYS - Cardinality(mine) \in Int
        BY <1>3, CapAssumption
    <2> HIDE DEF mine, new, all
    <2> QED BY <1>3, <2>1, <2>2, SubsetOfAll
<1> QED BY <1>1, <1>4, <1>5

(* Every fresh entry is added while keys and entries per key fit. *)
LEMMA AdoptionsComplete ==
    ASSUME NEW a, NEW b, Finite(a), Finite(b), Fits({a, b}),
           NEW A \in Adoptions(a, b)
    PROVE  A = Fresh(a, b)
<1>1. PICK K \in Admissions(a, b) :
          \A k \in K :
              Cardinality(At(A, k)) =
                  AtMost(Cardinality(At(Fresh(a, b), k)),
                         MAX_ENTRIES_PER_KEY - Cardinality(At(a.entries, k)))
    BY DEF Adoptions
<1>2. K = KeysOf(a.entries \cup b.entries)
    BY <1>1, AdmissionsComplete
<1>3. A \subseteq Fresh(a, b)
    BY DEF Adoptions
<1>4. ASSUME NEW k \in K PROVE At(A, k) = At(Fresh(a, b), k)
    <2> DEFINE F == At(Fresh(a, b), k)
               M == At(a.entries, k)
               U == At(a.entries \cup b.entries, k)
               room == MAX_ENTRIES_PER_KEY - Cardinality(M)
    <2>1. IsFiniteSet(U)
        <3>1. IsFiniteSet(a.entries \cup b.entries)
            BY FS_Union DEF Finite
        <3> QED BY <3>1, FiniteSlices
    <2>2. Cardinality(U) <= MAX_ENTRIES_PER_KEY
        BY <1>2, FitsTwo
    <2>8. MAX_ENTRIES_PER_KEY \in Int
        BY CapAssumption
    <2>3. M \cup F \subseteq U
        BY DEF At, Fresh
    <2>4. M \cap F = {}
        BY DEF At, Fresh, TagsOf
    <2>5. At(A, k) \in SUBSET F
        BY <1>3 DEF At
    <2>6. Cardinality(At(A, k)) = AtMost(Cardinality(F), room)
        BY <1>1
    <2> HIDE DEF F, M, U
    <2>7. IsFiniteSet(F) /\ room \in Int /\ Cardinality(F) <= room
        BY <2>1, <2>2, <2>3, <2>4, <2>8, DisjointUnion
    <2> HIDE DEF room
    <2> QED BY <2>5, <2>6, <2>7, SubsetOfAll DEF F
<1>5. ASSUME NEW e \in Fresh(a, b) PROVE e \in A
    <2>1. e.key \in K
        BY <1>2 DEF Fresh, KeysOf
    <2>2. e \in At(Fresh(a, b), e.key)
        BY DEF At
    <2> QED BY <1>4, <2>1, <2>2 DEF At
<1> QED BY <1>3, <1>5

(* Every tombstone is absorbed while tombstones fit. *)
LEMMA AbsorptionsComplete ==
    ASSUME NEW a, NEW b, Finite(a), Finite(b), Fits({a, b}),
           NEW B \in Absorptions(a, b)
    PROVE  a.tombstones \cup B = a.tombstones \cup b.tombstones
<1> DEFINE mine == a.tombstones
           unseen == b.tombstones \ a.tombstones
           all == a.tombstones \cup b.tombstones
           room == MAX_TOMBSTONES - Cardinality(mine)
<1>1. B \in SUBSET unseen /\ Cardinality(B) = AtMost(Cardinality(unseen), room)
    BY DEF Absorptions, kSubset
<1>2. IsFiniteSet(all) /\ Cardinality(all) <= MAX_TOMBSTONES /\ MAX_TOMBSTONES \in Int
    <2>1. IsFiniteSet(all)
        BY FS_Union DEF Finite
    <2>2. Cardinality(all) <= MAX_TOMBSTONES
        BY FitsTwo
    <2>3. MAX_TOMBSTONES \in Int
        BY CapAssumption
    <2> QED BY <2>1, <2>2, <2>3
<1>3. mine \cup unseen \subseteq all /\ mine \cap unseen = {}
    OBVIOUS
<1>4. IsFiniteSet(unseen) /\ room \in Int /\ Cardinality(unseen) <= room
    <2> HIDE DEF mine, unseen, all
    <2> QED BY <1>2, <1>3, DisjointUnion DEF room
<1>5. B = unseen
    <2> HIDE DEF unseen, room
    <2> QED BY <1>1, <1>4, SubsetOfAll
<1> QED BY <1>5

(* Within the caps merge() has one outcome, the join. *)
THEOREM MergeWithinCaps ==
    ASSUME NEW a \in Replica, NEW b \in Replica, Finite(a), Finite(b), Fits({a, b}),
           NEW r \in Merges(a, b)
    PROVE  r = Join(a, b)
<1>0. Chosen(a, b, r)
    BY MergesElim
<1>1. PICK A \in Adoptions(a, b), B \in Absorptions(a, b) :
          r = Settled(a.entries \cup A, a.tombstones \cup B)
    BY <1>0 DEF Chosen
<1>2. A = Fresh(a, b)
    BY <1>1, AdoptionsComplete
<1>3. a.tombstones \cup B = a.tombstones \cup b.tombstones
    BY <1>1, AbsorptionsComplete
<1>4. GC(a.tombstones \cup b.tombstones) = a.tombstones \cup b.tombstones
    BY FitsTwo, GCWithinCap
<1> QED BY <1>1, <1>2, <1>3, <1>4 DEF Settled, Join

(* A join forgets nothing of either side. *)
LEMMA JoinKeepsKnowledge ==
    ASSUME NEW a, NEW b
    PROVE  /\ Known(a) \cup Known(b) \subseteq Known(Join(a, b))
           /\ Join(a, b).tombstones = a.tombstones \cup b.tombstones
<1> DEFINE J == Join(a, b)
<1>1. J.tombstones = a.tombstones \cup b.tombstones
    BY DEF Join
<1>2. J.entries = {e \in a.entries \cup Fresh(a, b) :
                       e.tag \notin a.tombstones \cup b.tombstones}
    BY DEF Join
<1>3. ASSUME NEW e \in a.entries PROVE e.tag \in Known(J)
    BY <1>1, <1>2 DEF Known, TagsOf
<1>4. ASSUME NEW e \in b.entries PROVE e.tag \in Known(J)
    <2>1. CASE e \in Fresh(a, b)
        BY <1>1, <1>2, <2>1 DEF Known, TagsOf
    <2>2. CASE e.tag \in a.tombstones
        BY <1>1, <2>2 DEF Known
    <2>3. CASE e.tag \in TagsOf(At(a.entries, e.key))
        BY <1>3, <2>3 DEF TagsOf, At
    <2> QED BY <2>1, <2>2, <2>3 DEF Fresh
<1> QED BY <1>1, <1>3, <1>4 DEF Known, TagsOf

(* A merge within the caps knows what the two sides know, and only that. *)
LEMMA JoinKnows ==
    ASSUME NEW a, NEW b
    PROVE  /\ Known(Join(a, b)) = Known(a) \cup Known(b)
           /\ Join(a, b).tombstones = a.tombstones \cup b.tombstones
<1>1. Join(a, b).entries \subseteq a.entries \cup b.entries
    BY DEF Join, Fresh
<1>2. Known(Join(a, b)) \subseteq Known(a) \cup Known(b)
    BY <1>1, JoinKeepsKnowledge DEF Known, TagsOf
<1> QED BY <1>2, JoinKeepsKnowledge

(* On replicas with unique tags the join is the plain union, less the dead. *)
LEMMA JoinIsUnion ==
    ASSUME NEW a, NEW b, Coherent(a.entries \cup b.entries)
    PROVE  Join(a, b) =
               [entries    |-> {e \in a.entries \cup b.entries :
                                   e.tag \notin a.tombstones \cup b.tombstones},
                tombstones |-> a.tombstones \cup b.tombstones]
<1> SUFFICES ASSUME NEW e \in b.entries, e \notin a.entries,
                    e.tag \notin a.tombstones
             PROVE  e \in Fresh(a, b)
    BY DEF Join, Fresh
<1>1. e.tag \notin TagsOf(At(a.entries, e.key))
    BY DEF Coherent, TagsOf, At
<1> QED BY <1>1 DEF Fresh

(* "Merge is commutative, associative, and idempotent": replicas that have *)
(* received the same states, in any order and any number of times, agree.  *)
THEOREM MergeCommutes ==
    ASSUME NEW a, NEW b, Coherent(a.entries \cup b.entries)
    PROVE  Join(a, b) = Join(b, a)
<1>1. /\ a.entries \cup b.entries = b.entries \cup a.entries
      /\ a.tombstones \cup b.tombstones = b.tombstones \cup a.tombstones
    OBVIOUS
<1>2. Coherent(b.entries \cup a.entries)
    BY <1>1
<1>3. Join(a, b) = [entries    |-> {e \in a.entries \cup b.entries :
                                      e.tag \notin a.tombstones \cup b.tombstones},
                    tombstones |-> a.tombstones \cup b.tombstones]
    BY JoinIsUnion
<1>4. Join(b, a) = [entries    |-> {e \in b.entries \cup a.entries :
                                      e.tag \notin b.tombstones \cup a.tombstones},
                    tombstones |-> b.tombstones \cup a.tombstones]
    BY <1>2, JoinIsUnion
<1> QED BY <1>1, <1>3, <1>4

THEOREM MergeAssociates ==
    ASSUME NEW a, NEW b, NEW c, Coherent(a.entries \cup b.entries \cup c.entries)
    PROVE  Join(Join(a, b), c) = Join(a, Join(b, c))
<1> DEFINE ab == Join(a, b)
           bc == Join(b, c)
<1>1. Coherent(a.entries \cup b.entries) /\ Coherent(b.entries \cup c.entries)
    BY DEF Coherent
<1>2. /\ ab.entries = {e \in a.entries \cup b.entries :
                          e.tag \notin a.tombstones \cup b.tombstones}
      /\ ab.tombstones = a.tombstones \cup b.tombstones
    BY <1>1, JoinIsUnion
<1>3. /\ bc.entries = {e \in b.entries \cup c.entries :
                          e.tag \notin b.tombstones \cup c.tombstones}
      /\ bc.tombstones = b.tombstones \cup c.tombstones
    BY <1>1, JoinIsUnion
<1>4. Coherent(ab.entries \cup c.entries) /\ Coherent(a.entries \cup bc.entries)
    BY <1>2, <1>3 DEF Coherent
<1> HIDE DEF ab, bc
<1>5. /\ Join(ab, c) = [entries    |-> {e \in ab.entries \cup c.entries :
                                           e.tag \notin ab.tombstones \cup c.tombstones},
                        tombstones |-> ab.tombstones \cup c.tombstones]
      /\ Join(a, bc) = [entries    |-> {e \in a.entries \cup bc.entries :
                                           e.tag \notin a.tombstones \cup bc.tombstones},
                        tombstones |-> a.tombstones \cup bc.tombstones]
    BY <1>4, JoinIsUnion
<1>6. ab.tombstones \cup c.tombstones = a.tombstones \cup bc.tombstones
    BY <1>2, <1>3
<1>7. {e \in ab.entries \cup c.entries : e.tag \notin ab.tombstones \cup c.tombstones}
          = {e \in a.entries \cup bc.entries : e.tag \notin a.tombstones \cup bc.tombstones}
    BY <1>2, <1>3
<1> QED BY <1>5, <1>6, <1>7 DEF ab, bc

THEOREM MergeIdempotent ==
    ASSUME NEW a \in Replica, Clean(a) PROVE Join(a, a) = a
BY DEF Join, Fresh, Clean, TagsOf, At, Replica

(* A replica is a function of what it has heard of and what of it is dead: *)
(* two replicas of one system with the same tags and tombstones show the   *)
(* same map.                                                               *)
THEOREM SameKnowledgeSameMap ==
    ASSUME NEW a \in Replica, NEW b \in Replica, Clean(a), Clean(b),
           Coherent(a.entries \cup b.entries),
           Known(a) = Known(b), a.tombstones = b.tombstones
    PROVE  a = b
<1>1. TagsOf(a.entries) = TagsOf(b.entries)
    BY DEF Known, Clean
<1>2. ASSUME NEW e \in a.entries PROVE e \in b.entries
    <2>1. PICK f \in b.entries : f.tag = e.tag
        BY <1>1 DEF TagsOf
    <2> QED BY <2>1 DEF Coherent
<1>3. ASSUME NEW e \in b.entries PROVE e \in a.entries
    <2>1. PICK f \in a.entries : f.tag = e.tag
        BY <1>1 DEF TagsOf
    <2> QED BY <2>1 DEF Coherent
<1>4. a.entries = b.entries
    BY <1>2, <1>3
<1> QED BY <1>4 DEF Replica

-----------------------------------------------------------------------------
(* The three caps. *)

Capped(r) ==
    /\ Finite(r)
    /\ Cardinality(r.tombstones) <= MAX_TOMBSTONES
    /\ Cardinality(KeysOf(r.entries)) <= MAX_KEYS
    /\ \A k : Cardinality(At(r.entries, k)) <= MAX_ENTRIES_PER_KEY

LEMMA EvictionIsAnOrder ==
    ASSUME NEW t \in Tag, NEW u \in Tag, NEW v \in Tag
    PROVE  /\ ~ EvictedBefore(t, t)
           /\ EvictedBefore(t, u) /\ EvictedBefore(u, v) => EvictedBefore(t, v)
           /\ t # u => EvictedBefore(t, u) \/ EvictedBefore(u, t)
<1>1. \A x \in Tag : x = <<x[1], x[2]>> /\ x[1] \in Nat /\ x[2] \in Nat
    <2>1. \A x \in Tag : x = <<x[1], x[2]>> /\ x[1] \in Node /\ x[2] \in Nat \ {0}
        BY DEF Tag
    <2> HIDE DEF Tag
    <2> QED BY <2>1, NodeAssumption
<1>2. PICK n1 \in Nat, s1 \in Nat : t = <<n1, s1>> /\ t[1] = n1 /\ t[2] = s1
    BY <1>1
<1>3. PICK n2 \in Nat, s2 \in Nat : u = <<n2, s2>> /\ u[1] = n2 /\ u[2] = s2
    BY <1>1
<1>4. PICK n3 \in Nat, s3 \in Nat : v[1] = n3 /\ v[2] = s3
    BY <1>1
<1>5. t # u => n1 # n2 \/ s1 # s2
    BY <1>2, <1>3
<1> QED BY <1>2, <1>3, <1>4, <1>5 DEF EvictedBefore

(* A finite set of tags has one that is evicted before all others. *)
LEMMA FirstEvicted ==
    ASSUME NEW T \in SUBSET Tag, IsFiniteSet(T), T # {}
    PROVE  \E t \in T : \A u \in T \ {t} : EvictedBefore(t, u)
<1> DEFINE D(t) == {u \in T : EvictedBefore(u, t)}
           Downs == {D(t) : t \in T}
<1>1. Downs \subseteq FiniteSubsetsOf(T) /\ Downs # {}
    <2>1. \A t \in T : D(t) \in SUBSET T /\ IsFiniteSet(D(t))
        BY FS_Subset
    <2> QED BY <2>1 DEF FiniteSubsetsOf
<1>2. PICK X \in Downs : \A Y \in Downs : <<Y, X>> \notin StrictSubsetOrdering(T)
    <2> HIDE DEF Downs
    <2> QED BY <1>1, FS_StrictSubsetOrderingWellFounded, WFMin
<1>3. PICK t \in T : X = D(t)
    OBVIOUS
<1>4. ASSUME NEW u \in T, EvictedBefore(u, t) PROVE FALSE
    <2>1. u \in D(t) /\ u \notin D(u)
        BY <1>4, EvictionIsAnOrder
    <2>2. D(u) \subseteq D(t)
        BY <1>4, EvictionIsAnOrder
    <2>3. D(u) \in Downs /\ D(u) \in SUBSET T /\ D(t) \in SUBSET T
        OBVIOUS
    <2> HIDE DEF D, Downs
    <2> QED BY <1>2, <1>3, <2>1, <2>2, <2>3 DEF StrictSubsetOrdering
<1> QED BY <1>4, EvictionIsAnOrder

(* Eviction ends at the cap: the first of those it keeps has all others    *)
(* behind it, and fewer than MAX_TOMBSTONES.                               *)
LEMMA GCCap ==
    ASSUME NEW T \in SUBSET Tag, IsFiniteSet(T)
    PROVE  IsFiniteSet(GC(T)) /\ Cardinality(GC(T)) <= MAX_TOMBSTONES
<1> DEFINE S == GC(T)
           After(t) == {u \in T : EvictedBefore(t, u)}
<1>1. S \in SUBSET T /\ S \in SUBSET Tag /\ IsFiniteSet(S)
    BY GCSubset, FS_Subset
<1>2. CASE Cardinality(T) <= MAX_TOMBSTONES
    BY <1>1, <1>2, GCWithinCap
<1>3. CASE S = {}
    BY <1>1, <1>3, FS_EmptySet, CapAssumption
<1>4. CASE ~ (Cardinality(T) <= MAX_TOMBSTONES) /\ S # {}
    <2>1. S = {t \in T : Cardinality(After(t)) < MAX_TOMBSTONES}
        BY <1>4 DEF GC
    <2> HIDE DEF S
    <2>2. PICK t \in S : \A u \in S \ {t} : EvictedBefore(t, u)
        BY <1>1, <1>4, FirstEvicted
    <2>3. S \ {t} \in SUBSET After(t) /\ After(t) \in SUBSET T
        BY <1>1, <2>2
    <2>4. Cardinality(After(t)) < MAX_TOMBSTONES
        BY <2>1
    <2> HIDE DEF After
    <2>5. IsFiniteSet(After(t)) /\ Cardinality(S \ {t}) <= Cardinality(After(t))
        BY <2>3, FS_Subset
    <2>6. Cardinality(S \ {t}) = Cardinality(S) - 1
        BY <1>1, FS_RemoveElement
    <2>7. Cardinality(S) \in Nat /\ Cardinality(After(t)) \in Nat
        BY <1>1, <2>5, FS_CardinalityType
    <2> QED BY <1>1, <2>4, <2>5, <2>6, <2>7, CapAssumption DEF S
<1> QED BY <1>2, <1>3, <1>4

LEMMA EmptyCapped == Capped(EmptyReplica)
<1>1. KeysOf({}) = {} /\ \A k : At({}, k) = {}
    BY DEF KeysOf, At
<1> QED BY <1>1, FS_EmptySet, CapAssumption DEF Capped, Finite, EmptyReplica

(* set() and delete() keep the caps. *)
LEMMA BurialCapped ==
    ASSUME NEW r \in Replica, Capped(r), NEW k
    PROVE  LET T == GC(r.tombstones \cup TagsOf(At(r.entries, k)))
           IN  IsFiniteSet(T) /\ Cardinality(T) <= MAX_TOMBSTONES
<1>1. IsFiniteSet(At(r.entries, k))
    BY FiniteSlices DEF Capped, Finite
<1>2. IsFiniteSet(r.tombstones \cup TagsOf(At(r.entries, k)))
    BY <1>1, FiniteSlices, FS_Union DEF Capped, Finite
<1>3. r.tombstones \cup TagsOf(At(r.entries, k)) \in SUBSET Tag
    BY DEF Replica, TagsOf, At, Entry
<1> QED BY <1>2, <1>3, GCCap

LEMMA DeleteKeyCapped ==
    ASSUME NEW r \in Replica, Capped(r), NEW k
    PROVE  Capped(DeleteKey(r, k))
<1> DEFINE E == r.entries \ At(r.entries, k)
           T == GC(r.tombstones \cup TagsOf(At(r.entries, k)))
<1>1. IsFiniteSet(T) /\ Cardinality(T) <= MAX_TOMBSTONES
    BY BurialCapped
<1>2. E \in SUBSET r.entries /\ IsFiniteSet(r.entries) /\ IsFiniteSet(E)
    BY FS_Subset DEF Capped, Finite
<1> HIDE DEF T, E
<1>3. Cardinality(KeysOf(E)) <= MAX_KEYS
    <2>1. KeysOf(E) \in SUBSET KeysOf(r.entries)
        BY <1>2 DEF KeysOf
    <2>2. IsFiniteSet(KeysOf(r.entries))
        BY <1>2, FiniteSlices
    <2>3. Cardinality(KeysOf(E)) <= Cardinality(KeysOf(r.entries)) /\ IsFiniteSet(KeysOf(E))
        BY <2>1, <2>2, FS_Subset
    <2>4. Cardinality(KeysOf(E)) \in Nat /\ Cardinality(KeysOf(r.entries)) \in Nat
        BY <2>2, <2>3, FS_CardinalityType
    <2> QED BY <2>3, <2>4, CapAssumption DEF Capped
<1>4. ASSUME NEW j PROVE Cardinality(At(E, j)) <= MAX_ENTRIES_PER_KEY
    <2>1. At(E, j) \in SUBSET At(r.entries, j)
        BY <1>2 DEF At
    <2>2. IsFiniteSet(At(r.entries, j))
        BY <1>2, FiniteSlices
    <2>3. Cardinality(At(E, j)) <= Cardinality(At(r.entries, j)) /\ IsFiniteSet(At(E, j))
        BY <2>1, <2>2, FS_Subset
    <2>4. Cardinality(At(E, j)) \in Nat /\ Cardinality(At(r.entries, j)) \in Nat
        BY <2>2, <2>3, FS_CardinalityType
    <2> QED BY <2>3, <2>4, CapAssumption DEF Capped
<1>5. DeleteKey(r, k) = [entries |-> E, tombstones |-> T]
    BY DEF DeleteKey, E, T
<1> QED BY <1>1, <1>2, <1>3, <1>4, <1>5 DEF Capped, Finite

LEMMA SetKeyCapped ==
    ASSUME NEW r \in Replica, Capped(r), NEW k, NEW v, NEW t, Accepts(r, k)
    PROVE  Capped(SetKey(r, k, v, t))
<1> DEFINE E == (r.entries \ At(r.entries, k)) \cup {[key |-> k, value |-> v, tag |-> t]}
           T == GC(r.tombstones \cup TagsOf(At(r.entries, k)))
           K == KeysOf(r.entries)
<1>1. IsFiniteSet(T) /\ Cardinality(T) <= MAX_TOMBSTONES
    BY BurialCapped
<1>2. IsFiniteSet(E)
    <2>1. r.entries \ At(r.entries, k) \in SUBSET r.entries /\ IsFiniteSet(r.entries)
        BY DEF Capped, Finite
    <2>2. IsFiniteSet(r.entries \ At(r.entries, k))
        BY <2>1, FS_Subset
    <2> QED BY <2>2, FS_AddElement
<1>3. IsFiniteSet(K) /\ Cardinality(K) <= MAX_KEYS /\ Cardinality(K) \in Nat
    BY FiniteSlices, FS_CardinalityType DEF Capped, Finite
<1>4. Cardinality(KeysOf(E)) <= MAX_KEYS
    <2>1. KeysOf(E) = K \cup {k}
        <3> DEFINE new == [key |-> k, value |-> v, tag |-> t]
        <3>1. new.key = k /\ new \in E
            OBVIOUS
        <3>2. \A e \in r.entries : e.key = k \/ e \in E
            BY DEF At
        <3>3. \A e \in E : e = new \/ e \in r.entries
            OBVIOUS
        <3> HIDE DEF new, E
        <3> QED BY <3>1, <3>2, <3>3 DEF KeysOf
    <2>2. k \in K \/ Cardinality(K) < MAX_KEYS
        BY DEF Accepts
    <2> HIDE DEF K, E
    <2>3. Cardinality(K \cup {k}) = IF k \in K THEN Cardinality(K) ELSE Cardinality(K) + 1
        BY <1>3, FS_AddElement
    <2> QED BY <1>3, <2>1, <2>2, <2>3, CapAssumption
<1>5. ASSUME NEW j PROVE Cardinality(At(E, j)) <= MAX_ENTRIES_PER_KEY
    <2>1. CASE j = k
        <3>1. At(E, k) = {[key |-> k, value |-> v, tag |-> t]}
            BY DEF At
        <3>2. Cardinality(At(E, j)) = 1
            BY <2>1, <3>1, FS_Singleton
        <3> QED BY <3>2, CapAssumption
    <2>2. CASE j # k
        <3>1. At(E, j) = At(r.entries, j)
            BY <2>2 DEF At
        <3> QED BY <3>1 DEF Capped
    <2> QED BY <2>1, <2>2
<1>6. SetKey(r, k, v, t) = [entries |-> E, tombstones |-> T]
    BY DEF SetKey
<1> HIDE DEF E, T, K
<1> QED BY <1>1, <1>2, <1>4, <1>5, <1>6 DEF Capped, Finite

(* A loop that stops at a cap adds no more than there is room for. *)
LEMMA RoomKept ==
    ASSUME NEW S, NEW T, NEW cap \in Nat, NEW n \in Nat, IsFiniteSet(S), IsFiniteSet(T),
           Cardinality(S) <= cap, Cardinality(T) = AtMost(n, cap - Cardinality(S))
    PROVE  Cardinality(S \cup T) <= cap
<1>1. /\ IsFiniteSet(S \cap T) /\ IsFiniteSet(S \cup T)
      /\ Cardinality(S \cup T) = Cardinality(S) + Cardinality(T) - Cardinality(S \cap T)
    BY FS_Intersection, FS_Union
<1>2. /\ Cardinality(S) \in Nat /\ Cardinality(T) \in Nat
      /\ Cardinality(S \cap T) \in Nat /\ Cardinality(S \cup T) \in Nat
    BY <1>1, FS_CardinalityType
<1>3. Cardinality(T) <= cap - Cardinality(S)
    BY <1>2 DEF AtMost
<1> QED BY <1>1, <1>2, <1>3

(* The keys the first loop opens fit. *)
LEMMA AdmissionsCapped ==
    ASSUME NEW a, NEW b, Capped(a), Finite(b), NEW K \in Admissions(a, b)
    PROVE  IsFiniteSet(K) /\ Cardinality(K) <= MAX_KEYS /\ KeysOf(a.entries) \subseteq K
<1> DEFINE mine == KeysOf(a.entries)
           new == KeysOf(b.entries) \ mine
<1>1. /\ IsFiniteSet(mine) /\ Cardinality(mine) <= MAX_KEYS
      /\ IsFiniteSet(new) /\ MAX_KEYS \in Nat
    <2>1. IsFiniteSet(mine) /\ IsFiniteSet(KeysOf(b.entries))
        BY FiniteSlices DEF Capped, Finite
    <2>2. Cardinality(mine) <= MAX_KEYS
        BY DEF Capped
    <2> QED BY <2>1, <2>2, FS_Difference, CapAssumption
<1>2. PICK N \in kSubset(AtMost(Cardinality(new), MAX_KEYS - Cardinality(mine)), new) :
          K = mine \cup N
    BY DEF Admissions
<1>3. N \in SUBSET new /\ Cardinality(N) = AtMost(Cardinality(new), MAX_KEYS - Cardinality(mine))
    BY <1>2 DEF kSubset
<1> HIDE DEF mine, new
<1>4. IsFiniteSet(N) /\ Cardinality(new) \in Nat /\ IsFiniteSet(mine \cup N)
    BY <1>1, <1>3, FS_Subset, FS_CardinalityType, FS_Union
<1> QED BY <1>1, <1>2, <1>3, <1>4, RoomKept DEF mine

(* Entries that die leave the caps as they were. *)
LEMMA FewerCapped ==
    ASSUME NEW E, NEW F \in SUBSET E, IsFiniteSet(E),
           Cardinality(KeysOf(E)) <= MAX_KEYS,
           \A k : Cardinality(At(E, k)) <= MAX_ENTRIES_PER_KEY
    PROVE  /\ IsFiniteSet(F)
           /\ Cardinality(KeysOf(F)) <= MAX_KEYS
           /\ \A k : Cardinality(At(F, k)) <= MAX_ENTRIES_PER_KEY
<1>1. IsFiniteSet(F)
    BY FS_Subset
<1>2. \A S, T, n : IsFiniteSet(S) /\ T \in SUBSET S /\ n \in Nat /\ Cardinality(S) <= n
                      => Cardinality(T) <= n
    <2> SUFFICES ASSUME NEW S, NEW T \in SUBSET S, NEW n \in Nat,
                        IsFiniteSet(S), Cardinality(S) <= n
                 PROVE  Cardinality(T) <= n
        OBVIOUS
    <2>1. IsFiniteSet(T) /\ Cardinality(T) <= Cardinality(S)
        BY FS_Subset
    <2>2. Cardinality(T) \in Nat /\ Cardinality(S) \in Nat
        BY <2>1, FS_CardinalityType
    <2> QED BY <2>1, <2>2
<1>3. KeysOf(F) \in SUBSET KeysOf(E) /\ \A k : At(F, k) \in SUBSET At(E, k)
    BY DEF KeysOf, At
<1>4. IsFiniteSet(KeysOf(E)) /\ \A k : IsFiniteSet(At(E, k))
    BY FiniteSlices
<1>5. MAX_KEYS \in Nat /\ MAX_ENTRIES_PER_KEY \in Nat
    BY CapAssumption
<1> QED BY <1>1, <1>2, <1>3, <1>4, <1>5

(* merge() keeps the caps, whatever it is handed. *)
LEMMA MergesCapped ==
    ASSUME NEW a \in Replica, NEW b \in Replica, Capped(a), Finite(b), NEW r \in Merges(a, b)
    PROVE  Capped(r)
<1>0. Chosen(a, b, r)
    BY MergesElim
<1>1. PICK A \in Adoptions(a, b), B \in Absorptions(a, b) :
          r = Settled(a.entries \cup A, a.tombstones \cup B)
    BY <1>0 DEF Chosen
<1>2. A \in SUBSET Fresh(a, b) /\ A \in SUBSET b.entries /\ B \in SUBSET b.tombstones
    BY <1>1 DEF Adoptions, Fresh, Absorptions, kSubset
<1>3. /\ IsFiniteSet(A) /\ IsFiniteSet(a.entries) /\ IsFiniteSet(a.entries \cup A)
      /\ IsFiniteSet(a.tombstones \cup B) /\ IsFiniteSet(b.entries)
    BY <1>2, FS_Subset, FS_Union DEF Capped, Finite
<1>4. PICK K \in Admissions(a, b) :
          /\ KeysOf(A) \subseteq K
          /\ \A k \in K :
                Cardinality(At(A, k)) =
                    AtMost(Cardinality(At(Fresh(a, b), k)),
                           MAX_ENTRIES_PER_KEY - Cardinality(At(a.entries, k)))
    BY <1>1 DEF Adoptions
<1>5. IsFiniteSet(K) /\ Cardinality(K) <= MAX_KEYS /\ KeysOf(a.entries) \subseteq K
    BY AdmissionsCapped
<1> DEFINE E == a.entries \cup A
<1>6. Cardinality(KeysOf(E)) <= MAX_KEYS
    <2>1. KeysOf(E) \in SUBSET K
        BY <1>4, <1>5 DEF KeysOf
    <2> HIDE DEF E
    <2>2. IsFiniteSet(KeysOf(E)) /\ Cardinality(KeysOf(E)) <= Cardinality(K)
        BY <1>5, <2>1, FS_Subset
    <2>3. Cardinality(KeysOf(E)) \in Nat /\ Cardinality(K) \in Nat
        BY <1>5, <2>2, FS_CardinalityType
    <2> QED BY <1>5, <2>2, <2>3, CapAssumption
<1>7. ASSUME NEW k PROVE Cardinality(At(E, k)) <= MAX_ENTRIES_PER_KEY
    <2>1. At(E, k) = At(a.entries, k) \cup At(A, k)
        BY DEF At
    <2> HIDE DEF E
    <2>2. IsFiniteSet(At(a.entries, k)) /\ IsFiniteSet(At(A, k))
        BY <1>3, FiniteSlices
    <2>3. CASE k \in K
        <3>1. IsFiniteSet(Fresh(a, b))
            BY <1>3, FS_Subset DEF Fresh
        <3>2. Cardinality(At(Fresh(a, b), k)) \in Nat
            BY <3>1, FiniteSlices, FS_CardinalityType
        <3>3. Cardinality(At(a.entries, k)) <= MAX_ENTRIES_PER_KEY /\ MAX_ENTRIES_PER_KEY \in Nat
            BY CapAssumption DEF Capped
        <3> QED BY <1>4, <2>1, <2>2, <2>3, <3>2, <3>3, RoomKept
    <2>4. CASE k \notin K
        <3>1. At(A, k) = {}
            BY <1>4, <2>4 DEF At, KeysOf
        <3>2. At(E, k) = At(a.entries, k)
            BY <2>1, <3>1
        <3> QED BY <3>2 DEF Capped
    <2> QED BY <2>3, <2>4
<1>8. /\ r.entries = {e \in E : e.tag \notin a.tombstones \cup B}
      /\ r.tombstones = GC(a.tombstones \cup B)
    BY <1>1 DEF Settled
<1>9. r.entries \in SUBSET E
    BY <1>8
<1>10. IsFiniteSet(r.tombstones) /\ Cardinality(r.tombstones) <= MAX_TOMBSTONES
    <2>1. a.tombstones \cup B \in SUBSET Tag
        BY <1>2 DEF Replica
    <2> QED BY <1>3, <1>8, <2>1, GCCap
<1>11. IsFiniteSet(E)
    BY <1>3
<1> HIDE DEF E
<1> QED BY <1>6, <1>7, <1>9, <1>10, <1>11, FewerCapped DEF Capped, Finite

-----------------------------------------------------------------------------
(* Where no cap bites. *)

(* A write that overflows no cap forgets nothing. *)
LEMMA BurialKeepsKnowledge ==
    ASSUME NEW r \in Replica, NEW k,
           Cardinality(r.tombstones \cup TagsOf(At(r.entries, k))) <= MAX_TOMBSTONES
    PROVE  /\ \A v, t : /\ Known(r) \cup {t} \subseteq Known(SetKey(r, k, v, t))
                        /\ SetKey(r, k, v, t).tombstones = r.tombstones \cup TagsOf(At(r.entries, k))
           /\ Known(r) \subseteq Known(DeleteKey(r, k))
           /\ DeleteKey(r, k).tombstones = r.tombstones \cup TagsOf(At(r.entries, k))
<1> DEFINE B == TagsOf(At(r.entries, k))
<1>1. GC(r.tombstones \cup B) = r.tombstones \cup B
    BY GCWithinCap
<1>2. ASSUME NEW s, NEW N, s = [entries    |-> (r.entries \ At(r.entries, k)) \cup N,
                                tombstones |-> GC(r.tombstones \cup B)]
      PROVE  /\ Known(r) \cup TagsOf(N) \subseteq Known(s)
             /\ s.tombstones = r.tombstones \cup B
    <2>1. /\ s.tombstones = r.tombstones \cup B
          /\ s.entries = (r.entries \ At(r.entries, k)) \cup N
        BY <1>1, <1>2
    <2>2. ASSUME NEW e \in r.entries PROVE e.tag \in Known(s)
        BY <2>1 DEF Known, TagsOf
    <2> QED BY <2>1, <2>2 DEF Known, TagsOf
<1>3. ASSUME NEW v, NEW t
      PROVE  /\ Known(r) \cup {t} \subseteq Known(SetKey(r, k, v, t))
             /\ SetKey(r, k, v, t).tombstones = r.tombstones \cup B
    <2> DEFINE new == [key |-> k, value |-> v, tag |-> t]
    <2>1. t \in TagsOf({new})
        BY DEF TagsOf
    <2>2. SetKey(r, k, v, t) = [entries    |-> (r.entries \ At(r.entries, k)) \cup {new},
                                tombstones |-> GC(r.tombstones \cup B)]
        BY DEF SetKey
    <2> QED BY <1>2, <2>1, <2>2
<1>4. DeleteKey(r, k) = [entries    |-> (r.entries \ At(r.entries, k)) \cup {},
                         tombstones |-> GC(r.tombstones \cup B)]
    BY DEF DeleteKey
<1> QED BY <1>2, <1>3, <1>4

(* Parts of what is no more than the caps hold. *)
LEMMA FewTags ==
    ASSUME NEW I, IsFiniteSet(I), NEW N \in Nat, Cardinality(I) <= N, N <= MAX_TOMBSTONES,
           NEW T \in SUBSET TagsOf(I)
    PROVE  IsFiniteSet(T) /\ Cardinality(T) <= MAX_TOMBSTONES
<1> DEFINE f == [e \in I |-> e.tag]
<1>1. f \in Surjection(I, TagsOf(I))
    BY DEF TagsOf, Surjection
<1> HIDE DEF f
<1>2. /\ IsFiniteSet(TagsOf(I)) /\ Cardinality(TagsOf(I)) \in Nat
      /\ Cardinality(TagsOf(I)) <= Cardinality(I) /\ Cardinality(I) \in Nat
    BY <1>1, FS_Surjection, FS_CardinalityType
<1>3. /\ IsFiniteSet(T) /\ Cardinality(T) \in Nat
      /\ Cardinality(T) <= Cardinality(TagsOf(I))
    BY <1>2, FS_Subset, FS_CardinalityType
<1> QED BY <1>2, <1>3, CapAssumption

LEMMA PartsOfFew ==
    ASSUME NEW I, IsFiniteSet(I), NEW N \in Nat, Cardinality(I) <= N,
           N <= MAX_TOMBSTONES, N <= MAX_KEYS, N <= MAX_ENTRIES_PER_KEY,
           NEW E \in SUBSET I, NEW T \in SUBSET TagsOf(I)
    PROVE  /\ Cardinality(T) <= MAX_TOMBSTONES /\ IsFiniteSet(T) /\ IsFiniteSet(E)
           /\ Cardinality(KeysOf(E)) <= MAX_KEYS
           /\ \A k : Cardinality(At(E, k)) <= MAX_ENTRIES_PER_KEY
<1>1. Cardinality(I) \in Nat /\ N \in Nat /\ Cardinality(I) <= N
    BY FS_CardinalityType
<1>2. IsFiniteSet(E) /\ Cardinality(E) \in Nat /\ Cardinality(E) <= Cardinality(I)
    BY FS_Subset, FS_CardinalityType
<1>3. Cardinality(KeysOf(E)) <= Cardinality(E) /\ Cardinality(KeysOf(E)) \in Nat
    <2> DEFINE f == [e \in E |-> e.key]
    <2>1. f \in Surjection(E, KeysOf(E))
        BY DEF KeysOf, Surjection
    <2> HIDE DEF f
    <2> QED BY <1>2, <2>1, FS_Surjection, FS_CardinalityType
<1>4. ASSUME NEW k PROVE Cardinality(At(E, k)) <= MAX_ENTRIES_PER_KEY
    <2>1. At(E, k) \in SUBSET E
        BY DEF At
    <2>2. Cardinality(At(E, k)) <= Cardinality(E) /\ Cardinality(At(E, k)) \in Nat
        BY <1>2, <2>1, FS_Subset, FS_CardinalityType
    <2> QED BY <1>1, <1>2, <2>2, CapAssumption
<1>5. IsFiniteSet(T) /\ Cardinality(T) <= MAX_TOMBSTONES
    BY FewTags
<1> QED BY <1>1, <1>2, <1>3, <1>4, <1>5, CapAssumption

-----------------------------------------------------------------------------
(* The value a key shows. *)

LEMMA TagsAreOrdered ==
    ASSUME NEW t \in Tag, NEW u \in Tag, NEW v \in Tag
    PROVE  ~ TagLess(t, t) /\ (TagLess(t, u) /\ TagLess(u, v) => TagLess(t, v))
<1>1. \A x \in Tag : x[1] \in Nat /\ x[2] \in Nat
    <2>1. \A x \in Tag : x[1] \in Node /\ x[2] \in Nat \ {0}
        BY DEF Tag
    <2> HIDE DEF Tag
    <2> QED BY <2>1, NodeAssumption
<1>2. PICK n1 \in Nat, s1 \in Nat : t[1] = n1 /\ t[2] = s1
    BY <1>1
<1>3. PICK n2 \in Nat, s2 \in Nat : u[1] = n2 /\ u[2] = s2
    BY <1>1
<1>4. PICK n3 \in Nat, s3 \in Nat : v[1] = n3 /\ v[2] = s3
    BY <1>1
<1> QED BY <1>2, <1>3, <1>4 DEF TagLess

(* Of finitely many values of a key one has a tag that no other exceeds:   *)
(* the one with the fewest above it.                                       *)
LEMMA WinnerIsOne ==
    ASSUME NEW E \in SUBSET Entry, IsFiniteSet(E), NEW k \in KeysOf(E)
    PROVE  Winner(E, k) \in At(E, k)
<1> DEFINE C == At(E, k)
           U(e) == {f \in C : TagLess(e.tag, f.tag)}
           Ups == {U(e) : e \in C}
<1>1. C \in SUBSET E /\ IsFiniteSet(C) /\ C # {} /\ \A e \in C : e.tag \in Tag
    <2>1. C \in SUBSET E /\ C # {}
        BY DEF At, KeysOf
    <2>2. \A e \in E : e.tag \in Tag
        BY DEF Entry
    <2> HIDE DEF C
    <2> QED BY <2>1, <2>2, FS_Subset
<1> HIDE DEF C
<1>2. Ups \subseteq FiniteSubsetsOf(C) /\ Ups # {}
    <2>1. \A e \in C : U(e) \in SUBSET C /\ IsFiniteSet(U(e))
        BY <1>1, FS_Subset
    <2> QED BY <1>1, <2>1 DEF FiniteSubsetsOf
<1>3. PICK X \in Ups : \A Y \in Ups : <<Y, X>> \notin StrictSubsetOrdering(C)
    <2> HIDE DEF Ups
    <2> QED BY <1>1, <1>2, FS_StrictSubsetOrderingWellFounded, WFMin
<1>4. PICK e \in C : X = U(e)
    OBVIOUS
<1>5. ASSUME NEW f \in C, TagLess(e.tag, f.tag) PROVE FALSE
    <2>1. f \in U(e) /\ f \notin U(f)
        BY <1>1, <1>5, TagsAreOrdered
    <2>2. U(f) \subseteq U(e)
        BY <1>1, <1>5, TagsAreOrdered
    <2>3. U(f) \in Ups /\ U(f) \in SUBSET C /\ U(e) \in SUBSET C
        OBVIOUS
    <2> HIDE DEF U, Ups
    <2> QED BY <1>3, <1>4, <2>1, <2>2, <2>3 DEF StrictSubsetOrdering
<1>6. \E g \in At(E, k) : \A f \in At(E, k) : ~ TagLess(g.tag, f.tag)
    BY <1>5 DEF C
<1> QED BY <1>6 DEF Winner
=============================================================================
