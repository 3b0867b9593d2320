------------------------- MODULE GossipStoreProofs -------------------------
(***************************************************************************)
(* Safety of the gossiping stores for every set of nodes, keys and values, *)
(* every setting of the caps, and however many messages are in flight.     *)
(*                                                                         *)
(* The inductive invariant says where everything in the system comes from: *)
(* every entry at a replica, in an unsent read or in a message was issued  *)
(* by a set(), every tombstone is the tag of an issued entry that a write  *)
(* buried, and issued tags are distinct because each author's counter is   *)
(* ahead of all of its tags.                                               *)
(***************************************************************************)
EXTENDS GossipRestart, ORMapProofs

Killed(K) == {p[1] : p \in K}

(* Entries are issued, tombstones are buried tags of issued entries. *)
Backed(r, I, K) ==
    /\ r.entries \subseteq I
    /\ r.tombstones \subseteq TagsOf(I)
    /\ r.tombstones \subseteq Killed(K)

GoodNet(N, I, K) ==
    \A m \in N : /\ MessageOK(m)
                 /\ m.type # "digest" => Backed(m.snapshot, I, K)

SeqAhead == \A e \in issued : e.tag[2] <= seq[e.tag[1]]

Sourced ==
    /\ \A n \in Node : Backed(crdt[n], issued, kills)
    /\ \A n \in Node : scan[n].entries \subseteq issued
    /\ GoodNet(net, issued, kills)

IInv ==
    /\ TypeOK
    /\ IsFiniteSet(issued)
    /\ Coherent(issued)
    /\ SeqAhead
    /\ Sourced
    /\ DeadStaysHidden

(* The same without what one author's counter promises, which a crash of   *)
(* that author breaks, and that promise author by author.                  *)
Base == TypeOK /\ IsFiniteSet(issued) /\ Sourced

Author(a) ==
    /\ \A e \in issued : e.tag[1] = a => e.tag[2] <= seq[a]
    /\ \A e, f \in issued : e.tag[1] = a /\ e.tag = f.tag => e = f
    /\ \A n \in Node : \A e \in crdt[n].entries : e.tag[1] = a => e.tag \notin crdt[n].tombstones

AllAuthors == \A a \in Node : Author(a)

-----------------------------------------------------------------------------
(* Replicas and messages. *)

(* More writes never take the backing away. *)
LEMMA BackedGrows ==
    ASSUME NEW r, NEW I, NEW J, NEW K, NEW L, I \subseteq J, K \subseteq L,
           Backed(r, I, K)
    PROVE  Backed(r, J, L)
BY DEF Backed, TagsOf, Killed

LEMMA GoodNetGrows ==
    ASSUME NEW N, NEW I, NEW J, NEW K, NEW L, I \subseteq J, K \subseteq L,
           GoodNet(N, I, K)
    PROVE  GoodNet(N, J, L)
BY BackedGrows DEF GoodNet

LEMMA ExchangeGood ==
    ASSUME NEW N, NEW M, NEW I, NEW K, NEW gone, NEW new, GoodNet(N, I, K),
           GoodNet(new, I, K), M = (N \ gone) \cup new
    PROVE  GoodNet(M, I, K)
BY DEF GoodNet

(* A local write leaves a replica of issued entries and buried tags. *)
LEMMA SetKeySound ==
    ASSUME NEW r \in Replica, NEW k \in Key, NEW v \in Value, NEW t \in Tag,
           NEW I, NEW K, Backed(r, I, K),
           NEW J, J = I \cup {[key |-> k, value |-> v, tag |-> t]},
           NEW L, L = K \cup {<<u, t>> : u \in Buried(r, k)}
    PROVE  LET s == SetKey(r, k, v, t)
           IN  s \in Replica /\ Backed(s, J, L)
<1> DEFINE new == [key |-> k, value |-> v, tag |-> t]
           s == SetKey(r, k, v, t)
           B == Buried(r, k)
<1>1. /\ s = [entries |-> s.entries, tombstones |-> s.tombstones]
      /\ s.entries = (r.entries \ At(r.entries, k)) \cup {new}
      /\ s.tombstones = GC(r.tombstones \cup B)
    BY DEF SetKey, Buried
<1>2. s.tombstones \subseteq r.tombstones \cup B
    BY <1>1, GCSubset
<1>3. B \subseteq TagsOf(r.entries) /\ B \subseteq TagsOf(I) /\ B \subseteq Tag
    BY DEF Buried, TagsOf, At, Backed, Replica, Entry
<1>4. new \in Entry
    BY DEF Entry
<1>5. s \in Replica
    BY <1>1, <1>2, <1>3, <1>4 DEF Replica
<1>6. I \subseteq J /\ new \in J /\ TagsOf(I) \subseteq TagsOf(J)
    BY DEF TagsOf
<1>7. K \subseteq L /\ Killed(K) \subseteq Killed(L)
    BY DEF Killed
<1>8. B \subseteq Killed(L)
    <2> SUFFICES ASSUME NEW u \in B PROVE u \in Killed(L)
        OBVIOUS
    <2>1. <<u, t>> \in L
        OBVIOUS
    <2> QED BY <2>1 DEF Killed
<1>9. Backed(s, J, L)
    BY <1>1, <1>2, <1>3, <1>6, <1>7, <1>8 DEF Backed
<1> QED BY <1>5, <1>9

LEMMA DeleteKeySound ==
    ASSUME NEW r \in Replica, NEW k \in Key, NEW I, NEW K, Backed(r, I, K),
           NEW L, L = K \cup {<<u, u>> : u \in Buried(r, k)}
    PROVE  LET s == DeleteKey(r, k)
           IN  s \in Replica /\ Backed(s, I, L)
<1> DEFINE s == DeleteKey(r, k)
           B == Buried(r, k)
<1>1. /\ s = [entries |-> s.entries, tombstones |-> s.tombstones]
      /\ s.entries = r.entries \ At(r.entries, k)
      /\ s.tombstones = GC(r.tombstones \cup B)
    BY DEF DeleteKey, Buried
<1>2. s.tombstones \subseteq r.tombstones \cup B
    BY <1>1, GCSubset
<1>3. B \subseteq TagsOf(I) /\ B \subseteq Tag
    BY DEF Buried, TagsOf, At, Backed, Replica, Entry
<1>4. s \in Replica
    BY <1>1, <1>2, <1>3 DEF Replica
<1>5. Killed(K) \subseteq Killed(L)
    BY DEF Killed
<1>6. B \subseteq Killed(L)
    <2> SUFFICES ASSUME NEW u \in B PROVE u \in Killed(L)
        OBVIOUS
    <2>1. <<u, u>> \in L
        OBVIOUS
    <2> QED BY <2>1 DEF Killed
<1>7. Backed(s, I, L)
    BY <1>1, <1>2, <1>3, <1>5, <1>6 DEF Backed
<1> QED BY <1>4, <1>7

(* An entry that a write leaves standing is not among those it buries.     *)
LEMMA WriteHides ==
    ASSUME NEW r, NEW I, r.entries \subseteq I, NEW k, NEW T, T \subseteq r.tombstones \cup Buried(r, k),
           NEW e \in r.entries, e \notin At(r.entries, k), e.tag \notin r.tombstones,
           \A f \in I : e.tag = f.tag => e = f
    PROVE  e.tag \notin T
BY DEF Buried, TagsOf, At

LEMMA MergeBacked ==
    ASSUME NEW a \in Replica, NEW b \in Replica, NEW I, NEW K,
           Backed(a, I, K), Backed(b, I, K), NEW r \in Merges(a, b)
    PROVE  r \in Replica /\ Backed(r, I, K) /\ Clean(r)
BY MergesContents DEF Backed

(* What a node answers is made of what it holds. *)
LEMMA ResponsesGood ==
    ASSUME NEW r \in Replica, NEW I, NEW K, Backed(r, I, K), NEW m, MessageOK(m)
    PROVE  GoodNet(Responses(r, m), I, K)
<1> SUFFICES ASSUME NEW x \in Responses(r, m)
             PROVE  MessageOK(x) /\ Backed(x.snapshot, I, K)
    BY DEF GoodNet
<1>1. ASSUME NEW W, NEW N \in SUBSET Key, NEW to \in Node, x = DeltaMessage(r, W, N, to)
      PROVE  MessageOK(x) /\ Backed(x.snapshot, I, K)
    <2>1. /\ x.type = "delta" /\ x.to = to /\ x.reply = NoReply /\ x.we_need = N
          /\ x.snapshot = [entries |-> {e \in r.entries : e.key \in W},
                           tombstones |-> r.tombstones]
        BY <1>1 DEF DeltaMessage, Snapshot
    <2>2. x.snapshot \in Replica
        BY <2>1 DEF Replica
    <2> QED BY <2>1, <2>2 DEF MessageOK, Backed
<1>2. m.reply \in Node
    BY DEF MessageOK, Responses
<1>3. CASE m.type = "digest"
    <2>1. x = DigestResponse(r, m.digest, m.reply)
        BY <1>2, <1>3, StoreAssumption DEF Responses
    <2>2. WeNeed(r.entries, m.digest) \in SUBSET Key
        BY <1>3 DEF WeNeed, MessageOK
    <2> QED BY <1>1, <1>2, <2>1, <2>2 DEF DigestResponse
<1>4. CASE m.type = "delta"
    <2>1. x = DeltaMessage(r, m.we_need, {}, m.reply)
        BY <1>2, <1>4, StoreAssumption DEF Responses
    <2> QED BY <1>1, <1>2, <2>1
<1>5. CASE m.type = "full_state"
    BY <1>5 DEF Responses
<1> QED BY <1>3, <1>4, <1>5 DEF MessageOK

-----------------------------------------------------------------------------
(* The inductive invariant. *)

LEMMA InitIInv == Init => IInv
<1> SUFFICES ASSUME Init PROVE IInv
    OBVIOUS
<1>1. /\ EmptyReplica \in Replica /\ Clean(EmptyReplica)
      /\ Backed(EmptyReplica, {}, {})
    BY DEF EmptyReplica, Replica, Clean, TagsOf, Backed
<1>2. TypeOK
    BY <1>1 DEF Init, TypeOK, Phase, NoScan
<1>3. IsFiniteSet(issued)
    BY FS_EmptySet DEF Init
<1>4. Coherent(issued) /\ SeqAhead
    BY DEF Init, Coherent, SeqAhead
<1>5. Sourced
    BY <1>1 DEF Init, Sourced, GoodNet, NoScan
<1>6. DeadStaysHidden
    BY <1>1 DEF Init, DeadStaysHidden, Clean
<1> QED BY <1>2, <1>3, <1>4, <1>5, <1>6 DEF IInv

(* The invariant is the base and the promise of every author. *)
LEMMA IInvSplits == IInv => Base /\ AllAuthors
BY DEF IInv, Base, AllAuthors, Author, SeqAhead, Coherent, DeadStaysHidden, TagsOf

LEMMA IInvJoins == Base /\ AllAuthors => IInv
<1> SUFFICES ASSUME Base, AllAuthors PROVE IInv
    OBVIOUS
<1>1. ASSUME NEW e \in issued PROVE e.tag[1] \in Node /\ Author(e.tag[1])
    BY DEF Base, TypeOK, Entry, Tag, AllAuthors
<1>2. Coherent(issued) /\ SeqAhead
    BY <1>1 DEF Author, Coherent, SeqAhead
<1>3. DeadStaysHidden
    <2> SUFFICES ASSUME NEW n \in Node, NEW e \in crdt[n].entries PROVE e.tag \notin crdt[n].tombstones
        BY DEF DeadStaysHidden, TagsOf
    <2>1. e \in issued
        BY DEF Base, Sourced, Backed
    <2> QED BY <1>1, <2>1 DEF Author
<1> QED BY <1>2, <1>3 DEF Base, IInv

LEMMA SetBase ==
    ASSUME Base, NEW n \in Node, NEW k \in Key, NEW v \in Value, Set(n, k, v)
    PROVE  Base'
<1> DEFINE t == NextTag(n)
           new == [key |-> k, value |-> v, tag |-> t]
           s == SetKey(crdt[n], k, v, t)
<1> USE DEF Base
<1>1. crdt[n] \in Replica /\ Backed(crdt[n], issued, kills) /\ seq[n] \in Nat
    BY DEF TypeOK, Sourced
<1>2. t \in Tag /\ new \in Entry
    BY <1>1 DEF NextTag, Tag, Entry
<1>3. /\ issued' = issued \cup {new}
      /\ kills' = kills \cup {<<u, t>> : u \in Buried(crdt[n], k)}
      /\ crdt' = [crdt EXCEPT ![n] = s]
      /\ seq' = [seq EXCEPT ![n] = @ + 1]
      /\ UNCHANGED <<peers, phase, scan, net>>
    BY DEF Set
<1>4. s \in Replica /\ Backed(s, issued', kills')
    <2> HIDE DEF t
    <2> QED BY <1>1, <1>2, <1>3, SetKeySound
<1>5. Buried(crdt[n], k) \subseteq Tag
    BY <1>1 DEF Buried, TagsOf, At, Replica, Entry
<1> HIDE DEF t, s
<1>6. TypeOK'
    <2>1. crdt' \in [Node -> Replica] /\ seq' \in [Node -> Nat]
        BY <1>3, <1>4 DEF TypeOK
    <2>2. issued' \subseteq Entry
        BY <1>2, <1>3 DEF TypeOK
    <2>3. kills' \subseteq Tag \X Tag
        BY <1>2, <1>3, <1>5 DEF TypeOK
    <2>4. saturated' \in BOOLEAN
        BY DEF Set, TypeOK
    <2> QED BY <1>3, <2>1, <2>2, <2>3, <2>4 DEF TypeOK
<1>7. IsFiniteSet(issued')
    BY <1>3, FS_AddElement
<1>8. Sourced'
    <2>1. issued \subseteq issued' /\ kills \subseteq kills'
        BY <1>3
    <2>2. ASSUME NEW p \in Node PROVE Backed(crdt'[p], issued', kills')
        <3>1. Backed(crdt[p], issued', kills')
            BY <2>1, BackedGrows DEF Sourced
        <3>2. crdt'[p] = IF p = n THEN s ELSE crdt[p]
            BY <1>3 DEF TypeOK
        <3> QED BY <1>4, <3>1, <3>2
    <2>3. GoodNet(net', issued', kills')
        BY <1>3, <2>1, GoodNetGrows DEF Sourced
    <2> QED BY <1>3, <2>1, <2>2, <2>3 DEF Sourced
<1> QED BY <1>6, <1>7, <1>8

LEMMA DeleteBase ==
    ASSUME Base, NEW n \in Node, NEW k \in Key, Delete(n, k)
    PROVE  Base'
<1> DEFINE s == DeleteKey(crdt[n], k)
<1> USE DEF Base
<1>1. crdt[n] \in Replica /\ Backed(crdt[n], issued, kills)
    BY DEF TypeOK, Sourced
<1>2. /\ kills' = kills \cup {<<u, u>> : u \in Buried(crdt[n], k)}
      /\ crdt' = [crdt EXCEPT ![n] = s]
      /\ UNCHANGED <<seq, peers, phase, scan, net, issued>>
    BY DEF Delete
<1>3. s \in Replica /\ Backed(s, issued, kills')
    BY <1>1, <1>2, DeleteKeySound
<1>4. Buried(crdt[n], k) \subseteq Tag
    BY <1>1 DEF Buried, TagsOf, At, Replica, Entry
<1> HIDE DEF s
<1>5. TypeOK'
    <2>1. crdt' \in [Node -> Replica]
        BY <1>2, <1>3 DEF TypeOK
    <2>2. kills' \subseteq Tag \X Tag
        BY <1>2, <1>4 DEF TypeOK
    <2>3. saturated' \in BOOLEAN
        BY DEF Delete, TypeOK
    <2> QED BY <1>2, <2>1, <2>2, <2>3 DEF TypeOK
<1>6. Sourced'
    <2>1. kills \subseteq kills'
        BY <1>2
    <2>2. ASSUME NEW p \in Node PROVE Backed(crdt'[p], issued', kills')
        <3>1. Backed(crdt[p], issued', kills')
            BY <1>2, <2>1, BackedGrows DEF Sourced
        <3>2. crdt'[p] = IF p = n THEN s ELSE crdt[p]
            BY <1>2 DEF TypeOK
        <3> QED BY <1>2, <1>3, <3>1, <3>2
    <2>3. GoodNet(net', issued', kills')
        BY <1>2, <2>1, GoodNetGrows DEF Sourced
    <2> QED BY <1>2, <2>2, <2>3 DEF Sourced
<1> QED BY <1>2, <1>5, <1>6

(* A node that receives a snapshot goes on with an outcome of merge(), one *)
(* that shows nothing it has a tombstone for.                              *)
LEMMA ReceiveMerges ==
    ASSUME Base, NEW m \in net, NEW gone, ReceiveSnapshot(m, gone)
    PROVE  /\ MessageOK(m) /\ m.to \in Node /\ m.type # "digest"
           /\ m.snapshot \in Replica /\ Backed(m.snapshot, issued, kills)
           /\ \E r \in Merges(crdt[m.to], m.snapshot) :
                 /\ r \in Replica /\ Backed(r, issued, kills) /\ Clean(r)
                 /\ crdt' = [crdt EXCEPT ![m.to] = r]
                 /\ Exchange(gone, Responses(r, m))
<1>1. PICK r \in Merges(crdt[m.to], m.snapshot) :
          /\ crdt' = [crdt EXCEPT ![m.to] = r]
          /\ Exchange(gone, Responses(r, m))
    BY DEF ReceiveSnapshot
<1>2. MessageOK(m) /\ m.to \in Node /\ m.type # "digest"
    BY DEF Base, Sourced, GoodNet, MessageOK, ReceiveSnapshot
<1>3. /\ crdt[m.to] \in Replica /\ Backed(crdt[m.to], issued, kills)
      /\ m.snapshot \in Replica /\ Backed(m.snapshot, issued, kills)
    BY <1>2 DEF Base, TypeOK, Sourced, GoodNet, MessageOK
<1>4. r \in Replica /\ Backed(r, issued, kills) /\ Clean(r)
    BY <1>1, <1>3, MergeBacked
<1> QED BY <1>1, <1>2, <1>3, <1>4

LEMMA ReceiveSnapshotBase ==
    ASSUME Base, NEW m \in net, NEW gone, ReceiveSnapshot(m, gone)
    PROVE  Base'
<1> USE DEF Base
<1>1. PICK r \in Merges(crdt[m.to], m.snapshot) :
          /\ r \in Replica /\ Backed(r, issued, kills)
          /\ crdt' = [crdt EXCEPT ![m.to] = r]
          /\ Exchange(gone, Responses(r, m))
    BY ReceiveMerges
<1>2. MessageOK(m) /\ m.to \in Node /\ m.type # "digest"
    BY ReceiveMerges
<1>3. UNCHANGED <<seq, phase, scan, issued, kills>>
    BY DEF ReceiveSnapshot
<1>4. GoodNet(net', issued, kills)
    <2>1. net' = (net \ gone) \cup Responses(r, m)
        BY <1>1 DEF Exchange
    <2>2. GoodNet(Responses(r, m), issued, kills)
        BY <1>1, <1>2, ResponsesGood
    <2> QED BY <2>1, <2>2, ExchangeGood DEF Sourced
<1>5. TypeOK'
    <2>1. crdt' \in [Node -> Replica]
        BY <1>1 DEF TypeOK
    <2>2. peers' \in [Node -> SUBSET Node]
        BY <1>2 DEF TypeOK, ReceiveSnapshot, Discover, MessageOK
    <2>3. saturated' \in BOOLEAN
        BY DEF ReceiveSnapshot, TypeOK
    <2> QED BY <1>3, <1>4, <2>1, <2>2, <2>3 DEF TypeOK, GoodNet
<1>6. Sourced'
    BY <1>1, <1>3, <1>4 DEF Sourced, TypeOK
<1> QED BY <1>3, <1>5, <1>6

LEMMA ReceiveDigestBase ==
    ASSUME Base, NEW m \in net, NEW gone, ReceiveDigest(m, gone)
    PROVE  Base'
<1> USE DEF Base
<1>1. MessageOK(m) /\ m.to \in Node
    BY DEF Sourced, GoodNet, MessageOK
<1>2. UNCHANGED <<crdt, seq, phase, scan, issued, kills, saturated>>
    BY DEF ReceiveDigest
<1>3. GoodNet(net', issued, kills)
    <2>1. net' = (net \ gone) \cup Responses(crdt[m.to], m)
        BY DEF ReceiveDigest, Exchange
    <2>2. GoodNet(Responses(crdt[m.to], m), issued, kills)
        BY <1>1, ResponsesGood DEF TypeOK, Sourced
    <2>3. GoodNet(net, issued, kills)
        BY DEF Sourced
    <2> QED BY <2>1, <2>2, <2>3 DEF GoodNet
<1>4. peers' \in [Node -> SUBSET Node]
    BY <1>1 DEF TypeOK, ReceiveDigest, Discover, MessageOK
<1>5. TypeOK'
    BY <1>2, <1>3, <1>4 DEF TypeOK, GoodNet
<1>6. Sourced'
    BY <1>2, <1>3 DEF Sourced
<1> QED BY <1>2, <1>5, <1>6

LEMMA PushBase ==
    ASSUME Base, NEW n \in Node, NEW T \in SUBSET Node, Push(n, T)
    PROVE  Base'
<1> USE DEF Base
<1> DEFINE new == {FullState(crdt[n], n, p) : p \in T}
<1>1. UNCHANGED <<crdt, seq, peers, phase, scan, issued, kills, saturated>>
    BY DEF Push
<1>2. GoodNet(new, issued, kills)
    <2> SUFFICES ASSUME NEW p \in T
                 PROVE  LET x == FullState(crdt[n], n, p)
                        IN  MessageOK(x) /\ Backed(x.snapshot, issued, kills)
        BY DEF GoodNet
    <2> QED BY DEF FullState, MessageOK, TypeOK, Sourced
<1>3. GoodNet(net', issued, kills)
    <2>1. net' = (net \ {}) \cup new
        BY DEF Push, Exchange
    <2> QED BY <1>2, <2>1, ExchangeGood DEF Sourced
<1> QED BY <1>1, <1>3 DEF TypeOK, GoodNet, Sourced

LEMMA StartGreetBase ==
    ASSUME Base, NEW n \in Node, StartGreet(n)
    PROVE  Base'
<1> USE DEF Base
<1> DEFINE read == Snapshot(scan[n].entries, crdt[n].tombstones)
           new == UNION {{FullState(read, n, p),
                          DigestMessage(crdt[n].entries, n, p)} : p \in scan[n].to}
<1>1. /\ UNCHANGED <<crdt, seq, peers, issued, kills, saturated>>
      /\ phase' = [phase EXCEPT ![n] = "running"]
      /\ scan' = [scan EXCEPT ![n] = NoScan]
    BY DEF StartGreet
<1>2. read \in Replica /\ Backed(read, issued, kills)
    BY DEF Snapshot, Replica, Backed, TypeOK, Sourced
<1> HIDE DEF read
<1>3. ASSUME NEW p \in scan[n].to
      PROVE  /\ MessageOK(FullState(read, n, p))
             /\ FullState(read, n, p).snapshot = read
             /\ MessageOK(DigestMessage(crdt[n].entries, n, p))
             /\ DigestMessage(crdt[n].entries, n, p).type = "digest"
    <2>1. p \in Node
        BY DEF TypeOK
    <2>2. KeysOf(crdt[n].entries) \subseteq Key
        BY DEF TypeOK, Replica, Entry, KeysOf
    <2> QED BY <1>2, <2>1, <2>2 DEF FullState, DigestMessage, Digest, MessageOK
<1>4. GoodNet(new, issued, kills)
    BY <1>2, <1>3 DEF GoodNet
<1>5. GoodNet(net', issued, kills)
    <2>1. net' = (net \ {}) \cup new
        BY DEF StartGreet, Exchange, read
    <2> HIDE DEF new
    <2> QED BY <1>4, <2>1, ExchangeGood DEF Sourced
<1>6. TypeOK'
    BY <1>1, <1>5 DEF TypeOK, GoodNet, Phase, NoScan
<1>7. Sourced'
    BY <1>1, <1>5 DEF Sourced, TypeOK, NoScan
<1> QED BY <1>1, <1>6, <1>7

(* The steps that touch neither a replica nor what is sent. *)
LEMMA OtherBase ==
    ASSUME Base,
           \/ Arrange
           \/ \E n \in Node : StartScan(n) \/ StartFails(n)
           \/ \E m \in net : Lose(m)
           \/ UNCHANGED vars
    PROVE  Base'
<1> USE DEF Base
<1>1. /\ UNCHANGED <<crdt, seq, issued, kills, saturated>>
      /\ net' \subseteq net
    <2>1. CASE Arrange
        BY <2>1 DEF Arrange, AddPeer, RemovePeer, StartAlone, Stop
    <2>2. CASE \E n \in Node : StartScan(n) \/ StartFails(n)
        BY <2>2 DEF StartScan, StartFails
    <2>3. CASE (\E m \in net : Lose(m)) \/ UNCHANGED vars
        BY <2>3 DEF Lose, vars
    <2> QED BY <2>1, <2>2, <2>3
<1>2. /\ peers' \in [Node -> SUBSET Node]
      /\ phase' \in [Node -> Phase]
      /\ scan' \in [Node -> [entries : SUBSET Entry, to : SUBSET Node]]
      /\ \A p \in Node : scan'[p].entries \subseteq issued
    <2>1. CASE Arrange
        <3>1. UNCHANGED scan
            BY <2>1 DEF Arrange, AddPeer, RemovePeer, StartAlone, Stop
        <3>2. peers' \in [Node -> SUBSET Node]
            BY <2>1 DEF Arrange, AddPeer, RemovePeer, StartAlone, Stop, TypeOK
        <3>3. phase' \in [Node -> Phase]
            BY <2>1 DEF Arrange, AddPeer, RemovePeer, StartAlone, Stop, TypeOK, Phase
        <3> QED BY <3>1, <3>2, <3>3 DEF TypeOK, Sourced
    <2>2. CASE \E n \in Node : StartScan(n)
        <3>1. PICK n \in Node : StartScan(n)
            BY <2>2
        <3>2. crdt[n].entries \in SUBSET Entry /\ crdt[n].entries \subseteq issued
            BY DEF TypeOK, Replica, Sourced, Backed
        <3>3. [entries |-> crdt[n].entries, to |-> peers[n]]
                  \in [entries : SUBSET Entry, to : SUBSET Node]
            BY <3>2 DEF TypeOK
        <3> QED BY <3>1, <3>2, <3>3 DEF StartScan, TypeOK, Phase, Sourced
    <2>3. CASE \E n \in Node : StartFails(n)
        BY <2>3 DEF StartFails, TypeOK, Phase, Sourced, NoScan
    <2>4. CASE (\E m \in net : Lose(m)) \/ UNCHANGED vars
        BY <2>4 DEF Lose, vars, TypeOK, Sourced
    <2> QED BY <2>1, <2>2, <2>3, <2>4
<1>3. TypeOK'
    BY <1>1, <1>2 DEF TypeOK
<1>4. Sourced'
    BY <1>1, <1>2 DEF Sourced, GoodNet
<1> QED BY <1>1, <1>3, <1>4

LEMMA BaseStep == Base /\ [Next]_vars => Base'
<1> SUFFICES ASSUME Base, [Next]_vars PROVE Base'
    OBVIOUS
<1>1. CASE Write
    BY <1>1, SetBase, DeleteBase DEF Write
<1>2. CASE Arrange
    BY <1>2, OtherBase
<1>3. CASE Greet
    BY <1>3, StartGreetBase, OtherBase DEF Greet
<1>4. CASE Gossip
    BY <1>4, PushBase, ReceiveSnapshotBase, ReceiveDigestBase, OtherBase DEF Gossip
<1>5. CASE UNCHANGED vars
    BY <1>5, OtherBase
<1> QED BY <1>1, <1>2, <1>3, <1>4, <1>5 DEF Next

(* The entry of a set() has a tag that no entry of its author has. *)
LEMMA SetIsFresh ==
    ASSUME Base, NEW n \in Node, Author(n), NEW e \in issued
    PROVE  e.tag # NextTag(n)
<1> SUFFICES ASSUME e.tag = NextTag(n) PROVE FALSE
    OBVIOUS
<1>1. e.tag[1] = n /\ e.tag[2] = seq[n] + 1
    BY DEF NextTag
<1>2. e.tag[2] <= seq[n] /\ seq[n] \in Nat
    BY <1>1 DEF Author, Base, TypeOK
<1> QED BY <1>1, <1>2

LEMMA SetAuthor ==
    ASSUME Base, NEW a \in Node, Author(a),
           NEW n \in Node, NEW k \in Key, NEW v \in Value, Set(n, k, v)
    PROVE  Author(a)'
<1> DEFINE t == NextTag(n)
           new == [key |-> k, value |-> v, tag |-> t]
           s == SetKey(crdt[n], k, v, t)
<1>1. /\ issued' = issued \cup {new}
      /\ crdt' = [crdt EXCEPT ![n] = s]
      /\ seq' = [seq EXCEPT ![n] = @ + 1]
    BY DEF Set
<1>2. t[1] = n /\ t[2] = seq[n] + 1 /\ seq \in [Node -> Nat] /\ crdt \in [Node -> Replica]
    BY DEF NextTag, Base, TypeOK
<1>3. \A e \in issued : n = a => e.tag # t
    BY SetIsFresh
<1>4. /\ s.entries = (crdt[n].entries \ At(crdt[n].entries, k)) \cup {new}
      /\ s.tombstones \subseteq crdt[n].tombstones \cup Buried(crdt[n], k)
    BY GCSubset DEF SetKey, Buried
<1>5. Backed(crdt[n], issued, kills)
    BY DEF Base, Sourced
<1> HIDE DEF t, s
<1>6. ASSUME NEW e \in issued', e.tag[1] = a PROVE e.tag[2] <= seq'[a]
    <2>1. CASE e \in issued
        <3>1. e.tag[2] <= seq[a]
            BY <1>6, <2>1 DEF Author
        <3>2. e.tag \in Node \X Nat
            BY <2>1 DEF Base, TypeOK, Entry, Tag
        <3>3. e.tag[2] \in Nat /\ seq[a] \in Nat /\ (seq'[a] = seq[a] \/ seq'[a] = seq[a] + 1)
            BY <1>1, <1>2, <3>2
        <3> QED BY <3>1, <3>3
    <2>2. CASE e = new
        BY <1>1, <1>2, <1>6, <2>2
    <2> QED BY <1>1, <2>1, <2>2
<1>7. ASSUME NEW e \in issued', NEW f \in issued', e.tag[1] = a, e.tag = f.tag PROVE e = f
    <2>1. CASE e \in issued /\ f \in issued
        BY <1>7, <2>1 DEF Author
    <2>2. CASE e = new \/ f = new
        <3>1. e.tag = t /\ f.tag = t /\ n = a
            BY <1>2, <1>7, <2>2
        <3> QED BY <1>1, <1>3, <3>1
    <2> QED BY <1>1, <2>1, <2>2
<1>8. ASSUME NEW e \in s.entries, e.tag[1] = a PROVE e.tag \notin s.tombstones
    <2>1. CASE e = new
        <3>1. e.tag = t /\ n = a
            BY <1>2, <1>8, <2>1
        <3>2. crdt[n].tombstones \cup Buried(crdt[n], k) \subseteq TagsOf(issued)
            BY <1>5 DEF Backed, Buried, TagsOf, At
        <3> QED BY <1>3, <1>4, <3>1, <3>2 DEF TagsOf
    <2>2. CASE e \in crdt[n].entries /\ e \notin At(crdt[n].entries, k)
        <3>1. e.tag \notin crdt[n].tombstones /\ (\A f \in issued : e.tag = f.tag => e = f)
            BY <1>5, <1>8, <2>2 DEF Author, Backed
        <3> QED BY <1>4, <1>5, <2>2, <3>1, WriteHides DEF Backed
    <2> QED BY <1>4, <2>1, <2>2
<1>9. ASSUME NEW p \in Node, NEW e \in crdt'[p].entries, e.tag[1] = a PROVE e.tag \notin crdt'[p].tombstones
    BY <1>1, <1>2, <1>8, <1>9 DEF Author
<1> QED BY <1>6, <1>7, <1>9 DEF Author

LEMMA DeleteAuthor ==
    ASSUME Base, NEW a \in Node, Author(a), NEW n \in Node, NEW k \in Key, Delete(n, k)
    PROVE  Author(a)'
<1> DEFINE s == DeleteKey(crdt[n], k)
<1>1. UNCHANGED <<issued, seq>> /\ crdt' = [crdt EXCEPT ![n] = s]
    BY DEF Delete
<1>2. crdt \in [Node -> Replica] /\ Backed(crdt[n], issued, kills)
    BY DEF Base, TypeOK, Sourced
<1>3. /\ s.entries = crdt[n].entries \ At(crdt[n].entries, k)
      /\ s.tombstones \subseteq crdt[n].tombstones \cup Buried(crdt[n], k)
    BY GCSubset DEF DeleteKey, Buried
<1> HIDE DEF s
<1>4. ASSUME NEW e \in s.entries, e.tag[1] = a PROVE e.tag \notin s.tombstones
    <2>1. e \in crdt[n].entries /\ e \notin At(crdt[n].entries, k)
        BY <1>3
    <2>2. e.tag \notin crdt[n].tombstones /\ (\A f \in issued : e.tag = f.tag => e = f)
        BY <1>2, <1>4, <2>1 DEF Author, Backed
    <2> QED BY <1>2, <1>3, <2>1, <2>2, WriteHides DEF Backed
<1>5. ASSUME NEW p \in Node, NEW e \in crdt'[p].entries, e.tag[1] = a PROVE e.tag \notin crdt'[p].tombstones
    BY <1>1, <1>2, <1>4, <1>5 DEF Author
<1> QED BY <1>1, <1>5 DEF Author

(* What an author promises about its tags, no step takes back. *)
LEMMA AuthorStep ==
    ASSUME Base, NEW a \in Node, Author(a), [Next]_vars
    PROVE  Author(a)'
<1>1. CASE UNCHANGED <<crdt, seq, issued>>
    BY <1>1 DEF Author
<1>2. ASSUME NEW m \in net, NEW gone, ReceiveSnapshot(m, gone) PROVE Author(a)'
    <2>1. PICK r : Clean(r) /\ crdt' = [crdt EXCEPT ![m.to] = r]
        BY <1>2, ReceiveMerges
    <2>2. UNCHANGED <<seq, issued>>
        BY <1>2 DEF ReceiveSnapshot
    <2>3. ASSUME NEW p \in Node, NEW e \in crdt'[p].entries, e.tag[1] = a
          PROVE  e.tag \notin crdt'[p].tombstones
        BY <2>1, <2>3 DEF Author, Clean, TagsOf, Base, TypeOK
    <2> QED BY <2>2, <2>3 DEF Author
<1>3. Arrange \/ Greet \/ UNCHANGED vars => UNCHANGED <<crdt, seq, issued>>
    BY DEF Arrange, AddPeer, RemovePeer, StartAlone, Stop, Greet, StartScan, StartGreet, StartFails, vars
<1>4. CASE Gossip
    BY <1>1, <1>2, <1>4 DEF Gossip, Push, ReceiveDigest, Lose
<1>5. CASE Write
    BY <1>5, SetAuthor, DeleteAuthor DEF Write
<1> QED BY <1>1, <1>3, <1>4, <1>5 DEF Next

LEMMA NextIInv == IInv /\ [Next]_vars => IInv'
<1>1. Base /\ AllAuthors /\ [Next]_vars => AllAuthors'
    BY AuthorStep DEF AllAuthors
<1> QED BY <1>1, BaseStep, IInvSplits, IInvJoins, PTL

(* The invariant holds in every run of the stores. *)
THEOREM Inductive == Spec => []IInv
<1> QED BY InitIInv, NextIInv, PTL DEF Spec

-----------------------------------------------------------------------------
(* What follows from it. *)

LEMMA SystemSourced ==
    ASSUME Base
    PROVE  /\ EntriesInSystem \subseteq issued
           /\ TombstonesInSystem \subseteq TagsOf(issued)
           /\ TombstonesInSystem \subseteq Killed(kills)
<1>1. ASSUME NEW s \in Carried PROVE Backed(s, issued, kills)
    BY DEF Carried, Base, Sourced, GoodNet
<1>2. ASSUME NEW n \in Node
      PROVE  Backed(crdt[n], issued, kills) /\ scan[n].entries \subseteq issued
    BY DEF Base, Sourced
<1>3. ASSUME NEW e \in EntriesInSystem PROVE e \in issued
    <2>1. \/ \E n \in Node : e \in crdt[n].entries
          \/ \E n \in Node : e \in scan[n].entries
          \/ \E s \in Carried : e \in s.entries
        BY DEF EntriesInSystem
    <2> QED BY <1>1, <1>2, <2>1 DEF Backed
<1>4. ASSUME NEW t \in TombstonesInSystem
      PROVE  t \in TagsOf(issued) /\ t \in Killed(kills)
    <2>1. \/ \E n \in Node : t \in crdt[n].tombstones
          \/ \E s \in Carried : t \in s.tombstones
        BY DEF TombstonesInSystem
    <2> QED BY <1>1, <1>2, <2>1 DEF Backed
<1> QED BY <1>3, <1>4

(* Every variable of the stores keeps its shape. *)
THEOREM TypeCorrect == Spec => []TypeOK
<1>1. IInv => TypeOK
    BY DEF IInv
<1> QED BY <1>1, Inductive, PTL

(* Two different entries never share a tag, anywhere, whatever the caps    *)
(* evict and the network repeats or reorders.                              *)
THEOREM TagsAreUnique == Spec => []TagsUnique
<1>1. IInv => TagsUnique
    BY IInvSplits, SystemSourced DEF IInv, TagsUnique, Coherent
<1> QED BY <1>1, Inductive, PTL

(* An author's counter is never behind a tag of its own that someone holds.*)
THEOREM SeqCovers == Spec => []SeqCoversTags
<1>1. ASSUME IInv PROVE SeqCoversTags
    <2>1. TagsOf(EntriesInSystem) \cup TombstonesInSystem \subseteq TagsOf(issued)
        BY <1>1, IInvSplits, SystemSourced DEF TagsOf
    <2>2. ASSUME NEW t \in TagsOf(issued) PROVE t[1] \in Node /\ t[2] <= seq[t[1]]
        <3>1. PICK e \in issued : t = e.tag
            BY DEF TagsOf
        <3>2. e.tag \in Node \X Nat
            BY <1>1 DEF IInv, TypeOK, Entry, Tag
        <3> QED BY <1>1, <3>1, <3>2 DEF IInv, SeqAhead
    <2> QED BY <2>1, <2>2 DEF SeqCoversTags
<1>2. IInv => SeqCoversTags
    BY <1>1
<1> QED BY <1>2, Inductive, PTL

(* No replica ever shows an entry it holds a tombstone for. *)
THEOREM DeadIsHidden == Spec => []DeadStaysHidden
<1>1. IInv => DeadStaysHidden
    BY DEF IInv
<1> QED BY <1>1, Inductive, PTL

(* Only what a write saw and buried is ever a tombstone. *)
THEOREM RemovesAreObserved == Spec => []RemovesOnlyObserved
<1>1. IInv => RemovesOnlyObserved
    BY IInvSplits, SystemSourced DEF RemovesOnlyObserved, Killed
<1> QED BY <1>1, Inductive, PTL

-----------------------------------------------------------------------------
(* What a replica knows only grows while no cap bites. *)

LEMMA BackedFinite ==
    ASSUME NEW r, NEW I, NEW K, IsFiniteSet(I), Backed(r, I, K)
    PROVE  Finite(r)
BY FiniteSlices, FS_Subset DEF Backed, Finite

(* A set() or delete() that overflows no cap forgets nothing. *)
LEMMA WriteKeepsKnowledge ==
    ASSUME NEW r \in Replica, NEW k, ~ Overflows(r, k), Finite(r)
    PROVE  /\ \A v, t : /\ Known(r) \cup {t} \subseteq Known(SetKey(r, k, v, t))
                        /\ SetKey(r, k, v, t).tombstones = r.tombstones \cup Buried(r, k)
           /\ Known(r) \subseteq Known(DeleteKey(r, k))
           /\ DeleteKey(r, k).tombstones = r.tombstones \cup Buried(r, k)
<1> DEFINE T == r.tombstones \cup TagsOf(At(r.entries, k))
<1>1. IsFiniteSet(T)
    BY FiniteSlices, FS_Union DEF Finite
<1>2. Cardinality(T) \in Nat /\ MAX_TOMBSTONES \in Nat
    <2> HIDE DEF T
    <2> QED BY <1>1, FS_CardinalityType, CapAssumption
<1>3. Cardinality(T) <= MAX_TOMBSTONES
    BY <1>2 DEF Overflows, Buried
<1> QED BY <1>3, BurialKeepsKnowledge DEF Buried

(* A merge of what fits under the caps is the join. *)
LEMMA ReceiveJoins ==
    ASSUME IInv, NEW m \in net, NEW gone, ReceiveSnapshot(m, gone), ~ saturated'
    PROVE  /\ crdt' = [crdt EXCEPT ![m.to] = Join(crdt[m.to], m.snapshot)]
           /\ Exchange(gone, Responses(Join(crdt[m.to], m.snapshot), m))
           /\ m.to \in Node /\ m.type # "digest"
<1>1. PICK r \in Merges(crdt[m.to], m.snapshot) :
          /\ crdt' = [crdt EXCEPT ![m.to] = r]
          /\ Exchange(gone, Responses(r, m))
    BY DEF ReceiveSnapshot
<1>2. m.to \in Node /\ m.type # "digest"
    BY DEF IInv, Sourced, GoodNet, MessageOK, ReceiveSnapshot
<1>3. /\ crdt[m.to] \in Replica /\ Backed(crdt[m.to], issued, kills)
      /\ m.snapshot \in Replica /\ Backed(m.snapshot, issued, kills)
    BY <1>2 DEF IInv, TypeOK, Sourced, GoodNet, MessageOK
<1>4. Finite(crdt[m.to]) /\ Finite(m.snapshot)
    BY <1>3, BackedFinite DEF IInv
<1>5. Fits({crdt[m.to], m.snapshot})
    BY DEF ReceiveSnapshot
<1>6. r = Join(crdt[m.to], m.snapshot)
    BY <1>1, <1>3, <1>4, <1>5, MergeWithinCaps
<1> QED BY <1>1, <1>2, <1>6

LEMMA StepForgetsNothing ==
    ASSUME IInv, [Next]_vars, ~ saturated', NEW n \in Node
    PROVE  /\ Known(crdt[n]) \subseteq Known(crdt'[n])
           /\ crdt[n].tombstones \subseteq crdt'[n].tombstones
<1>1. ASSUME NEW p \in Node PROVE crdt[p] \in Replica /\ Finite(crdt[p])
    BY BackedFinite DEF IInv, TypeOK, Sourced
<1>2. CASE UNCHANGED crdt
    BY <1>2
<1>3. ASSUME NEW p \in Node, NEW k \in Key, NEW v \in Value, Set(p, k, v)
      PROVE  /\ Known(crdt[n]) \subseteq Known(crdt'[n])
             /\ crdt[n].tombstones \subseteq crdt'[n].tombstones
    <2>1. ~ Overflows(crdt[p], k) /\ crdt' = [crdt EXCEPT ![p] = SetKey(@, k, v, NextTag(p))]
        BY <1>3 DEF Set
    <2>2. /\ Known(crdt[p]) \subseteq Known(SetKey(crdt[p], k, v, NextTag(p)))
          /\ crdt[p].tombstones \subseteq SetKey(crdt[p], k, v, NextTag(p)).tombstones
        BY <1>1, <2>1, WriteKeepsKnowledge
    <2> QED BY <2>1, <2>2 DEF IInv, TypeOK
<1>4. ASSUME NEW p \in Node, NEW k \in Key, Delete(p, k)
      PROVE  /\ Known(crdt[n]) \subseteq Known(crdt'[n])
             /\ crdt[n].tombstones \subseteq crdt'[n].tombstones
    <2>1. ~ Overflows(crdt[p], k) /\ crdt' = [crdt EXCEPT ![p] = DeleteKey(@, k)]
        BY <1>4 DEF Delete
    <2>2. /\ Known(crdt[p]) \subseteq Known(DeleteKey(crdt[p], k))
          /\ crdt[p].tombstones \subseteq DeleteKey(crdt[p], k).tombstones
        BY <1>1, <2>1, WriteKeepsKnowledge
    <2> QED BY <2>1, <2>2 DEF IInv, TypeOK
<1>5. ASSUME NEW m \in net, NEW gone, ReceiveSnapshot(m, gone)
      PROVE  /\ Known(crdt[n]) \subseteq Known(crdt'[n])
             /\ crdt[n].tombstones \subseteq crdt'[n].tombstones
    <2>1. /\ crdt' = [crdt EXCEPT ![m.to] = Join(crdt[m.to], m.snapshot)]
          /\ m.to \in Node
        BY <1>5, ReceiveJoins
    <2>2. /\ Known(crdt[m.to]) \subseteq Known(Join(crdt[m.to], m.snapshot))
          /\ crdt[m.to].tombstones \subseteq Join(crdt[m.to], m.snapshot).tombstones
        BY JoinKeepsKnowledge
    <2> QED BY <2>1, <2>2 DEF IInv, TypeOK
<1>6. CASE Write
    BY <1>3, <1>4, <1>6 DEF Write
<1>7. CASE Arrange
    <2>1. UNCHANGED crdt
        BY <1>7 DEF Arrange, AddPeer, RemovePeer, StartAlone, Stop
    <2> QED BY <1>2, <2>1
<1>8. CASE Greet
    <2>1. UNCHANGED crdt
        BY <1>8 DEF Greet, StartScan, StartGreet, StartFails
    <2> QED BY <1>2, <2>1
<1>9. CASE Gossip
    <2>1. CASE \E m \in net : ReceiveSnapshot(m, {m}) \/ ReceiveSnapshot(m, {})
        BY <1>5, <2>1
    <2>2. CASE \/ \E p \in Node, T \in SUBSET Node : Push(p, T)
               \/ \E m \in net : ReceiveDigest(m, {m}) \/ ReceiveDigest(m, {}) \/ Lose(m)
        <3>1. UNCHANGED crdt
            BY <2>2 DEF Push, ReceiveDigest, Lose
        <3> QED BY <1>2, <3>1
    <2> QED BY <1>9, <2>1, <2>2 DEF Gossip
<1> QED BY <1>2, <1>6, <1>7, <1>8, <1>9 DEF Next, vars

(* As long as no cap bites, stale, repeated and overtaken messages leave   *)
(* every replica knowing at least what it knew, and the dead dead.         *)
THEOREM NothingIsForgotten == Spec => NothingForgotten
<1>1. ASSUME IInv, [Next]_vars
      PROVE  [~ saturated' =>
                 \A n \in Node : /\ Known(crdt[n]) \subseteq Known(crdt'[n])
                                 /\ crdt[n].tombstones \subseteq crdt'[n].tombstones]_vars
    BY <1>1, StepForgetsNothing
<1> QED BY <1>1, Inductive, PTL DEF Spec, NothingForgotten

-----------------------------------------------------------------------------
(* The safety caps. *)

AllCapped == \A n \in Node : Capped(crdt[n])

LEMMA CappedStep ==
    ASSUME Base, AllCapped, [Next]_vars
    PROVE  AllCapped'
<1>1. crdt \in [Node -> Replica]
    BY DEF Base, TypeOK
<1>2. ASSUME NEW p \in Node, NEW s, Capped(s), crdt' = [crdt EXCEPT ![p] = s]
      PROVE  AllCapped'
    BY <1>1, <1>2 DEF AllCapped
<1>3. CASE UNCHANGED crdt
    BY <1>3 DEF AllCapped
<1>4. ASSUME NEW p \in Node, NEW k \in Key, NEW v \in Value, Set(p, k, v) PROVE AllCapped'
    <2>1. Capped(SetKey(crdt[p], k, v, NextTag(p)))
        BY <1>1, <1>4, SetKeyCapped DEF Set, AllCapped
    <2>2. crdt' = [crdt EXCEPT ![p] = SetKey(crdt[p], k, v, NextTag(p))]
        BY <1>4 DEF Set
    <2> QED BY <1>2, <2>1, <2>2
<1>5. ASSUME NEW p \in Node, NEW k \in Key, Delete(p, k) PROVE AllCapped'
    <2>1. Capped(DeleteKey(crdt[p], k))
        BY <1>1, DeleteKeyCapped DEF AllCapped
    <2>2. crdt' = [crdt EXCEPT ![p] = DeleteKey(crdt[p], k)]
        BY <1>5 DEF Delete
    <2> QED BY <1>2, <2>1, <2>2
<1>6. ASSUME NEW m \in net, NEW gone, ReceiveSnapshot(m, gone) PROVE AllCapped'
    <2>1. PICK r \in Merges(crdt[m.to], m.snapshot) : crdt' = [crdt EXCEPT ![m.to] = r]
        BY <1>6 DEF ReceiveSnapshot
    <2>2. m.to \in Node /\ m.type # "digest"
        BY <1>6 DEF Base, Sourced, GoodNet, MessageOK, ReceiveSnapshot
    <2>3. m.snapshot \in Replica /\ Backed(m.snapshot, issued, kills)
        BY <2>2 DEF Base, Sourced, GoodNet, MessageOK
    <2>4. Finite(m.snapshot)
        BY <2>3, BackedFinite DEF Base
    <2>5. Capped(r)
        BY <1>1, <2>1, <2>2, <2>3, <2>4, MergesCapped DEF AllCapped
    <2> QED BY <1>2, <2>1, <2>2, <2>5
<1>7. Write => AllCapped'
    BY <1>4, <1>5 DEF Write
<1>8. Arrange \/ Greet \/ UNCHANGED vars => UNCHANGED crdt
    BY DEF Arrange, AddPeer, RemovePeer, StartAlone, Stop, Greet, StartScan, StartGreet, StartFails, vars
<1>9. CASE Gossip
    <2>1. CASE \E m \in net : ReceiveSnapshot(m, {m}) \/ ReceiveSnapshot(m, {})
        BY <1>6, <2>1
    <2>2. CASE \/ \E p \in Node, T \in SUBSET Node : Push(p, T)
               \/ \E m \in net : ReceiveDigest(m, {m}) \/ ReceiveDigest(m, {}) \/ Lose(m)
        <3>1. UNCHANGED crdt
            BY <2>2 DEF Push, ReceiveDigest, Lose
        <3> QED BY <1>3, <3>1
    <2> QED BY <1>9, <2>1, <2>2 DEF Gossip
<1> QED BY <1>3, <1>7, <1>8, <1>9 DEF Next

(* No replica ever exceeds a cap: not by writes, not by merging whatever   *)
(* its peers hold, in whichever order the loops of merge() run.            *)
THEOREM CapsAreKept == Spec => []CapsHold
<1>1. Init => AllCapped
    BY EmptyCapped DEF Init, AllCapped
<1>2. IInv /\ AllCapped /\ [Next]_vars => AllCapped'
    BY CappedStep, IInvSplits
<1>3. AllCapped => CapsHold
    BY DEF AllCapped, Capped, CapsHold
<1> QED BY <1>1, <1>2, <1>3, Inductive, PTL DEF Spec

-----------------------------------------------------------------------------
(* While no more entries are written than the caps hold, the store         *)
(* implements the abstract map.                                            *)

Roomy ==
    MaxWrites <= MAX_TOMBSTONES /\ MaxWrites <= MAX_KEYS /\ MaxWrites <= MAX_ENTRIES_PER_KEY

Deaths == UNION {crdt[n].tombstones : n \in Node}

(* Counters stay within the writes there may be, and a snapshot in flight  *)
(* holds no tombstone that some node does not hold.                        *)
Counted ==
    /\ Cardinality(issued) <= MaxWrites
    /\ \A n \in Node : seq[n] <= Cardinality(issued)
    /\ ~ saturated

CarriedHeld == \A m \in net : m.type # "digest" => m.snapshot.tombstones \subseteq Deaths

(* Parts of what was issued are no more than what was issued. *)
LEMMA PartsFit ==
    ASSUME IInv, Counted, Roomy, NEW E \in SUBSET issued, NEW T \in SUBSET TagsOf(issued)
    PROVE  /\ Cardinality(T) <= MAX_TOMBSTONES /\ IsFiniteSet(T) /\ IsFiniteSet(E)
           /\ Cardinality(KeysOf(E)) <= MAX_KEYS
           /\ \A k : Cardinality(At(E, k)) <= MAX_ENTRIES_PER_KEY
BY PartsOfFew, StoreAssumption DEF IInv, Counted, Roomy

LEMMA NothingOverflows ==
    ASSUME IInv, Counted, Roomy, NEW n \in Node, NEW k
    PROVE  ~ Overflows(crdt[n], k)
<1>1. Backed(crdt[n], issued, kills) /\ crdt[n].tombstones \subseteq TagsOf(issued)
    BY DEF IInv, Sourced, Backed
<1>2. crdt[n].tombstones \cup Buried(crdt[n], k) \in SUBSET TagsOf(issued)
    BY <1>1 DEF Backed, Buried, TagsOf, At
<1> DEFINE T == crdt[n].tombstones \cup Buried(crdt[n], k)
<1>3. Cardinality(T) <= MAX_TOMBSTONES /\ Cardinality(T) \in Nat
    <2> HIDE DEF T
    <2> QED BY <1>2, PartsFit, FS_CardinalityType DEF T
<1> QED BY <1>3, CapAssumption DEF Overflows

LEMMA SnapshotFits ==
    ASSUME IInv, Counted, Roomy, NEW n \in Node, NEW b, Backed(b, issued, kills)
    PROVE  Fits({crdt[n], b})
<1>1. Backed(crdt[n], issued, kills)
    BY DEF IInv, Sourced
<1> DEFINE E == crdt[n].entries \cup b.entries
           T == crdt[n].tombstones \cup b.tombstones
<1>2. E \in SUBSET issued /\ T \in SUBSET TagsOf(issued)
    BY <1>1 DEF Backed
<1>3. /\ UNION {s.entries : s \in {crdt[n], b}} = E
      /\ UNION {s.tombstones : s \in {crdt[n], b}} = T
    OBVIOUS
<1> HIDE DEF E, T
<1> QED BY <1>2, <1>3, PartsFit DEF Fits

(* A write is counted once in its author's counter and once in all. *)
LEMMA CountedStep ==
    ASSUME IInv, Counted, Roomy, [Next]_vars
    PROVE  Counted'
<1>1. CASE UNCHANGED <<seq, issued, saturated>>
    BY <1>1 DEF Counted
<1>2. ASSUME NEW n \in Node, NEW k \in Key, NEW v \in Value, Set(n, k, v) PROVE Counted'
    <2> DEFINE new == [key |-> k, value |-> v, tag |-> NextTag(n)]
    <2>1. /\ issued' = issued \cup {new} /\ seq' = [seq EXCEPT ![n] = @ + 1]
          /\ Cardinality(issued) < MaxWrites
          /\ saturated' = (saturated \/ Overflows(crdt[n], k))
        BY <1>2 DEF Set
    <2>2. new \notin issued
        <3> SUFFICES ASSUME new \in issued PROVE FALSE
            OBVIOUS
        <3>1. new.tag[1] = n /\ new.tag[2] = seq[n] + 1
            BY DEF NextTag
        <3>2. new.tag[2] <= seq[new.tag[1]]
            BY DEF IInv, SeqAhead
        <3> QED BY <3>1, <3>2 DEF IInv, TypeOK
    <2> HIDE DEF new
    <2>3. Cardinality(issued') = Cardinality(issued) + 1 /\ Cardinality(issued) \in Nat
        BY <2>1, <2>2, FS_AddElement, FS_CardinalityType DEF IInv
    <2>4. ASSUME NEW p \in Node PROVE seq'[p] <= Cardinality(issued')
        BY <2>1, <2>3 DEF Counted, IInv, TypeOK
    <2>5. ~ saturated'
        BY <2>1, NothingOverflows DEF Counted
    <2>6. Cardinality(issued') <= MaxWrites
        BY <2>1, <2>3, StoreAssumption
    <2> QED BY <2>4, <2>5, <2>6 DEF Counted
<1>3. ASSUME NEW n \in Node, NEW k \in Key, Delete(n, k) PROVE Counted'
    <2>1. UNCHANGED <<seq, issued>> /\ ~ saturated'
        BY <1>3, NothingOverflows DEF Delete, Counted
    <2> QED BY <2>1 DEF Counted
<1>4. ASSUME NEW m \in net, NEW gone, ReceiveSnapshot(m, gone) PROVE Counted'
    <2>1. m.to \in Node /\ m.type # "digest"
        BY <1>4 DEF IInv, Sourced, GoodNet, MessageOK, ReceiveSnapshot
    <2>2. Backed(m.snapshot, issued, kills)
        BY <2>1 DEF IInv, Sourced, GoodNet
    <2>3. UNCHANGED <<seq, issued>> /\ ~ saturated'
        BY <1>4, <2>1, <2>2, SnapshotFits DEF ReceiveSnapshot, Counted
    <2> QED BY <2>3 DEF Counted
<1>5. Write => Counted'
    BY <1>2, <1>3 DEF Write
<1>6. Arrange \/ Greet \/ UNCHANGED vars => UNCHANGED <<seq, issued, saturated>>
    BY DEF Arrange, AddPeer, RemovePeer, StartAlone, Stop, Greet, StartScan, StartGreet, StartFails, vars
<1>7. CASE Gossip
    <2>1. CASE \E m \in net : ReceiveSnapshot(m, {m}) \/ ReceiveSnapshot(m, {})
        BY <1>4, <2>1
    <2>2. CASE \/ \E p \in Node, T \in SUBSET Node : Push(p, T)
               \/ \E m \in net : ReceiveDigest(m, {m}) \/ ReceiveDigest(m, {}) \/ Lose(m)
        <3>1. UNCHANGED <<seq, issued, saturated>>
            BY <2>2 DEF Push, ReceiveDigest, Lose
        <3> QED BY <1>1, <3>1
    <2> QED BY <1>7, <2>1, <2>2 DEF Gossip
<1> QED BY <1>1, <1>5, <1>6, <1>7 DEF Next

(* What a node answers holds its own tombstones. *)
LEMMA ResponsesHeld ==
    ASSUME NEW r, NEW m, MessageOK(m), NEW x \in Responses(r, m)
    PROVE  x.snapshot.tombstones = r.tombstones
<1>1. \A W, N, to : DeltaMessage(r, W, N, to).snapshot.tombstones = r.tombstones
    BY DEF DeltaMessage, Snapshot
<1>2. \/ x = DigestResponse(r, m.digest, m.reply)
      \/ x = DeltaMessage(r, m.we_need, {}, m.reply)
    BY DEF Responses, MessageOK
<1> QED BY <1>1, <1>2 DEF DigestResponse

LEMMA CarriedHeldStep ==
    ASSUME IInv, Counted, CarriedHeld, Roomy, [Next]_vars
    PROVE  CarriedHeld'
<1>0. Deaths \subseteq Deaths'
    <2>1. \A n \in Node : crdt[n].tombstones \subseteq crdt'[n].tombstones
        BY CountedStep, StepForgetsNothing DEF Counted
    <2> QED BY <2>1 DEF Deaths
<1>1. ASSUME NEW x \in net PROVE x.type # "digest" => x.snapshot.tombstones \subseteq Deaths'
    BY <1>0 DEF CarriedHeld
<1>2. ASSUME NEW n \in Node PROVE crdt'[n].tombstones \subseteq Deaths'
    BY DEF Deaths
<1>3. CASE net' \subseteq net
    BY <1>1, <1>3 DEF CarriedHeld
<1>4. ASSUME NEW n \in Node, StartGreet(n) PROVE CarriedHeld'
    <2> SUFFICES ASSUME NEW x \in net', x.type # "digest", x \notin net
                 PROVE  x.snapshot.tombstones \subseteq Deaths'
        BY <1>1 DEF CarriedHeld
    <2>1. UNCHANGED crdt
        BY <1>4 DEF StartGreet
    <2>2. PICK p \in scan[n].to :
              x \in {FullState(Snapshot(scan[n].entries, crdt[n].tombstones), n, p),
                     DigestMessage(crdt[n].entries, n, p)}
        BY <1>4 DEF StartGreet, Exchange
    <2>3. x = FullState(Snapshot(scan[n].entries, crdt[n].tombstones), n, p)
        BY <2>2 DEF DigestMessage
    <2>4. x.snapshot.tombstones = crdt[n].tombstones
        BY <2>3 DEF FullState, Snapshot
    <2> QED BY <1>2, <2>1, <2>4
<1>5. ASSUME NEW n \in Node, NEW T, Push(n, T) PROVE CarriedHeld'
    <2> SUFFICES ASSUME NEW x \in net', x.type # "digest", x \notin net
                 PROVE  x.snapshot.tombstones \subseteq Deaths'
        BY <1>1 DEF CarriedHeld
    <2>1. UNCHANGED crdt /\ \E p \in T : x = FullState(crdt[n], n, p)
        BY <1>5 DEF Push, Exchange
    <2>2. x.snapshot = crdt[n]
        BY <2>1 DEF FullState
    <2> QED BY <1>2, <2>1, <2>2
<1>6. ASSUME NEW m \in net, NEW gone, ReceiveSnapshot(m, gone) \/ ReceiveDigest(m, gone)
      PROVE  CarriedHeld'
    <2> SUFFICES ASSUME NEW x \in net', x.type # "digest", x \notin net
                 PROVE  x.snapshot.tombstones \subseteq Deaths'
        BY <1>1 DEF CarriedHeld
    <2>1. MessageOK(m) /\ m.to \in Node
        BY DEF IInv, Sourced, GoodNet, MessageOK
    <2>2. x \in Responses(crdt'[m.to], m)
        BY <1>6, <2>1 DEF ReceiveSnapshot, ReceiveDigest, Exchange, IInv, TypeOK
    <2> QED BY <1>2, <2>1, <2>2, ResponsesHeld
<1>7. Write \/ Arrange \/ UNCHANGED vars => net' \subseteq net
    BY DEF Write, Set, Delete, Arrange, AddPeer, RemovePeer, StartAlone, Stop, vars
<1>8. CASE Greet
    BY <1>3, <1>4, <1>8 DEF Greet, StartScan, StartFails
<1>9. CASE Gossip
    BY <1>3, <1>5, <1>6, <1>9 DEF Gossip, Lose
<1> QED BY <1>3, <1>7, <1>8, <1>9 DEF Next

(* Every step is a write, a removal, something learned, or a stutter. *)
LEMMA StepMaps ==
    ASSUME IInv, Counted, CarriedHeld, Roomy, [Next]_vars
    PROVE  [Abstract!Next]_(Abstract!vars)
<1>1. ASSUME NEW n \in Node PROVE crdt[n] \in Replica /\ Finite(crdt[n])
    BY BackedFinite DEF IInv, TypeOK, Sourced
<1>2. CASE UNCHANGED <<issued, crdt>>
    BY <1>2 DEF Abstract!vars
<1>3. ASSUME NEW n \in Node, NEW s, crdt' = [crdt EXCEPT ![n] = s]
      PROVE  /\ [p \in Node |-> crdt'[p].entries]
                    = [[p \in Node |-> crdt[p].entries] EXCEPT ![n] = s.entries]
             /\ [p \in Node |-> crdt'[p].tombstones]
                    = [[p \in Node |-> crdt[p].tombstones] EXCEPT ![n] = s.tombstones]
    BY <1>3 DEF IInv, TypeOK
<1>4. ASSUME NEW n \in Node, NEW k \in Key, NEW v \in Value, Set(n, k, v)
      PROVE  Abstract!Next
    <2> DEFINE t == NextTag(n)
               new == [key |-> k, value |-> v, tag |-> t]
               s == SetKey(crdt[n], k, v, t)
    <2>1. issued' = issued \cup {new} /\ crdt' = [crdt EXCEPT ![n] = s] /\ Cardinality(issued) < MaxWrites
        BY <1>4 DEF Set
    <2>2. t \in Node \X (1 .. MaxWrites)
        <3>1. seq[n] \in Nat /\ seq[n] <= Cardinality(issued) /\ Cardinality(issued) \in Nat
            BY FS_CardinalityType DEF Counted, IInv, TypeOK
        <3>2. seq[n] + 1 \in 1 .. MaxWrites
            BY <2>1, <3>1, StoreAssumption
        <3> QED BY <3>2 DEF NextTag
    <2>3. \A e \in issued : e.tag # t
        <3> SUFFICES ASSUME NEW e \in issued, e.tag = t PROVE FALSE
            OBVIOUS
        <3>1. e.tag[1] = n /\ e.tag[2] = seq[n] + 1
            BY DEF NextTag
        <3>2. e.tag[2] <= seq[e.tag[1]]
            BY DEF IInv, SeqAhead
        <3> QED BY <3>1, <3>2 DEF IInv, TypeOK
    <2>4. s.tombstones = crdt[n].tombstones \cup Buried(crdt[n], k)
        BY <1>1, NothingOverflows, WriteKeepsKnowledge
    <2>5. s.entries = (crdt[n].entries \ At(crdt[n].entries, k)) \cup {new}
        BY DEF SetKey
    <2> HIDE DEF t, s
    <2>6. Abstract!Write(n, k, v, t)
        <3>0. PICK alive, dead : /\ alive = [p \in Node |-> crdt[p].entries]
                                 /\ dead = [p \in Node |-> crdt[p].tombstones]
            OBVIOUS
        <3>1. alive[n] = crdt[n].entries /\ dead[n] = crdt[n].tombstones
            BY <3>0
        <3>2. PICK seen : seen = {e \in alive[n] : e.key = k}
            OBVIOUS
        <3>3. s.entries = (alive[n] \ seen) \cup {new} /\ s.tombstones = dead[n] \cup {e.tag : e \in seen}
            BY <2>4, <2>5, <3>1, <3>2 DEF Buried, At, TagsOf
        <3>4. /\ [p \in Node |-> crdt'[p].entries] = [alive EXCEPT ![n] = (alive[n] \ seen) \cup {new}]
              /\ [p \in Node |-> crdt'[p].tombstones] = [dead EXCEPT ![n] = dead[n] \cup {e.tag : e \in seen}]
            <4>1. /\ [p \in Node |-> crdt'[p].entries]
                         = [[p \in Node |-> crdt[p].entries] EXCEPT ![n] = s.entries]
                  /\ [p \in Node |-> crdt'[p].tombstones]
                         = [[p \in Node |-> crdt[p].tombstones] EXCEPT ![n] = s.tombstones]
                BY <1>3, <2>1
            <4> QED BY <3>0, <3>3, <4>1, Zenon
        <3> QED BY <2>1, <2>3, <3>0, <3>2, <3>4 DEF Abstract!Write, Abstract!Replace, Abstract!Seen
    <2> QED BY <2>2, <2>6 DEF Abstract!Next
<1>5. ASSUME NEW n \in Node, NEW k \in Key, Delete(n, k) PROVE Abstract!Next
    <2> DEFINE s == DeleteKey(crdt[n], k)
    <2>1. crdt' = [crdt EXCEPT ![n] = s] /\ UNCHANGED issued
        BY <1>5 DEF Delete
    <2>2. s.tombstones = crdt[n].tombstones \cup Buried(crdt[n], k)
        BY <1>1, NothingOverflows, WriteKeepsKnowledge
    <2>3. s.entries = (crdt[n].entries \ At(crdt[n].entries, k)) \cup {}
        BY DEF DeleteKey
    <2> HIDE DEF s
    <2>4. Abstract!Remove(n, k)
        <3>0. PICK alive, dead : /\ alive = [p \in Node |-> crdt[p].entries]
                                 /\ dead = [p \in Node |-> crdt[p].tombstones]
            OBVIOUS
        <3>1. alive[n] = crdt[n].entries /\ dead[n] = crdt[n].tombstones
            BY <3>0
        <3>2. PICK seen : seen = {e \in alive[n] : e.key = k}
            OBVIOUS
        <3>3. s.entries = (alive[n] \ seen) \cup {} /\ s.tombstones = dead[n] \cup {e.tag : e \in seen}
            BY <2>2, <2>3, <3>1, <3>2 DEF Buried, At, TagsOf
        <3>4. /\ [p \in Node |-> crdt'[p].entries] = [alive EXCEPT ![n] = (alive[n] \ seen) \cup {}]
              /\ [p \in Node |-> crdt'[p].tombstones] = [dead EXCEPT ![n] = dead[n] \cup {e.tag : e \in seen}]
            <4>1. /\ [p \in Node |-> crdt'[p].entries]
                         = [[p \in Node |-> crdt[p].entries] EXCEPT ![n] = s.entries]
                  /\ [p \in Node |-> crdt'[p].tombstones]
                         = [[p \in Node |-> crdt[p].tombstones] EXCEPT ![n] = s.tombstones]
                BY <1>3, <2>1
            <4> QED BY <3>0, <3>3, <4>1, Zenon
        <3> QED BY <2>1, <3>0, <3>2, <3>4 DEF Abstract!Remove, Abstract!Replace, Abstract!Seen
    <2> QED BY <2>4 DEF Abstract!Next
<1>6. ASSUME NEW m \in net, NEW gone, ReceiveSnapshot(m, gone) PROVE Abstract!Next
    <2>1. /\ crdt' = [crdt EXCEPT ![m.to] = Join(crdt[m.to], m.snapshot)]
          /\ m.to \in Node /\ m.type # "digest"
        BY <1>6, CountedStep, ReceiveJoins DEF Counted
    <2>2. UNCHANGED issued
        BY <1>6 DEF ReceiveSnapshot
    <2>3. /\ Backed(m.snapshot, issued, kills) /\ Backed(crdt[m.to], issued, kills)
          /\ m.snapshot.tombstones \subseteq Deaths
        BY <2>1 DEF IInv, Sourced, GoodNet, CarriedHeld
    <2> DEFINE E == m.snapshot.entries
               D == m.snapshot.tombstones
               s == Join(crdt[m.to], m.snapshot)
    <2>4. /\ s.entries = {e \in crdt[m.to].entries \cup E : e.tag \notin crdt[m.to].tombstones \cup D}
          /\ s.tombstones = crdt[m.to].tombstones \cup D
        <3>1. Coherent(crdt[m.to].entries \cup m.snapshot.entries)
            BY <2>3 DEF Backed, IInv, Coherent
        <3> QED BY <3>1, JoinIsUnion
    <2>5. E \in SUBSET issued /\ D \in SUBSET UNION {[p \in Node |-> crdt[p].tombstones][n] : n \in Node}
        BY <2>3 DEF Backed, Deaths
    <2>7. crdt' = [crdt EXCEPT ![m.to] = s]
        BY <2>1
    <2> HIDE DEF E, D, s
    <2>6. Abstract!Learn(m.to, E, D)
        <3>0. PICK n, alive, dead : /\ n = m.to
                                    /\ alive = [p \in Node |-> crdt[p].entries]
                                    /\ dead = [p \in Node |-> crdt[p].tombstones]
            OBVIOUS
        <3>1. alive[n] = crdt[n].entries /\ dead[n] = crdt[n].tombstones /\ n \in Node
            BY <2>1, <3>0
        <3>5. PICK next : next = [dead EXCEPT ![n] = dead[n] \cup D]
            OBVIOUS
        <3>2. next[n] = dead[n] \cup D
            <4>1. DOMAIN dead = Node
                BY <3>0
            <4> QED BY <3>1, <3>5, <4>1
        <3>3. s.entries = {e \in alive[n] \cup E : e.tag \notin next[n]} /\ s.tombstones = dead[n] \cup D
            BY <2>4, <3>0, <3>1, <3>2
        <3>4. /\ [p \in Node |-> crdt'[p].entries]
                      = [alive EXCEPT ![n] = {e \in alive[n] \cup E : e.tag \notin next[n]}]
              /\ [p \in Node |-> crdt'[p].tombstones] = next
            <4>1. m.to \in Node
                BY <2>1
            <4>2. /\ [p \in Node |-> crdt'[p].entries]
                         = [[p \in Node |-> crdt[p].entries] EXCEPT ![m.to] = s.entries]
                  /\ [p \in Node |-> crdt'[p].tombstones]
                         = [[p \in Node |-> crdt[p].tombstones] EXCEPT ![m.to] = s.tombstones]
                BY <1>3, <2>7, <4>1
            <4> QED BY <3>0, <3>3, <3>5, <4>2, Zenon
        <3>6. next = [dead EXCEPT ![m.to] = dead[m.to] \cup D]
            BY <3>0, <3>5
        <3>7. [p \in Node |-> crdt'[p].entries]
                  = [alive EXCEPT ![m.to] = {e \in alive[m.to] \cup E : e.tag \notin next[m.to]}]
            BY <3>0, <3>4
        <3>8. alive = [p \in Node |-> crdt[p].entries] /\ dead = [p \in Node |-> crdt[p].tombstones]
            BY <3>0
        <3>9. next = [p \in Node |-> crdt'[p].tombstones]
            BY <3>4
        <3> QED BY <2>2, <3>6, <3>7, <3>8, <3>9, Zenon DEF Abstract!Learn
    <2> QED BY <2>1, <2>5, <2>6 DEF Abstract!Next
<1>7. Write => Abstract!Next
    BY <1>4, <1>5 DEF Write
<1>8. Arrange \/ Greet \/ UNCHANGED vars => UNCHANGED <<issued, crdt>>
    BY DEF Arrange, AddPeer, RemovePeer, StartAlone, Stop, Greet, StartScan, StartGreet, StartFails, vars
<1>9. CASE Gossip
    <2>1. CASE \E m \in net : ReceiveSnapshot(m, {m}) \/ ReceiveSnapshot(m, {})
        BY <1>6, <2>1
    <2>2. CASE \/ \E p \in Node, T \in SUBSET Node : Push(p, T)
               \/ \E m \in net : ReceiveDigest(m, {m}) \/ ReceiveDigest(m, {}) \/ Lose(m)
        <3>1. UNCHANGED <<issued, crdt>>
            BY <2>2 DEF Push, ReceiveDigest, Lose
        <3> QED BY <1>2, <3>1
    <2> QED BY <1>9, <2>1, <2>2 DEF Gossip
<1> QED BY <1>2, <1>7, <1>8, <1>9 DEF Next

(* Lost, repeated and overtaken messages, digests answered late and starts *)
(* that fail half-way: while the caps hold what is written, every step of  *)
(* the stores is one that the abstract map may take.                       *)
THEOREM StoresImplementMap ==
    ASSUME Roomy PROVE Spec => ImplementsMap
<1>1. Init => IInv /\ Counted /\ CarriedHeld
    <2>1. Init => Counted /\ CarriedHeld
        BY FS_EmptySet, StoreAssumption DEF Init, Counted, CarriedHeld
    <2> QED BY <2>1, InitIInv
<1>2. IInv /\ Counted /\ CarriedHeld /\ [Next]_vars => (IInv /\ Counted /\ CarriedHeld)'
    BY NextIInv, CountedStep, CarriedHeldStep
<1>3. Init => Abstract!Init
    BY DEF Init, Abstract!Init, EmptyReplica
<1>4. IInv /\ Counted /\ CarriedHeld /\ [Next]_vars => [Abstract!Next]_(Abstract!vars)
    BY StepMaps
<1> QED BY <1>1, <1>2, <1>3, <1>4, PTL DEF Spec, ImplementsMap, Abstract!Spec

-----------------------------------------------------------------------------
(* What makes full-state gossip atomic: every replica, and every snapshot  *)
(* in flight, that holds a tombstone also knows what put it there.         *)

PushInv ==
    /\ \A m \in net : m.type = "full_state"
    /\ ~ saturated => /\ \A n \in Node : Explained(crdt[n])
                      /\ \A m \in net : Explained(m.snapshot)

LEMMA PushNextIsNext == [PushNext]_vars => [Next]_vars
BY DEF PushNext, Next

(* Explanations survive a merge, because nothing is forgotten by it. *)
LEMMA JoinExplained ==
    ASSUME NEW a, NEW b, Explained(a), Explained(b)
    PROVE  Explained(Join(a, b))
BY JoinKeepsKnowledge DEF Explained

(* A local write explains the tombstones it makes: an overwrite by the new *)
(* entry, a delete by itself.                                              *)
LEMMA WritePushInv ==
    ASSUME IInv, PushInv, Write
    PROVE  PushInv'
<1>1. ASSUME NEW p \in Node
      PROVE  crdt[p] \in Replica /\ IsFiniteSet(crdt[p].entries) /\ IsFiniteSet(crdt[p].tombstones)
    BY BackedFinite DEF IInv, TypeOK, Sourced, Finite
<1>2. ASSUME NEW n \in Node, NEW s, ~ saturated', UNCHANGED net,
             crdt' = [crdt EXCEPT ![n] = s],
             ~ saturated, kills \subseteq kills',
             \A t \in s.tombstones : \E u \in Known(s) : <<t, u>> \in kills'
      PROVE  PushInv'
    <2>1. \A m \in net : Explained(m.snapshot)'
        BY <1>2 DEF PushInv, Explained
    <2>2. ASSUME NEW p \in Node PROVE Explained(crdt[p])'
        <3>1. crdt'[p] = IF p = n THEN s ELSE crdt[p]
            BY <1>2 DEF IInv, TypeOK
        <3> QED BY <1>2, <3>1 DEF PushInv, Explained
    <2> QED BY <1>2, <2>1, <2>2 DEF PushInv
<1>3. ASSUME NEW n \in Node, NEW k \in Key, NEW v \in Value, Set(n, k, v), ~ saturated'
      PROVE  PushInv'
    <2> DEFINE t == NextTag(n)
               s == SetKey(crdt[n], k, v, t)
    <2>1. /\ ~ saturated /\ ~ Overflows(crdt[n], k) /\ UNCHANGED net
          /\ kills' = kills \cup {<<u, t>> : u \in Buried(crdt[n], k)}
          /\ crdt' = [crdt EXCEPT ![n] = s]
        BY <1>3 DEF Set
    <2>2. /\ Known(crdt[n]) \cup {t} \subseteq Known(s)
          /\ s.tombstones = crdt[n].tombstones \cup Buried(crdt[n], k)
        BY <1>1, <2>1, WriteKeepsKnowledge DEF Finite
    <2>3. Explained(crdt[n])
        BY <2>1 DEF PushInv
    <2> HIDE DEF t, s
    <2>4. \A u \in s.tombstones : \E w \in Known(s) : <<u, w>> \in kills'
        BY <2>1, <2>2, <2>3 DEF Explained
    <2> QED BY <1>2, <1>3, <2>1, <2>4
<1>4. ASSUME NEW n \in Node, NEW k \in Key, Delete(n, k), ~ saturated'
      PROVE  PushInv'
    <2> DEFINE s == DeleteKey(crdt[n], k)
    <2>1. /\ ~ saturated /\ ~ Overflows(crdt[n], k) /\ UNCHANGED net
          /\ kills' = kills \cup {<<u, u>> : u \in Buried(crdt[n], k)}
          /\ crdt' = [crdt EXCEPT ![n] = s]
        BY <1>4 DEF Delete
    <2>2. /\ Known(crdt[n]) \subseteq Known(s)
          /\ s.tombstones = crdt[n].tombstones \cup Buried(crdt[n], k)
        BY <1>1, <2>1, WriteKeepsKnowledge DEF Finite
    <2>3. Explained(crdt[n])
        BY <2>1 DEF PushInv
    <2> HIDE DEF s
    <2>4. \A u \in s.tombstones : \E w \in Known(s) : <<u, w>> \in kills'
        BY <2>1, <2>2, <2>3 DEF Explained, Known
    <2> QED BY <1>2, <1>4, <2>1, <2>4
<1>5. CASE saturated'
    <2>1. UNCHANGED net
        BY DEF Write, Set, Delete
    <2> QED BY <1>5, <2>1 DEF PushInv
<1> QED BY <1>3, <1>4, <1>5 DEF Write

LEMMA GossipPushInv ==
    ASSUME IInv, PushInv, Gossip
    PROVE  PushInv'
<1>1. ASSUME NEW n \in Node, NEW T \in SUBSET Node, Push(n, T) PROVE PushInv'
    <2>1. /\ UNCHANGED <<crdt, kills, saturated>>
          /\ net' = net \cup {FullState(crdt[n], n, p) : p \in T}
        BY <1>1 DEF Push, Exchange
    <2>2. ASSUME NEW p \in T
          PROVE  LET x == FullState(crdt[n], n, p)
                 IN  x.type = "full_state" /\ x.snapshot = crdt[n]
        BY DEF FullState
    <2> QED BY <2>1, <2>2 DEF PushInv, Explained
<1>2. ASSUME NEW m \in net, NEW gone, ReceiveSnapshot(m, gone) PROVE PushInv'
    <2>1. m.type = "full_state"
        BY DEF PushInv
    <2>2. \A r : Responses(r, m) = {}
        BY <2>1 DEF Responses
    <2>3. net' \subseteq net
        BY <1>2, <2>2 DEF ReceiveSnapshot, Exchange
    <2>4. ASSUME ~ saturated'
          PROVE  /\ \A n \in Node : Explained(crdt[n])'
                 /\ \A x \in net' : Explained(x.snapshot)'
        <3>1. ~ saturated /\ UNCHANGED kills
            BY <1>2, <2>4 DEF ReceiveSnapshot
        <3>2. /\ crdt' = [crdt EXCEPT ![m.to] = Join(crdt[m.to], m.snapshot)]
              /\ m.to \in Node
            BY <1>2, <2>4, ReceiveJoins
        <3>3. Explained(Join(crdt[m.to], m.snapshot))
            BY <3>1, <3>2, JoinExplained DEF PushInv
        <3>4. ASSUME NEW n \in Node PROVE Explained(crdt'[n])
            BY <3>1, <3>2, <3>3 DEF PushInv, IInv, TypeOK
        <3> QED BY <2>3, <3>1, <3>4 DEF PushInv, Explained
    <2> QED BY <2>3, <2>4 DEF PushInv
<1>3. ASSUME NEW m \in net,
             \/ ReceiveDigest(m, {m})
             \/ ReceiveDigest(m, {})
             \/ Lose(m)
      PROVE  PushInv'
    <2>1. m.type = "full_state"
        BY DEF PushInv
    <2>2. UNCHANGED <<crdt, kills, saturated>> /\ net' \subseteq net
        BY <1>3, <2>1 DEF ReceiveDigest, Lose
    <2> QED BY <2>2 DEF PushInv, Explained
<1> QED BY <1>1, <1>2, <1>3 DEF Gossip

LEMMA PushStep ==
    ASSUME IInv, PushInv, [PushNext]_vars
    PROVE  PushInv'
<1>1. CASE Write
    BY <1>1, WritePushInv
<1>2. CASE Gossip
    BY <1>2, GossipPushInv
<1>3. CASE Arrange \/ UNCHANGED vars
    <2>1. UNCHANGED <<crdt, net, kills, saturated>>
        BY <1>3 DEF Arrange, AddPeer, RemovePeer, StartAlone, Stop, vars
    <2> QED BY <2>1 DEF PushInv, Explained
<1> QED BY <1>1, <1>2, <1>3 DEF PushNext

THEOREM PushInductive == PushSpec => [](IInv /\ PushInv)
<1>1. Init => IInv /\ PushInv
    BY InitIInv DEF Init, PushInv, Explained, EmptyReplica
<1>2. IInv /\ PushInv /\ [PushNext]_vars => IInv' /\ PushInv'
    BY PushStep, NextIInv, PushNextIsNext
<1> QED BY <1>1, <1>2, PTL DEF PushSpec

(* Under full-state pushes set() replaces atomically at every replica: who *)
(* holds the tombstone of an overwritten entry has heard of its successor. *)
THEOREM OverwritesAreAtomic == PushSpec => []NoOrphanTombstone
<1>1. PushInv => NoOrphanTombstone
    BY DEF PushInv, NoOrphanTombstone
<1> QED BY <1>1, PushInductive, PTL

-----------------------------------------------------------------------------
(* Overwriting never makes a key disappear.  Who killed what is a relation *)
(* between entries of one key, and it leads nowhere twice: of any set of   *)
(* tags some tag was killed by none of the others.                         *)

Keyed(I, K) ==
    \A t, u : <<t, u>> \in K => \E e, f \in I : e.tag = t /\ f.tag = u /\ e.key = f.key

LeadsOn(I, K) ==
    \A S \in SUBSET TagsOf(I) :
        S # {} => \E t \in S : \A u \in S : <<t, u>> \in K => u = t

KillsKeyed == Keyed(issued, kills)

LastKilled == LeadsOn(issued, kills)

LEMMA KillsStep ==
    ASSUME IInv, KillsKeyed, LastKilled, [Next]_vars
    PROVE  KillsKeyed' /\ LastKilled'
<1>1. CASE UNCHANGED <<issued, kills>>
    BY <1>1 DEF KillsKeyed, Keyed, LastKilled, LeadsOn
<1>2. ASSUME NEW n \in Node, NEW k \in Key, NEW b \in Buried(crdt[n], k)
      PROVE  \E e \in issued : e.tag = b /\ e.key = k
    BY DEF Buried, TagsOf, At, IInv, Sourced, Backed
<1>3. ASSUME NEW n \in Node, NEW k \in Key, NEW v \in Value, Set(n, k, v)
      PROVE  KillsKeyed' /\ LastKilled'
    <2>1. PICK t, new : t = NextTag(n) /\ new = [key |-> k, value |-> v, tag |-> t]
        OBVIOUS
    <2>2. issued' = issued \cup {new} /\ kills' = kills \cup {<<b, t>> : b \in Buried(crdt[n], k)}
        BY <1>3, <2>1 DEF Set
    <2>3. new.tag = t /\ new.key = k
        BY <2>1
    <2>4. t \notin TagsOf(issued)
        <3> SUFFICES ASSUME NEW e \in issued, e.tag = t PROVE FALSE
            BY DEF TagsOf
        <3>1. e.tag[1] = n /\ e.tag[2] = seq[n] + 1
            BY <2>1 DEF NextTag
        <3>2. e.tag[2] <= seq[e.tag[1]]
            BY DEF IInv, SeqAhead
        <3> QED BY <3>1, <3>2 DEF IInv, TypeOK
    <2>5. \A a, b : <<a, b>> \in kills' => <<a, b>> \in kills \/ (b = t /\ a \in Buried(crdt[n], k))
        BY <2>2
    <2>6. KillsKeyed'
        <3> SUFFICES ASSUME NEW a, NEW b, <<a, b>> \in kills'
                     PROVE  \E e, f \in issued' : e.tag = a /\ f.tag = b /\ e.key = f.key
            BY DEF KillsKeyed, Keyed
        <3>1. CASE <<a, b>> \in kills
            BY <2>2, <3>1 DEF KillsKeyed, Keyed
        <3>2. CASE b = t /\ a \in Buried(crdt[n], k)
            BY <1>2, <2>2, <2>3, <3>2
        <3> QED BY <2>5, <3>1, <3>2
    <2>7. ASSUME NEW S \in SUBSET TagsOf(issued'), S # {}
          PROVE  \E a \in S : \A b \in S : <<a, b>> \in kills' => b = a
        <3>1. CASE t \in S
            <4>1. ASSUME NEW b \in S, <<t, b>> \in kills' PROVE b = t
                BY <2>4, <2>5, <4>1 DEF KillsKeyed, Keyed, TagsOf
            <4> QED BY <3>1, <4>1
        <3>2. CASE t \notin S
            <4>1. S \in SUBSET TagsOf(issued)
                BY <2>2, <2>3, <3>2 DEF TagsOf
            <4>2. PICK a \in S : \A b \in S : <<a, b>> \in kills => b = a
                BY <2>7, <4>1 DEF LastKilled, LeadsOn
            <4> QED BY <2>5, <3>2, <4>2
        <3> QED BY <3>1, <3>2
    <2>8. LastKilled'
        BY <2>7 DEF LastKilled, LeadsOn
    <2> QED BY <2>6, <2>8
<1>4. ASSUME NEW n \in Node, NEW k \in Key, Delete(n, k)
      PROVE  KillsKeyed' /\ LastKilled'
    <2>1. issued' = issued /\ kills' = kills \cup {<<b, b>> : b \in Buried(crdt[n], k)}
        BY <1>4 DEF Delete
    <2>2. \A a, b : <<a, b>> \in kills' => <<a, b>> \in kills \/ (b = a /\ a \in Buried(crdt[n], k))
        BY <2>1
    <2>3. KillsKeyed'
        BY <1>2, <2>1, <2>2 DEF KillsKeyed, Keyed
    <2>4. LastKilled'
        <3> SUFFICES ASSUME NEW S \in SUBSET TagsOf(issued), S # {}
                     PROVE  \E a \in S : \A b \in S : <<a, b>> \in kills' => b = a
            BY <2>1 DEF LastKilled, LeadsOn
        <3>1. PICK a \in S : \A b \in S : <<a, b>> \in kills => b = a
            BY DEF LastKilled, LeadsOn
        <3> QED BY <2>2, <3>1
    <2> QED BY <2>3, <2>4
<1>5. Write => KillsKeyed' /\ LastKilled'
    BY <1>3, <1>4 DEF Write
<1>6. Arrange \/ Greet \/ Gossip \/ UNCHANGED vars => UNCHANGED <<issued, kills>>
    BY DEF Arrange, AddPeer, RemovePeer, StartAlone, Stop, Greet, StartScan, StartGreet, StartFails,
           Gossip, Push, ReceiveSnapshot, ReceiveDigest, Lose, vars
<1> QED BY <1>1, <1>5, <1>6 DEF Next

ExplainedBy(r, K) == \A t \in r.tombstones : \E u \in Known(r) : <<t, u>> \in K

DeletedBy(I, K, r, k) ==
    \E e \in I : e.key = k /\ e.tag \in r.tombstones /\ <<e.tag, e.tag>> \in K

(* A tombstone that explains why a key is gone is one of a delete(). *)
LEMMA GoneIsDeleted ==
    ASSUME NEW I, NEW K, Coherent(I), Keyed(I, K), LeadsOn(I, K),
           NEW r, r.entries \subseteq I,
           ExplainedBy(r, K),
           NEW d \in I, d.key \notin KeysOf(r.entries), d.tag \in r.tombstones
    PROVE  DeletedBy(I, K, r, d.key)
<1> DEFINE k == d.key
<1> DEFINE S == {e.tag : e \in {f \in I : f.key = k /\ f.tag \in r.tombstones}}
<1>1. S \in SUBSET TagsOf(I) /\ d.tag \in S
    BY DEF TagsOf
<1>2. PICK t \in S : \A u \in S : <<t, u>> \in K => u = t
    <2> HIDE DEF S
    <2> QED BY <1>1 DEF LeadsOn
<1>3. PICK e \in I : e.tag = t /\ e.key = k /\ t \in r.tombstones
    OBVIOUS
<1>4. PICK u \in Known(r) : <<t, u>> \in K
    BY <1>3 DEF ExplainedBy
<1>5. PICK f, g \in I : f.tag = t /\ g.tag = u /\ f.key = g.key
    BY <1>4 DEF Keyed
<1>6. g.key = k
    BY <1>3, <1>5 DEF Coherent
<1>7. u \notin TagsOf(r.entries)
    <2> SUFFICES ASSUME NEW h \in r.entries, h.tag = u PROVE FALSE
        BY DEF TagsOf
    <2>1. h = g
        BY <1>5 DEF Coherent
    <2> QED BY <1>6, <2>1 DEF KeysOf
<1>8. u \in r.tombstones /\ u \in S
    BY <1>4, <1>5, <1>6, <1>7 DEF Known
<1>9. u = t
    BY <1>2, <1>4, <1>8
<1> QED BY <1>3, <1>4, <1>9 DEF DeletedBy

(* Under full-state pushes a reader loses a key only to a delete() of it,  *)
(* however overwrites and pushes of several nodes cross.                   *)
THEOREM OverwritesKeepKeys == PushSpec => OverwriteKeepsKey
<1>1. Init => KillsKeyed /\ LastKilled
    BY DEF Init, KillsKeyed, Keyed, LastKilled, LeadsOn, TagsOf
<1>2. IInv /\ KillsKeyed /\ LastKilled /\ [PushNext]_vars => (KillsKeyed /\ LastKilled)'
    BY KillsStep, PushNextIsNext
<1>3. ASSUME IInv, IInv', PushInv', KillsKeyed', LastKilled', [PushNext]_vars, ~ saturated',
             NEW n \in Node, NEW k \in KeysOf(crdt[n].entries) \ KeysOf(crdt'[n].entries)
      PROVE  \E e \in issued : /\ e.key = k
                              /\ e.tag \in crdt'[n].tombstones
                              /\ <<e.tag, e.tag>> \in kills'
    <2>1. PICK d \in crdt[n].entries : d.key = k
        BY <1>3 DEF KeysOf
    <2>2. d \in issued
        BY <1>3 DEF IInv, Sourced, Backed
    <2>3. issued' = issued
        <3>1. ASSUME NEW p \in Node, NEW j \in Key, NEW v \in Value, Set(p, j, v) PROVE FALSE
            <4>1. crdt' = [crdt EXCEPT ![p] = SetKey(crdt[p], j, v, NextTag(p))]
                BY <3>1 DEF Set
            <4>2. n = p /\ crdt'[n] = SetKey(crdt[n], j, v, NextTag(n))
                BY <1>3, <4>1 DEF IInv, TypeOK
            <4> DEFINE new == [key |-> j, value |-> v, tag |-> NextTag(n)]
            <4>3. crdt'[n].entries = (crdt[n].entries \ At(crdt[n].entries, j)) \cup {new} /\ new.key = j
                BY <4>2 DEF SetKey
            <4> HIDE DEF new
            <4>4. j # k
                BY <1>3, <4>3 DEF KeysOf
            <4>5. d \in crdt'[n].entries
                BY <2>1, <4>3, <4>4 DEF At
            <4> QED BY <1>3, <2>1, <4>5 DEF KeysOf
        <3>2. CASE Arrange \/ Gossip \/ UNCHANGED vars
            BY <3>2 DEF Arrange, AddPeer, RemovePeer, StartAlone, Stop, Gossip, Push, ReceiveSnapshot,
               ReceiveDigest, Lose, vars
        <3>3. ASSUME NEW p \in Node, NEW j \in Key, Delete(p, j) PROVE issued' = issued
            BY <3>3 DEF Delete
        <3> QED BY <1>3, <3>1, <3>2, <3>3 DEF PushNext, Write
    <2>4. d.tag \in Known(crdt'[n])
        <3>1. Known(crdt[n]) \subseteq Known(crdt'[n])
            BY <1>3, StepForgetsNothing, PushNextIsNext
        <3> QED BY <2>1, <3>1 DEF Known, TagsOf
    <2>5. crdt'[n].entries \subseteq issued /\ Coherent(issued)
        BY <1>3, <2>3 DEF IInv, Sourced, Backed
    <2>6. d.tag \in crdt'[n].tombstones
        <3> SUFFICES ASSUME NEW h \in crdt'[n].entries, h.tag = d.tag PROVE FALSE
            BY <2>4 DEF Known, TagsOf
        <3>1. h = d
            BY <2>2, <2>5 DEF Coherent
        <3> QED BY <1>3, <2>1, <3>1 DEF KeysOf
    <2>7. \A t \in crdt'[n].tombstones : \E u \in Known(crdt'[n]) : <<t, u>> \in kills'
        BY <1>3 DEF PushInv, Explained
    <2>8. Keyed(issued, kills') /\ LeadsOn(issued, kills')
        BY <1>3, <2>3 DEF KillsKeyed, LastKilled
    <2>9. PICK r, K : r = crdt'[n] /\ K = kills'
        OBVIOUS
    <2>10. /\ r.entries \subseteq issued /\ d.tag \in r.tombstones /\ d.key \notin KeysOf(r.entries)
           /\ Keyed(issued, K) /\ LeadsOn(issued, K)
        BY <1>3, <2>1, <2>5, <2>6, <2>8, <2>9
    <2>11. ExplainedBy(r, K)
        BY <2>7, <2>9 DEF ExplainedBy
    <2>12. DeletedBy(issued, K, r, d.key)
        BY <2>2, <2>5, <2>10, <2>11, GoneIsDeleted
    <2> QED BY <2>1, <2>9, <2>12 DEF DeletedBy
<1>4. IInv /\ IInv' /\ PushInv' /\ KillsKeyed' /\ LastKilled' /\ [PushNext]_vars
          => [~ saturated' =>
                 \A n \in Node : \A k \in KeysOf(crdt[n].entries) \ KeysOf(crdt'[n].entries) :
                     \E e \in issued : /\ e.key = k
                                       /\ e.tag \in crdt'[n].tombstones
                                       /\ <<e.tag, e.tag>> \in kills']_vars
    BY <1>3
<1> QED BY <1>1, <1>2, <1>4, PushInductive, PTL DEF PushSpec, OverwriteKeepsKey

-----------------------------------------------------------------------------
(* What convergence rests on.  A fact is that a tag has been heard of, or  *)
(* that it is dead.  A merge within the caps is the union of the facts, so *)
(* gossip can be measured by the facts each node is missing.               *)

Facts(r) == {<<"heard", t>> : t \in Known(r)} \cup {<<"dead", t>> : t \in r.tombstones}

FactsHeld == UNION {Facts(crdt[n]) : n \in Node}

Missing(n) == FactsHeld \ Facts(crdt[n])

(* What start() has read, its node still knows; a snapshot in flight holds *)
(* no fact that no node holds.                                             *)
NothingNewInFlight ==
    ~ saturated =>
        /\ \A n \in Node : TagsOf(scan[n].entries) \subseteq Known(crdt[n])
        /\ \A m \in net : m.type # "digest" => Facts(m.snapshot) \subseteq FactsHeld

LEMMA FactsCompare ==
    ASSUME NEW r, NEW s
    PROVE  /\ Facts(r) \subseteq Facts(s) <=> /\ Known(r) \subseteq Known(s)
                                             /\ r.tombstones \subseteq s.tombstones
           /\ Facts(r) = Facts(s) <=> Known(r) = Known(s) /\ r.tombstones = s.tombstones
<1>1. ASSUME NEW a, NEW b
      PROVE  Facts(a) \subseteq Facts(b) <=> /\ Known(a) \subseteq Known(b)
                                             /\ a.tombstones \subseteq b.tombstones
    <2>1. \A t : <<"heard", t>> \in Facts(a) <=> t \in Known(a)
        BY DEF Facts
    <2>2. \A t : <<"dead", t>> \in Facts(a) <=> t \in a.tombstones
        BY DEF Facts
    <2>3. \A t : <<"heard", t>> \in Facts(b) <=> t \in Known(b)
        BY DEF Facts
    <2>4. \A t : <<"dead", t>> \in Facts(b) <=> t \in b.tombstones
        BY DEF Facts
    <2>5. ASSUME Facts(a) \subseteq Facts(b)
          PROVE  Known(a) \subseteq Known(b) /\ a.tombstones \subseteq b.tombstones
        BY <2>1, <2>2, <2>3, <2>4, <2>5
    <2>6. ASSUME Known(a) \subseteq Known(b), a.tombstones \subseteq b.tombstones
          PROVE  Facts(a) \subseteq Facts(b)
        BY <2>6 DEF Facts
    <2> QED BY <2>5, <2>6
<1>2. Facts(r) = Facts(s) <=> Facts(r) \subseteq Facts(s) /\ Facts(s) \subseteq Facts(r)
    OBVIOUS
<1>3. /\ Facts(r) \subseteq Facts(s) <=> Known(r) \subseteq Known(s) /\ r.tombstones \subseteq s.tombstones
      /\ Facts(s) \subseteq Facts(r) <=> Known(s) \subseteq Known(r) /\ s.tombstones \subseteq r.tombstones
    BY <1>1
<1> QED BY <1>2, <1>3

(* A merge within the caps learns what the snapshot says, and only that. *)
LEMMA FactsOfJoin ==
    ASSUME NEW a, NEW b
    PROVE  Facts(Join(a, b)) = Facts(a) \cup Facts(b)
BY JoinKnows DEF Facts

(* What a node answers it holds. *)
LEMMA ResponseFacts ==
    ASSUME NEW r, NEW m, MessageOK(m), NEW x \in Responses(r, m)
    PROVE  Facts(x.snapshot) \subseteq Facts(r)
<1>1. ASSUME NEW W, NEW N, NEW to
      PROVE  Facts(DeltaMessage(r, W, N, to).snapshot) \subseteq Facts(r)
    <2>1. DeltaMessage(r, W, N, to).snapshot =
              [entries |-> {e \in r.entries : e.key \in W}, tombstones |-> r.tombstones]
        BY DEF DeltaMessage, Snapshot
    <2>2. PICK s : s = DeltaMessage(r, W, N, to).snapshot
        OBVIOUS
    <2>3. s.entries \subseteq r.entries /\ s.tombstones = r.tombstones
        BY <2>1, <2>2
    <2>4. Known(s) \subseteq Known(r)
        BY <2>3 DEF Known, TagsOf
    <2> QED BY <2>2, <2>3, <2>4, FactsCompare
<1>2. \/ x = DigestResponse(r, m.digest, m.reply)
      \/ x = DeltaMessage(r, m.we_need, {}, m.reply)
    BY DEF Responses, MessageOK
<1> QED BY <1>1, <1>2 DEF DigestResponse

(* One step: no node loses a fact, and only a write makes one. *)
LEMMA FactsStep ==
    ASSUME IInv, NothingNewInFlight, [Next]_vars, ~ saturated'
    PROVE  /\ \A n \in Node : Facts(crdt[n]) \subseteq Facts(crdt'[n])
           /\ FactsHeld \subseteq FactsHeld'
           /\ ~ Write => FactsHeld' \subseteq FactsHeld
<1>1. ASSUME NEW n \in Node PROVE Facts(crdt[n]) \subseteq Facts(crdt'[n])
    BY StepForgetsNothing, FactsCompare
<1>2. FactsHeld \subseteq FactsHeld'
    BY <1>1 DEF FactsHeld
<1>3. CASE UNCHANGED crdt
    BY <1>1, <1>2, <1>3 DEF FactsHeld
<1>4. ASSUME NEW m \in net, NEW gone, ReceiveSnapshot(m, gone)
      PROVE  FactsHeld' \subseteq FactsHeld
    <2>1. /\ crdt' = [crdt EXCEPT ![m.to] = Join(crdt[m.to], m.snapshot)]
          /\ m.to \in Node /\ m.type # "digest"
        BY <1>4, ReceiveJoins
    <2>2. ~ saturated
        BY <1>4 DEF ReceiveSnapshot
    <2>3. Facts(m.snapshot) \subseteq FactsHeld
        BY <2>1, <2>2 DEF NothingNewInFlight
    <2>4. ASSUME NEW n \in Node PROVE Facts(crdt'[n]) \subseteq FactsHeld
        <3>1. Facts(crdt[n]) \subseteq FactsHeld
            BY DEF FactsHeld
        <3>2. CASE n = m.to
            <4>1. crdt'[n] = Join(crdt[n], m.snapshot)
                BY <2>1, <3>2 DEF IInv, TypeOK
            <4> QED BY <2>3, <3>1, <4>1, FactsOfJoin
        <3>3. CASE n # m.to
            BY <2>1, <3>1, <3>3 DEF IInv, TypeOK
        <3> QED BY <3>2, <3>3
    <2> QED BY <2>4 DEF FactsHeld
<1>5. Arrange \/ Greet \/ UNCHANGED vars => UNCHANGED crdt
    BY DEF Arrange, AddPeer, RemovePeer, StartAlone, Stop, Greet, StartScan, StartGreet, StartFails, vars
<1>6. CASE Gossip
    <2>1. CASE \E m \in net : ReceiveSnapshot(m, {m}) \/ ReceiveSnapshot(m, {})
        BY <1>1, <1>2, <1>4, <2>1
    <2>2. CASE \/ \E p \in Node, T \in SUBSET Node : Push(p, T)
               \/ \E m \in net : ReceiveDigest(m, {m}) \/ ReceiveDigest(m, {}) \/ Lose(m)
        <3>1. UNCHANGED crdt
            BY <2>2 DEF Push, ReceiveDigest, Lose
        <3> QED BY <1>3, <3>1
    <2> QED BY <1>6, <2>1, <2>2 DEF Gossip
<1> QED BY <1>1, <1>2, <1>3, <1>5, <1>6 DEF Next

LEMMA FlightStep ==
    ASSUME IInv, NothingNewInFlight, [Next]_vars
    PROVE  NothingNewInFlight'
<1> SUFFICES ASSUME ~ saturated'
             PROVE  /\ \A n \in Node : TagsOf(scan'[n].entries) \subseteq Known(crdt'[n])
                    /\ \A x \in net' : x.type # "digest" => Facts(x.snapshot) \subseteq FactsHeld'
    BY DEF NothingNewInFlight
<1>1. ~ saturated
    BY DEF Next, Write, Set, Delete, Arrange, AddPeer, RemovePeer, StartAlone, Stop,
           Greet, StartScan, StartGreet, StartFails,
           Gossip, Push, ReceiveSnapshot, ReceiveDigest, Lose, vars
<1>2. /\ \A n \in Node : TagsOf(scan[n].entries) \subseteq Known(crdt[n])
      /\ \A x \in net : x.type # "digest" => Facts(x.snapshot) \subseteq FactsHeld
    BY <1>1 DEF NothingNewInFlight
<1>3. FactsHeld \subseteq FactsHeld' /\ \A n \in Node : Known(crdt[n]) \subseteq Known(crdt'[n])
    BY FactsStep, StepForgetsNothing
<1>4. \A n \in Node : Facts(crdt'[n]) \subseteq FactsHeld'
    BY DEF FactsHeld
<1>5. ASSUME NEW n \in Node PROVE TagsOf(scan'[n].entries) \subseteq Known(crdt'[n])
    <2>1. CASE UNCHANGED scan
        BY <1>2, <1>3, <2>1
    <2>2. ASSUME NEW p \in Node, StartScan(p) PROVE TagsOf(scan'[n].entries) \subseteq Known(crdt'[n])
        <3>1. UNCHANGED crdt
            BY <2>2 DEF StartScan
        <3>2. scan'[n].entries = IF n = p THEN crdt[n].entries ELSE scan[n].entries
            BY <2>2 DEF StartScan, IInv, TypeOK
        <3> QED BY <1>2, <3>1, <3>2 DEF Known
    <2>3. ASSUME NEW p \in Node, StartGreet(p) \/ StartFails(p)
          PROVE  TagsOf(scan'[n].entries) \subseteq Known(crdt'[n])
        <3>1. UNCHANGED crdt
            BY <2>3 DEF StartGreet, StartFails
        <3>2. scan'[n].entries = IF n = p THEN {} ELSE scan[n].entries
            <4>1. scan' = [scan EXCEPT ![p] = NoScan] /\ NoScan.entries = {}
                BY <2>3 DEF StartGreet, StartFails, NoScan
            <4> QED BY <4>1 DEF IInv, TypeOK
        <3> QED BY <1>2, <3>1, <3>2 DEF TagsOf
    <2>4. Write \/ Arrange \/ Gossip \/ UNCHANGED vars => UNCHANGED scan
        BY DEF Write, Set, Delete, Arrange, AddPeer, RemovePeer, StartAlone, Stop,
               Gossip, Push, ReceiveSnapshot, ReceiveDigest, Lose, vars
    <2> QED BY <2>1, <2>2, <2>3, <2>4 DEF Next, Greet
<1>6. ASSUME NEW x \in net', x.type # "digest" PROVE Facts(x.snapshot) \subseteq FactsHeld'
    <2>1. CASE net' \subseteq net
        BY <1>2, <1>3, <1>6, <2>1
    <2>2. CASE x \in net
        BY <1>2, <1>3, <1>6, <2>2
    <2>3. ASSUME NEW n \in Node, StartGreet(n), x \notin net PROVE Facts(x.snapshot) \subseteq FactsHeld'
        <3>1. UNCHANGED crdt
            BY <2>3 DEF StartGreet
        <3>2. PICK p \in scan[n].to :
                  x \in {FullState(Snapshot(scan[n].entries, crdt[n].tombstones), n, p),
                         DigestMessage(crdt[n].entries, n, p)}
            BY <2>3 DEF StartGreet, Exchange
        <3>3. x = FullState(Snapshot(scan[n].entries, crdt[n].tombstones), n, p)
            BY <1>6, <3>2 DEF DigestMessage
        <3>4. PICK s : s = x.snapshot
            OBVIOUS
        <3>5. s.entries = scan[n].entries /\ s.tombstones = crdt[n].tombstones
            BY <3>3, <3>4 DEF FullState, Snapshot
        <3>6. Known(s) \subseteq Known(crdt[n])
            BY <1>2, <3>5 DEF Known
        <3>7. Facts(s) \subseteq Facts(crdt[n])
            BY <3>5, <3>6, FactsCompare
        <3> QED BY <1>4, <3>1, <3>4, <3>7
    <2>4. ASSUME NEW n \in Node, NEW T, Push(n, T), x \notin net PROVE Facts(x.snapshot) \subseteq FactsHeld'
        <3>1. UNCHANGED crdt /\ \E p \in T : x = FullState(crdt[n], n, p)
            BY <2>4 DEF Push, Exchange
        <3>2. x.snapshot = crdt[n]
            BY <3>1 DEF FullState
        <3> QED BY <1>4, <3>1, <3>2
    <2>5. ASSUME NEW m \in net, NEW gone, ReceiveSnapshot(m, gone) \/ ReceiveDigest(m, gone), x \notin net
          PROVE  Facts(x.snapshot) \subseteq FactsHeld'
        <3>1. MessageOK(m) /\ m.to \in Node
            BY DEF IInv, Sourced, GoodNet, MessageOK
        <3>2. x \in Responses(crdt'[m.to], m)
            BY <2>5, <3>1 DEF ReceiveSnapshot, ReceiveDigest, Exchange, IInv, TypeOK
        <3>3. Facts(x.snapshot) \subseteq Facts(crdt'[m.to])
            BY <3>1, <3>2, ResponseFacts
        <3> QED BY <1>4, <3>1, <3>3
    <2>6. Write \/ Arrange \/ UNCHANGED vars => net' \subseteq net
        BY DEF Write, Set, Delete, Arrange, AddPeer, RemovePeer, StartAlone, Stop, vars
    <2>7. CASE Greet
        BY <2>1, <2>2, <2>3, <2>7 DEF Greet, StartScan, StartFails
    <2>8. CASE Gossip
        BY <2>1, <2>2, <2>4, <2>5, <2>8 DEF Gossip, Lose
    <2> QED BY <2>1, <2>6, <2>7, <2>8 DEF Next
<1> QED BY <1>5, <1>6

THEOREM FlightInductive == Spec => [](IInv /\ NothingNewInFlight)
<1>1. Init => NothingNewInFlight
    BY DEF Init, NothingNewInFlight, NoScan, TagsOf
<1>2. IInv /\ NothingNewInFlight /\ [Next]_vars => NothingNewInFlight'
    BY FlightStep
<1> QED BY <1>1, <1>2, Inductive, PTL DEF Spec

AgreementIsNothingMissing == Agreement <=> (\A n \in Node : Missing(n) = {})

(* Without a write no node misses more than it did, whatever arrives late, *)
(* twice or not at all ...                                                 *)
MissingShrinks ==
    [][~ saturated' /\ ~ Write => \A n \in Node : Missing(n)' \subseteq Missing(n)]_vars

(* ... and each delivery takes what the message says off the list, so that *)
(* agreement, once there, lasts until somebody writes.                     *)
DeliveryTeaches ==
    [][\A m \in net : \A gone \in {{m}, {}} :
          ReceiveSnapshot(m, gone) /\ ~ saturated'
              => Missing(m.to)' = Missing(m.to) \ Facts(m.snapshot)]_vars

AgreementLasts == [][Agreement /\ ~ saturated' /\ ~ Write => Agreement']_vars

(* Two nodes that have heard of the same and buried the same show the same *)
(* map: agreement is that nobody misses anything.                          *)
LEMMA AgreementMeasured == IInv => AgreementIsNothingMissing
<1> SUFFICES ASSUME IInv PROVE AgreementIsNothingMissing
    OBVIOUS
<1>1. ASSUME Agreement PROVE \A n \in Node : Missing(n) = {}
    BY <1>1 DEF Agreement, Missing, FactsHeld
<1>2. ASSUME \A n \in Node : Missing(n) = {}, NEW n \in Node, NEW p \in Node
      PROVE  crdt[n] = crdt[p]
    <2>1. Facts(crdt[n]) = Facts(crdt[p])
        <3>1. ASSUME NEW a \in Node, NEW b \in Node PROVE Facts(crdt[a]) \subseteq Facts(crdt[b])
            <4>1. Facts(crdt[a]) \subseteq FactsHeld
                BY DEF FactsHeld
            <4> QED BY <1>2, <4>1 DEF Missing
        <3> QED BY <3>1
    <2>2. Known(crdt[n]) = Known(crdt[p]) /\ crdt[n].tombstones = crdt[p].tombstones
        BY <2>1, FactsCompare
    <2>3. ASSUME NEW a \in Node PROVE crdt[a] \in Replica /\ Clean(crdt[a]) /\ crdt[a].entries \subseteq issued
        BY DEF IInv, TypeOK, DeadStaysHidden, Clean, Sourced, Backed
    <2>4. Coherent(crdt[n].entries \cup crdt[p].entries)
        BY <2>3 DEF IInv, Coherent
    <2> QED BY <2>2, <2>3, <2>4, SameKnowledgeSameMap
<1> QED BY <1>1, <1>2 DEF AgreementIsNothingMissing, Agreement

(* The steps of Convergence, for any number of nodes and any messages in   *)
(* flight: agreement is that nobody misses anything, what is missing only  *)
(* shrinks without writes, each delivery takes off the list what it tells, *)
(* and an agreement lasts.                                                 *)
THEOREM ConvergenceNears ==
    Spec => []AgreementIsNothingMissing /\ MissingShrinks /\ DeliveryTeaches /\ AgreementLasts
<1>1. ASSUME IInv, NothingNewInFlight, [Next]_vars, ~ saturated', ~ Write, NEW n \in Node
      PROVE  Missing(n)' \subseteq Missing(n)
    <2>1. Facts(crdt[n]) \subseteq Facts(crdt'[n]) /\ FactsHeld' \subseteq FactsHeld
        BY <1>1, FactsStep
    <2> QED BY <2>1 DEF Missing
<1>2. ASSUME IInv, NothingNewInFlight, [Next]_vars, ~ saturated', NEW m \in net, NEW gone,
             ReceiveSnapshot(m, gone)
      PROVE  Missing(m.to)' = Missing(m.to) \ Facts(m.snapshot)
    <2>1. /\ crdt' = [crdt EXCEPT ![m.to] = Join(crdt[m.to], m.snapshot)]
          /\ m.to \in Node /\ m.type # "digest"
        BY <1>2, ReceiveJoins
    <2>2. Facts(crdt'[m.to]) = Facts(crdt[m.to]) \cup Facts(m.snapshot)
        BY <1>2, <2>1, FactsOfJoin DEF IInv, TypeOK
    <2>3. ~ saturated
        BY <1>2 DEF ReceiveSnapshot
    <2>4. Facts(m.snapshot) \subseteq FactsHeld
        BY <1>2, <2>1, <2>3 DEF NothingNewInFlight
    <2>5. FactsHeld' = FactsHeld
        <3>1. FactsHeld \subseteq FactsHeld'
            BY <1>2, FactsStep
        <3>2. ASSUME NEW n \in Node PROVE Facts(crdt'[n]) \subseteq FactsHeld
            <4>1. Facts(crdt[n]) \subseteq FactsHeld
                BY DEF FactsHeld
            <4>2. CASE n = m.to
                BY <2>2, <2>4, <4>1, <4>2
            <4>3. CASE n # m.to
                BY <1>2, <2>1, <4>1, <4>3 DEF IInv, TypeOK
            <4> QED BY <4>2, <4>3
        <3>3. FactsHeld' \subseteq FactsHeld
            BY <3>2 DEF FactsHeld
        <3> QED BY <3>1, <3>3
    <2>6. Missing(m.to)' = FactsHeld' \ Facts(crdt'[m.to])
        BY <1>2 DEF Missing, ReceiveSnapshot
    <2> QED BY <2>2, <2>5, <2>6 DEF Missing
<1>3. IInv /\ NothingNewInFlight /\ [Next]_vars
          => [~ saturated' /\ ~ Write => \A n \in Node : Missing(n)' \subseteq Missing(n)]_vars
    BY <1>1
<1>4. IInv /\ NothingNewInFlight /\ [Next]_vars
          => [\A m \in net : \A gone \in {{m}, {}} :
                 ReceiveSnapshot(m, gone) /\ ~ saturated'
                     => Missing(m.to)' = Missing(m.to) \ Facts(m.snapshot)]_vars
    BY <1>2
<1>5. ASSUME IInv, IInv', NothingNewInFlight, [Next]_vars, Agreement, ~ saturated', ~ Write
      PROVE  Agreement'
    <2>1. \A n \in Node : Missing(n) = {}
        BY <1>5, AgreementMeasured DEF AgreementIsNothingMissing
    <2>2. \A n \in Node : Missing(n)' = {}
        BY <1>1, <1>5, <2>1
    <2>3. AgreementIsNothingMissing'
        BY <1>5, AgreementMeasured, PTL
    <2> QED BY <2>2, <2>3 DEF AgreementIsNothingMissing
<1>6. IInv /\ IInv' /\ NothingNewInFlight /\ [Next]_vars
          => [Agreement /\ ~ saturated' /\ ~ Write => Agreement']_vars
    BY <1>5
<1> QED BY <1>3, <1>4, <1>6, AgreementMeasured, FlightInductive, PTL
        DEF Spec, MissingShrinks, DeliveryTeaches, AgreementLasts

-----------------------------------------------------------------------------
(* No write is lost, even where the caps of merge() make a node deaf to    *)
(* what others wrote: an entry leaves a replica only because some node     *)
(* that showed it overwrote or deleted it ...                              *)

NothingVanishes ==
    [][\A n \in Node : \A e \in crdt[n].entries \ crdt'[n].entries : e.tag \in Killed(kills')]_vars

(* ... so whoever wrote it shows it until then. *)
LiveAtAuthor == \A e \in issued : e.tag \in Killed(kills) \/ e \in crdt[e.tag[1]].entries

LEMMA StepVanishes ==
    ASSUME Base, [Next]_vars, NEW n \in Node, NEW e \in crdt[n].entries, e \notin crdt'[n].entries
    PROVE  e.tag \in Killed(kills')
<1>1. crdt \in [Node -> Replica]
    BY DEF Base, TypeOK
<1>2. ASSUME NEW k \in Key, e \in At(crdt[n].entries, k) PROVE e.tag \in Buried(crdt[n], k)
    BY <1>2 DEF Buried, TagsOf
<1>3. ASSUME NEW p \in Node, NEW k \in Key, NEW v \in Value, Set(p, k, v) PROVE e.tag \in Killed(kills')
    <2>1. crdt' = [crdt EXCEPT ![p] = SetKey(crdt[p], k, v, NextTag(p))]
        BY <1>3 DEF Set
    <2>2. n = p /\ e \in At(crdt[n].entries, k)
        BY <1>1, <2>1 DEF SetKey
    <2>3. <<e.tag, NextTag(p)>> \in kills'
        BY <1>2, <1>3, <2>2 DEF Set
    <2> QED BY <2>3 DEF Killed
<1>4. ASSUME NEW p \in Node, NEW k \in Key, Delete(p, k) PROVE e.tag \in Killed(kills')
    <2>1. crdt' = [crdt EXCEPT ![p] = DeleteKey(crdt[p], k)]
        BY <1>4 DEF Delete
    <2>2. n = p /\ e \in At(crdt[n].entries, k)
        BY <1>1, <2>1 DEF DeleteKey
    <2>3. <<e.tag, e.tag>> \in kills'
        BY <1>2, <1>4, <2>2 DEF Delete
    <2> QED BY <2>3 DEF Killed
<1>5. ASSUME NEW m \in net, NEW gone, ReceiveSnapshot(m, gone) PROVE e.tag \in Killed(kills')
    <2>1. PICK r \in Merges(crdt[m.to], m.snapshot) : crdt' = [crdt EXCEPT ![m.to] = r]
        BY <1>5 DEF ReceiveSnapshot
    <2>2. m.to \in Node /\ m.type # "digest"
        BY <1>5 DEF Base, Sourced, GoodNet, MessageOK, ReceiveSnapshot
    <2>3. m.snapshot \in Replica /\ Backed(m.snapshot, issued, kills)
        BY <2>2 DEF Base, Sourced, GoodNet, MessageOK
    <2>4. n = m.to /\ e \notin r.entries
        BY <1>1, <2>1, <2>2
    <2>5. e.tag \in crdt[n].tombstones \cup m.snapshot.tombstones
        BY <1>1, <2>1, <2>3, <2>4, MergesDrop
    <2>6. Backed(crdt[n], issued, kills)
        BY DEF Base, Sourced
    <2>7. kills' = kills
        BY <1>5 DEF ReceiveSnapshot
    <2> QED BY <2>3, <2>5, <2>6, <2>7 DEF Backed
<1>6. Arrange \/ Greet \/ UNCHANGED vars => UNCHANGED crdt
    BY DEF Arrange, AddPeer, RemovePeer, StartAlone, Stop, Greet, StartScan, StartGreet, StartFails, vars
<1>7. CASE Gossip
    BY <1>5, <1>7 DEF Gossip, Push, ReceiveDigest, Lose
<1>8. CASE Write
    BY <1>3, <1>4, <1>8 DEF Write
<1> QED BY <1>6, <1>7, <1>8 DEF Next

(* What a step adds to the entries issued is at its author; what was       *)
(* killed stays so.                                                        *)
LEMMA StepIssues ==
    ASSUME Base, [Next]_vars
    PROVE  /\ Killed(kills) \subseteq Killed(kills')
           /\ \A e \in issued' \ issued : e \in crdt'[e.tag[1]].entries
<1>1. ASSUME NEW n \in Node, NEW k \in Key, NEW v \in Value, Set(n, k, v)
      PROVE  /\ kills \subseteq kills'
             /\ \A e \in issued' \ issued : e \in crdt'[e.tag[1]].entries
    <2> DEFINE new == [key |-> k, value |-> v, tag |-> NextTag(n)]
    <2>1. /\ kills \subseteq kills' /\ issued' = issued \cup {new}
          /\ crdt' = [crdt EXCEPT ![n] = SetKey(crdt[n], k, v, NextTag(n))]
        BY <1>1 DEF Set
    <2>2. new.tag[1] = n
        BY DEF NextTag
    <2>3. new \in crdt'[n].entries
        BY <2>1 DEF SetKey, Base, TypeOK
    <2> HIDE DEF new
    <2> QED BY <2>1, <2>2, <2>3
<1>2. CASE issued' = issued /\ kills \subseteq kills'
    BY <1>2 DEF Killed
<1>3. ASSUME NEW n \in Node, NEW k \in Key, Delete(n, k) PROVE issued' = issued /\ kills \subseteq kills'
    BY <1>3 DEF Delete
<1>4. Arrange \/ Greet \/ Gossip \/ UNCHANGED vars => UNCHANGED <<issued, kills>>
    BY DEF Arrange, AddPeer, RemovePeer, StartAlone, Stop, Greet, StartScan, StartGreet, StartFails,
           Gossip, Push, ReceiveSnapshot, ReceiveDigest, Lose, vars
<1>5. kills \subseteq kills' => Killed(kills) \subseteq Killed(kills')
    BY DEF Killed
<1> QED BY <1>1, <1>2, <1>3, <1>4, <1>5 DEF Next, Write

(* Whatever the caps drop and the network loses, an entry is shown by the  *)
(* node that wrote it until some node that showed it takes it out.         *)
THEOREM WritesStay == Spec => []LiveAtAuthor /\ NothingVanishes
<1>1. Init => LiveAtAuthor
    BY DEF Init, LiveAtAuthor
<1>2. ASSUME IInv, IInv', LiveAtAuthor, [Next]_vars PROVE LiveAtAuthor'
    <2> SUFFICES ASSUME NEW e \in issued', e.tag \notin Killed(kills')
                 PROVE  e \in crdt'[e.tag[1]].entries
        BY DEF LiveAtAuthor
    <2>1. CASE e \in issued
        <3>1. e \in crdt[e.tag[1]].entries
            BY <1>2, <2>1, IInvSplits, StepIssues DEF LiveAtAuthor
        <3>2. e.tag[1] \in Node
            BY <1>2, <2>1 DEF IInv, TypeOK, Entry, Tag
        <3> QED BY <1>2, <3>1, <3>2, IInvSplits, StepVanishes
    <2>2. CASE e \notin issued
        BY <1>2, <2>2, IInvSplits, StepIssues
    <2> QED BY <2>1, <2>2
<1>3. ASSUME IInv, [Next]_vars
      PROVE  [\A n \in Node : \A e \in crdt[n].entries \ crdt'[n].entries : e.tag \in Killed(kills')]_vars
    BY <1>3, IInvSplits, StepVanishes
<1> QED BY <1>1, <1>2, <1>3, Inductive, PTL DEF Spec, NothingVanishes

-----------------------------------------------------------------------------
(* What a node that pulls gets.  However far the asking node has moved on  *)
(* since it built its digest, the answer makes it hear of the newest entry *)
(* of every key the answering node shows, unless it told of one that is    *)
(* not older; and it learns of everything that is dead there.              *)
THEOREM PullCatchesUp ==
    ASSUME NEW asked \in Replica, NEW now, Known(asked) \subseteq Known(now),
           NEW there \in Replica, Finite(asked), Finite(there), NEW to,
           NEW k \in KeysOf(there.entries)
    PROVE  LET newest == Winner(there.entries, k).tag
               after  == Join(now, DigestResponse(there, Digest(asked.entries), to).snapshot)
           IN  /\ there.tombstones \subseteq after.tombstones
               /\ \/ newest \in Known(after)
                  \/ \E t \in TagsOf(At(asked.entries, k)) : t \in Known(after) /\ ~ TagLess(t, newest)
<1>1. PICK w : w = Winner(there.entries, k)
    OBVIOUS
<1>2. PICK D : D = DigestResponse(there, Digest(asked.entries), to).snapshot
    OBVIOUS
<1>3. /\ D.tombstones = there.tombstones
      /\ D.entries = {e \in there.entries : e.key \in RemoteNeeds(there.entries, Digest(asked.entries))}
    BY <1>2 DEF DigestResponse, DeltaMessage, Snapshot
<1>4. w \in there.entries /\ w.key = k
    BY <1>1, WinnerIsOne DEF Replica, Finite, At
<1>5. Known(now) \cup Known(D) \subseteq Known(Join(now, D)) /\ Join(now, D).tombstones = now.tombstones \cup D.tombstones
    BY JoinKeepsKnowledge
<1>6. CASE k \in RemoteNeeds(there.entries, Digest(asked.entries))
    <2>1. w.tag \in Known(D)
        BY <1>3, <1>4, <1>6 DEF Known, TagsOf
    <2> QED BY <1>1, <1>2, <1>3, <1>5, <2>1
<1>7. CASE k \notin RemoteNeeds(there.entries, Digest(asked.entries))
    <2>1. /\ k \in KeysOf(asked.entries)
          /\ ~ TagLess(Winner(asked.entries, k).tag, w.tag)
        BY <1>1, <1>7 DEF RemoteNeeds, Digest
    <2>2. PICK o : o = Winner(asked.entries, k)
        OBVIOUS
    <2>3. o \in At(asked.entries, k)
        BY <2>1, <2>2, WinnerIsOne DEF Replica, Finite
    <2>4. o.tag \in TagsOf(At(asked.entries, k)) /\ o.tag \in Known(asked)
        BY <2>3 DEF TagsOf, At, Known
    <2> QED BY <1>1, <1>2, <1>3, <1>5, <2>1, <2>2, <2>4
<1> QED BY <1>6, <1>7

-----------------------------------------------------------------------------
(* Crashes.  A node that comes back without its counter may use a tag      *)
(* again; the rest of what a replica promises does not depend on it.       *)

restartVars == <<vars, restarts>>

CrashesAreContained == TypeOK /\ CapsHold /\ RemovesOnlyObserved /\ EntriesInSystem \subseteq issued

(* The entries of one author: no tag of it is used twice, none is shown by *)
(* a replica that has buried it, and the author shows what it wrote until  *)
(* somebody who showed it takes it out.                                    *)
UnharmedBy(a) ==
    /\ \A e, f \in EntriesInSystem : e.tag[1] = a /\ e.tag = f.tag => e = f
    /\ \A n \in Node : \A e \in crdt[n].entries : e.tag[1] = a => e.tag \notin crdt[n].tombstones
    /\ \A e \in issued : e.tag[1] = a => e.tag \in Killed(kills) \/ e \in crdt[a].entries

StaysAt(a) == \A e \in issued : e.tag[1] = a => e.tag \in Killed(kills) \/ e \in crdt[a].entries

LEMMA CrashStep ==
    ASSUME Base, AllCapped, NEW n \in Node, Crash(n)
    PROVE  Base' /\ AllCapped'
<1>1. /\ crdt' = [crdt EXCEPT ![n] = EmptyReplica]
      /\ seq' = [seq EXCEPT ![n] = 0]
      /\ peers' = [peers EXCEPT ![n] = {}]
      /\ phase' = [phase EXCEPT ![n] = "stopped"]
      /\ scan' = [scan EXCEPT ![n] = NoScan]
      /\ UNCHANGED <<net, issued, kills, saturated>>
    BY DEF Crash
<1>2. EmptyReplica \in Replica /\ Backed(EmptyReplica, issued, kills) /\ Capped(EmptyReplica)
    BY EmptyCapped DEF EmptyReplica, Replica, Backed
<1>3. NoScan \in [entries : SUBSET Entry, to : SUBSET Node] /\ NoScan.entries = {}
    BY DEF NoScan
<1>4. TypeOK'
    BY <1>1, <1>2, <1>3 DEF Base, TypeOK, Phase
<1>5. Sourced'
    <2>1. \A p \in Node : Backed(crdt'[p], issued, kills)
        BY <1>1, <1>2 DEF Base, Sourced, TypeOK
    <2>2. \A p \in Node : scan'[p].entries \subseteq issued
        BY <1>1, <1>3 DEF Base, Sourced, TypeOK
    <2> QED BY <1>1, <2>1, <2>2 DEF Base, Sourced
<1>6. AllCapped'
    BY <1>1, <1>2 DEF Base, TypeOK, AllCapped
<1> QED BY <1>1, <1>4, <1>5, <1>6 DEF Base

LEMMA RestartStep == Base /\ AllCapped /\ [RestartNext]_restartVars => Base' /\ AllCapped'
<1>1. UNCHANGED restartVars => UNCHANGED vars
    BY DEF restartVars
<1> QED BY <1>1, BaseStep, CappedStep, CrashStep DEF RestartNext

THEOREM RestartInductive == RestartSpec => [](Base /\ AllCapped)
<1>1. RestartInit => Base /\ AllCapped
    BY InitIInv, IInvSplits, EmptyCapped DEF RestartInit, Init, AllCapped
<1> QED BY <1>1, RestartStep, PTL DEF RestartSpec, restartVars

(* Whoever crashes and comes back with an old counter: the caps hold, what *)
(* replicas and messages hold was written, and what is buried was seen by  *)
(* the node that buried it.                                                *)
THEOREM CrashesContained == RestartSpec => []CrashesAreContained
<1>1. Base /\ AllCapped => CrashesAreContained
    BY SystemSourced DEF CrashesAreContained, Base, AllCapped, Capped, CapsHold, RemovesOnlyObserved, Killed
<1> QED BY <1>1, RestartInductive, PTL

LEMMA StaysStep ==
    ASSUME Base, NEW a \in Node, StaysAt(a), [Next]_vars
    PROVE  StaysAt(a)'
<1> SUFFICES ASSUME NEW e \in issued', e.tag[1] = a, e.tag \notin Killed(kills')
             PROVE  e \in crdt'[a].entries
    BY DEF StaysAt
<1>1. CASE e \in issued
    <2>1. e \in crdt[a].entries
        BY <1>1, StepIssues DEF StaysAt
    <2> QED BY <2>1, StepVanishes
<1>2. CASE e \notin issued
    BY <1>2, StepIssues
<1> QED BY <1>1, <1>2

(* The crash of one node harms no tag of another.                          *)
LEMMA CrashSpares ==
    ASSUME Base, NEW a \in Node, Author(a), StaysAt(a), NEW n \in Node, Crash(n), n # a
    PROVE  Author(a)' /\ StaysAt(a)'
<1>1. /\ crdt' = [crdt EXCEPT ![n] = EmptyReplica]
      /\ seq' = [seq EXCEPT ![n] = 0]
      /\ UNCHANGED <<issued, kills>>
    BY DEF Crash
<1>2. seq'[a] = seq[a] /\ crdt'[a] = crdt[a]
    BY <1>1 DEF Base, TypeOK
<1>3. ASSUME NEW p \in Node PROVE crdt'[p] = crdt[p] \/ crdt'[p].entries = {}
    BY <1>1 DEF Base, TypeOK, EmptyReplica
<1> QED BY <1>1, <1>2, <1>3 DEF Author, StaysAt

(* The tags of a node that does not crash stay sound, whatever the others  *)
(* do: only a node that lost its own counter can break the promise of the  *)
(* unique tag.                                                             *)
THEOREM HarmIsOnesOwn ==
    ASSUME NEW a \in Node
    PROVE  RestartSpec /\ [][~ Crash(a)]_restartVars => []UnharmedBy(a)
<1>1. RestartInit => Author(a) /\ StaysAt(a)
    BY DEF RestartInit, Init, Author, StaysAt, EmptyReplica
<1>2. Base /\ Author(a) /\ StaysAt(a) /\ [RestartNext]_restartVars /\ [~ Crash(a)]_restartVars
          => (Author(a) /\ StaysAt(a))'
    <2>1. UNCHANGED restartVars => UNCHANGED vars
        BY DEF restartVars
    <2> QED BY <2>1, AuthorStep, StaysStep, CrashSpares DEF RestartNext
<1>3. Base /\ Author(a) /\ StaysAt(a) => UnharmedBy(a)
    BY SystemSourced DEF UnharmedBy, Author, StaysAt
<1> QED BY <1>1, <1>2, <1>3, RestartInductive, PTL DEF RestartSpec, restartVars
=============================================================================
