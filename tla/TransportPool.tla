--------------------------- MODULE TransportPool ---------------------------
(***************************************************************************)
(* GossipTransport (propagul/transport.py): the tasks that run send(), the *)
(* pool of outbound connections they share, and the inbound handlers of    *)
(* the peers they reach.                                                   *)
(*                                                                         *)
(* Everything runs on one event loop, so whatever lies between two awaits  *)
(* is one step.  No await happens under _pool_lock: it never makes a task  *)
(* wait, and it needs no variable.  Connections are numbered in the order  *)
(* in which they are opened.  The peers share one inbound limit.           *)
(***************************************************************************)
EXTENDS Integers, Sequences, FiniteSets

CONSTANTS
    Send,               \* calls of send(), each made once
    Peer,               \* addresses
    None,               \* no peer, no connection, no send
    POOL_MAX_SIZE,
    MAX_INBOUND         \* MAX_INBOUND_CONNECTIONS

ASSUME PoolAssumption == /\ None \notin Send \cup Peer \cup Nat
                         /\ POOL_MAX_SIZE \in Nat \ {0}
                         /\ MAX_INBOUND \in Nat

VARIABLES
    conns,      \* conns[c]: the c-th outbound connection
    pool,       \* pool[p]: the connection _pool holds for p, or None
    calls,      \* calls[s]: where the call s stands
    active,     \* connections with an inbound handler (_active_connections)
    wire,       \* wire[s]: connections that took the frame of s and have not
                \*          lost it: it is on its way, or has arrived
    running,    \* _running
    stopping    \* where stop() stands in its loop over the pool

vars == <<conns, pool, calls, active, wire, running, stopping>>

(* "dead": the other side is gone, and this side has not noticed yet. *)
Link == {"open", "dead", "eof", "closed"}

Opened == 1 .. Len(conns)

Pooled == {p \in Peer : pool[p] # None}

(* is_alive; a connection is stale once POOL_TTL_SECONDS passed since its  *)
(* last use. *)
Alive(c) == conns[c].link \in {"open", "dead"} /\ ~ conns[c].stale

Uncalled == [at |-> "uncalled", peer |-> None, conn |-> None, attempt |-> 1, wrote |-> FALSE]

Awaiting == {"opening", "locking", "draining", "closing"}

NotStopping == [at |-> "no", size |-> 0, seen |-> {}]

Init ==
    /\ conns = <<>>
    /\ pool = [p \in Peer |-> None]
    /\ calls = [s \in Send |-> Uncalled]
    /\ active = {}
    /\ wire = [s \in Send |-> {}]
    /\ running = TRUE
    /\ stopping = NotStopping

remote == <<active, wire>>
lifecycle == <<running, stopping>>

(* The connections once this side has closed those of C. *)
Closing(C) == [c \in Opened |-> IF c \in C THEN [conns[c] EXCEPT !.link = "closed"]
                                ELSE conns[c]]

Touched(c) == [conns EXCEPT ![c].stale = FALSE]

-----------------------------------------------------------------------------
(* send() and _get_connection(). *)

(* The call returns; what it knew no longer matters. *)
Returned(s, result) == [calls EXCEPT ![s] = [Uncalled EXCEPT !.at = result]]

(* The transport is not running.  A message that is too large is refused   *)
(* in the same way, and might as well not have been sent.                  *)
Refuse(s) ==
    /\ calls[s].at = "uncalled"
    /\ ~ running
    /\ calls' = Returned(s, "false")
    /\ UNCHANGED <<conns, pool, remote, lifecycle>>

(* A pooled connection that is alive is taken; one that is not is closed,  *)
(* and a new one opened.                                                   *)
Call(s, p) ==
    /\ calls[s].at = "uncalled"
    /\ running
    /\ \/ /\ p \in Pooled
          /\ Alive(pool[p])
          /\ calls' = [calls EXCEPT ![s].at = "locking", ![s].peer = p, ![s].conn = pool[p]]
          /\ conns' = Touched(pool[p])
          /\ UNCHANGED pool
       \/ /\ p \in Pooled => ~ Alive(pool[p])
          /\ calls' = [calls EXCEPT ![s].at = "opening", ![s].peer = p]
          /\ conns' = Closing({pool[p]})
          /\ pool' = [pool EXCEPT ![p] = None]
    /\ UNCHANGED <<remote, lifecycle>>

(* Slip: room is made only once the pool has outgrown its size. *)
NoRoomLate == Cardinality(Pooled) > POOL_MAX_SIZE

NoRoom == Cardinality(Pooled) >= POOL_MAX_SIZE

(* _handle_connection() of the peer turns a connection away at the limit.  *)
HasRoom == Cardinality(active) < MAX_INBOUND

NewConnection(s) ==
    [peer |-> calls[s].peer, link |-> IF HasRoom THEN "open" ELSE "dead", cut |-> ~ HasRoom,
     stale |-> FALSE, lock |-> None, by |-> s]

(* open_connection() succeeds.  A full pool loses its oldest connection;   *)
(* which one that is, is left open.                                        *)
Connect(s) ==
    LET p == calls[s].peer
        c == Len(conns) + 1
    IN  /\ calls[s].at = "opening"
        /\ \E V \in {{q} : q \in Pooled} \cup {{}} :
              /\ (V # {}) = NoRoom
              /\ conns' = Append(Closing({pool[q] : q \in V}), NewConnection(s))
              /\ pool' = [q \in Peer |-> IF q = p THEN c ELSE
                                         IF q \in V THEN None ELSE pool[q]]
        /\ active' = IF HasRoom THEN active \cup {c} ELSE active
        /\ calls' = [calls EXCEPT ![s].at = "locking", ![s].conn = c]
        /\ UNCHANGED <<wire, lifecycle>>

ConnectFails(s) ==
    /\ calls[s].at = "opening"
    /\ calls' = Returned(s, "false")
    /\ UNCHANGED <<conns, pool, remote, lifecycle>>

(* The write lock is free and the frame written.  A link that is gone      *)
(* swallows it; one that was closed here refuses it, unless it still has   *)
(* something to flush.                                                     *)
Write(s) ==
    LET c == calls[s].conn
    IN  /\ calls[s].at = "locking"
        /\ conns[c].lock = None
        /\ conns' = [conns EXCEPT ![c].lock = s]
        /\ \/ /\ \/ conns[c].link = "open"
                 \/ conns[c].link = "closed" /\ \E t \in Send : c \in wire[t]
              /\ wire' = [wire EXCEPT ![s] = @ \cup {c}]
              /\ calls' = [calls EXCEPT ![s].at = "draining", ![s].wrote = TRUE]
           \/ /\ conns[c].link # "open"
              /\ calls' = [calls EXCEPT ![s].at = "draining",
                                        ![s].wrote = conns[c].link # "closed"]
              /\ UNCHANGED wire
    /\ UNCHANGED <<pool, active, lifecycle>>

(* Slip: drain() is not waited for. *)
DrainedAtOnce(s) == TRUE

Drained(s) == calls[s].wrote

DrainSucceeds(s) ==
    LET c == calls[s].conn
    IN  /\ calls[s].at = "draining"
        /\ Drained(s)
        /\ conns' = [conns EXCEPT ![c].lock = None, ![c].stale = FALSE]
        /\ calls' = [Returned(s, "true") EXCEPT ![s].conn = c]
        /\ UNCHANGED <<pool, remote, lifecycle>>

(* Slip: the write lock is not released on an error. *)
DrainFailsLocked(s) ==
    /\ calls[s].at = "draining"
    /\ conns' = Closing({calls[s].conn})
    /\ calls' = [calls EXCEPT ![s].at = "closing"]
    /\ UNCHANGED <<pool, remote, lifecycle>>

(* drain() raises or takes longer than SEND_TIMEOUT: the connection is     *)
(* closed, though what it has buffered may still go out.                   *)
DrainFails(s) ==
    LET c == calls[s].conn
    IN  /\ calls[s].at = "draining"
        /\ conns' = [Closing({c}) EXCEPT ![c].lock = None]
        /\ calls' = [calls EXCEPT ![s].at = "closing"]
        /\ UNCHANGED <<pool, remote, lifecycle>>

(* Slips: a retry takes what the pool holds; attempts are not counted. *)
RetryFromPool(s) ==
    LET p == calls[s].peer
    IN  /\ calls[s].at = "closing"
        /\ IF calls[s].attempt = 1 /\ p \in Pooled /\ Alive(pool[p])
           THEN /\ calls' = [calls EXCEPT ![s].at = "locking", ![s].conn = pool[p],
                                          ![s].attempt = 2, ![s].wrote = FALSE]
                /\ UNCHANGED pool
           ELSE /\ calls' = IF calls[s].attempt = 1
                            THEN [calls EXCEPT ![s].at = "opening", ![s].conn = None,
                                               ![s].attempt = 2, ![s].wrote = FALSE]
                            ELSE Returned(s, "false")
                /\ pool' = [pool EXCEPT ![p] = None]
        /\ UNCHANGED <<conns, remote, lifecycle>>

RetryForever(s) ==
    /\ calls[s].at = "closing"
    /\ pool' = [pool EXCEPT ![calls[s].peer] = None]
    /\ calls' = [calls EXCEPT ![s].at = "opening", ![s].attempt = @ + 1, ![s].wrote = FALSE]
    /\ UNCHANGED <<conns, remote, lifecycle>>

(* The pool's entry for the peer is dropped, whatever it has become since. *)
(* The first attempt goes on to look the peer up, in vain, and opens a new *)
(* connection; the second returns False.                                   *)
Retry(s) ==
    /\ calls[s].at = "closing"
    /\ pool' = [pool EXCEPT ![calls[s].peer] = None]
    /\ calls' = IF calls[s].attempt = 1
                THEN [calls EXCEPT ![s].at = "opening", ![s].conn = None,
                                   ![s].attempt = 2, ![s].wrote = FALSE]
                ELSE Returned(s, "false")
    /\ UNCHANGED <<conns, remote, lifecycle>>

(* The task is cancelled at an await, as stop() of the store does. *)
Cancel(s) ==
    /\ calls[s].at \in Awaiting
    /\ calls' = Returned(s, "cancelled")
    /\ conns' = [c \in Opened |-> IF conns[c].lock = s THEN [conns[c] EXCEPT !.lock = None]
                                  ELSE conns[c]]
    /\ UNCHANGED <<pool, remote, lifecycle>>

(* _evict_stale(). *)
EvictStale ==
    LET gone == {p \in Pooled : ~ Alive(pool[p])}
    IN  /\ gone # {}
        /\ pool' = [p \in Peer |-> IF p \in gone THEN None ELSE pool[p]]
        /\ conns' = Closing({pool[p] : p \in gone})
        /\ UNCHANGED <<calls, remote, lifecycle>>

(* A connection idles in the pool for POOL_TTL_SECONDS.  A send holds it   *)
(* for a few seconds at most.                                              *)
Expire(p) ==
    LET c == pool[p]
    IN  /\ p \in Pooled
        /\ Alive(c)
        /\ \A s \in Send : calls[s].at \in Awaiting => calls[s].conn # c
        /\ conns' = [conns EXCEPT ![c].stale = TRUE]
        /\ UNCHANGED <<pool, calls, remote, lifecycle>>

(* The end of the stream is read: only the pool asks for it. *)
Notice(p) ==
    LET c == pool[p]
    IN  /\ p \in Pooled
        /\ conns[c].link = "dead"
        /\ conns' = [conns EXCEPT ![c].link = "eof"]
        /\ UNCHANGED <<pool, calls, remote, lifecycle>>

-----------------------------------------------------------------------------
(* stop() and start(). *)

(* stop() closes the pooled connections one by one, awaiting each: the     *)
(* first at once, the others if the pool has kept its size.  An entry that *)
(* was replaced behind the loop may be missed.                             *)
Stop ==
    /\ running
    /\ running' = FALSE
    /\ \/ /\ Pooled = {}
          /\ UNCHANGED <<conns, stopping>>
       \/ \E p \in Pooled :
             /\ conns' = Closing({pool[p]})
             /\ stopping' = [at |-> "closing", size |-> Cardinality(Pooled), seen |-> {p}]
    /\ UNCHANGED <<pool, calls, remote>>

StopNext(p) ==
    /\ stopping.at = "closing"
    /\ stopping.size = Cardinality(Pooled)
    /\ p \in Pooled
    /\ p \in stopping.seen => conns[pool[p]].link # "closed"
    /\ conns' = Closing({pool[p]})
    /\ stopping' = [stopping EXCEPT !.seen = @ \cup {p}]
    /\ UNCHANGED <<pool, calls, remote, running>>

(* At the end it empties the pool,                                         *)
StopEnds ==
    /\ stopping.at = "closing"
    /\ stopping.size = Cardinality(Pooled)
    /\ Pooled \subseteq stopping.seen
    /\ pool' = [p \in Peer |-> None]
    /\ stopping' = NotStopping
    /\ UNCHANGED <<conns, calls, remote, running>>

(* unless a send in progress has changed its size: the loop raises, and    *)
(* the server is left listening.                                           *)
StopRaises ==
    /\ stopping.at = "closing"
    /\ stopping.size # Cardinality(Pooled)
    /\ stopping' = [NotStopping EXCEPT !.at = "raised"]
    /\ UNCHANGED <<conns, pool, calls, remote, running>>

(* After StopRaises the server still listens on its port, and start()      *)
(* cannot bind it again.                                                   *)
Start ==
    /\ ~ running
    /\ stopping.at = "no"
    /\ running' = TRUE
    /\ UNCHANGED <<conns, pool, calls, remote, stopping>>

-----------------------------------------------------------------------------
(* The other side: _handle_connection(), and the network. *)

(* The handler leaves: end of stream, idle timeout, an error or a crash. *)
HangUp(c) ==
    /\ c \in active
    /\ active' = active \ {c}
    /\ conns' = [conns EXCEPT ![c].link = IF @ = "open" THEN "dead" ELSE @,
                              ![c].cut = TRUE]
    /\ wire' = [s \in Send |-> wire[s] \ {c}]
    /\ UNCHANGED <<pool, calls, lifecycle>>

-----------------------------------------------------------------------------

Attempt(s) ==
    \/ Connect(s)
    \/ ConnectFails(s)
    \/ Write(s)
    \/ DrainSucceeds(s)
    \/ DrainFails(s)
    \/ Retry(s)

Next ==
    \/ \E s \in Send : Refuse(s)
    \/ \E s \in Send, p \in Peer : Call(s, p)
    \/ \E s \in Send : Attempt(s)
    \/ \E s \in Send : Cancel(s)
    \/ EvictStale
    \/ \E p \in Peer : Expire(p)
    \/ Stop
    \/ \E p \in Peer : StopNext(p)
    \/ StopEnds
    \/ StopRaises
    \/ Start
    \/ \E c \in Opened : HangUp(c)
    \/ \E p \in Peer : Notice(p)

Spec == Init /\ [][Next]_vars

(* Every await of a send ends, by a timeout if not otherwise, and the      *)
(* write lock of a connection is handed to its waiters in turn.            *)
FairSpec ==
    /\ Spec
    /\ \A s \in Send : /\ WF_vars(Connect(s) \/ ConnectFails(s))
                       /\ SF_vars(Write(s))
                       /\ WF_vars(DrainSucceeds(s) \/ DrainFails(s))
                       /\ WF_vars(Retry(s))

-----------------------------------------------------------------------------

Connection ==
    [peer : Peer, link : Link, cut : BOOLEAN, stale : BOOLEAN, lock : Send \cup {None}, by : Send]

CallState ==
    [at : {"uncalled", "true", "false", "cancelled"} \cup Awaiting,
     peer : Peer \cup {None}, conn : Opened \cup {None}, attempt : {1, 2}, wrote : BOOLEAN]

(* Every variable has the shape the code gives it; no call is in its third *)
(* attempt.                                                                *)
TypeOK ==
    /\ conns \in Seq(Connection)
    /\ pool \in [Peer -> Opened \cup {None}]
    /\ calls \in [Send -> CallState]
    /\ active \subseteq Opened
    /\ wire \in [Send -> SUBSET Opened]
    /\ running \in BOOLEAN
    /\ stopping \in [at : {"no", "closing", "raised"}, size : Nat, seen : SUBSET Peer]

(* However many sends find the pool full at the same time and open         *)
(* connections outside the lock, it never outgrows its size.               *)
PoolBounded == Cardinality(Pooled) <= POOL_MAX_SIZE

(* The inbound limit holds whatever the order of arrivals and departures.  *)
InboundBounded == Cardinality(active) <= MAX_INBOUND

(* No party to a connection ends up with more of them than it is meant to, *)
(* neither the pool that opens nor the server that takes them.             *)
ConnectionsBounded == PoolBounded /\ InboundBounded

(* "A fresh connection is established for retry": the second attempt never *)
(* takes a connection that another send put into the pool meanwhile.       *)
RetryIsFresh ==
    \A s \in Send :
        calls[s].attempt = 2 /\ calls[s].at \in {"locking", "draining"}
            => conns[calls[s].conn].by = s

(* "Returns True if delivered": although other sends, the eviction and     *)
(* stop() close connections in use, a message reported as delivered has    *)
(* arrived or is on its way unless the other side went away.               *)
TrueMeansSent ==
    \A s \in Send :
        calls[s].at = "true" =>
            wire[s] # {} \/ conns[calls[s].conn].cut

(* A broken pool entry never hangs a send: each returns or is cancelled.   *)
SendsReturn ==
    \A s \in Send : calls[s].at \in Awaiting ~> calls[s].at \in {"true", "false", "cancelled"}

=============================================================================
