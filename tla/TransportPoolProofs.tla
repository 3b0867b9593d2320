------------------------ MODULE TransportPoolProofs ------------------------
(***************************************************************************)
(* Theorems about TransportPool: types, the two limits, the freshness of a *)
(* retry, and the truth of a reported delivery, for any number of sends,   *)
(* peers and connections.                                                  *)
(***************************************************************************)
EXTENDS TransportPool, FiniteSetTheorems, SequenceTheorems, TLAPS

(* A call that awaits knows its peer, one past the lookup its connection.  *)
Engaged ==
    \A s \in Send :
        /\ calls[s].at \in Awaiting => calls[s].peer \in Peer
        /\ calls[s].at \in {"locking", "draining", "closing", "true"}
               => calls[s].conn \in Opened
        /\ calls[s].at = "uncalled" => calls[s].attempt = 1

(* A link is lost only where the other side ended it. *)
LostIsCut == \A c \in Opened : conns[c].link \in {"dead", "eof"} => conns[c].cut

(* What makes a delivery true: a frame taken by a link is on its way until *)
(* the other side ends the link.                                           *)
SentOrCut ==
    \A s \in Send :
        calls[s].at = "true" \/ (calls[s].at = "draining" /\ calls[s].wrote)
            => calls[s].conn \in wire[s] \/ conns[calls[s].conn].cut

Limits ==
    /\ IsFiniteSet(Pooled)
    /\ PoolBounded
    /\ IsFiniteSet(active)
    /\ InboundBounded

IInv ==
    /\ TypeOK
    /\ Engaged
    /\ LostIsCut
    /\ RetryIsFresh
    /\ SentOrCut
    /\ Limits

-----------------------------------------------------------------------------
(* What a step may do to the connections. *)

(* Connections are never forgotten; who opened one and where it leads      *)
(* stays known, and one that was cut stays cut.                            *)
Evolves ==
    /\ conns' \in Seq(Connection)
    /\ Opened \subseteq Opened'
    /\ \A c \in Opened : /\ conns'[c].by = conns[c].by
                         /\ conns'[c].peer = conns[c].peer
                         /\ conns[c].cut => conns'[c].cut
    /\ LostIsCut'

LEMMA ConnsType ==
    ASSUME TypeOK
    PROVE  /\ Len(conns) \in Nat
           /\ conns \in [Opened -> Connection]
           /\ \A c \in Opened : conns[c] \in Connection
           /\ None \notin Opened
           /\ \A c \in Opened : c \in Nat
BY LenProperties, ElementOfSeq, PoolAssumption DEF TypeOK, Opened

LEMMA Same == ASSUME TypeOK, LostIsCut, UNCHANGED conns PROVE Evolves
BY ConnsType DEF Evolves, LostIsCut, Opened, TypeOK

(* Changes of single connections. *)
LEMMA Changed ==
    ASSUME TypeOK, LostIsCut,
           conns' \in [Opened -> Connection],
           \A c \in Opened : /\ conns'[c].by = conns[c].by
                             /\ conns'[c].peer = conns[c].peer
                             /\ conns[c].cut => conns'[c].cut
                             /\ conns'[c].link \in {"dead", "eof"} =>
                                   conns[c].link \in {"dead", "eof"} \/ conns'[c].cut
    PROVE  Evolves /\ Opened' = Opened
<1>1. conns' \in Seq(Connection) /\ Len(conns') = Len(conns)
    BY ConnsType DEF Opened
<1>2. Opened' = Opened
    BY <1>1 DEF Opened
<1> QED BY <1>1, <1>2 DEF Evolves, LostIsCut

LEMMA ClosingType ==
    ASSUME TypeOK, NEW C
    PROVE  /\ Closing(C) \in [Opened -> Connection]
           /\ \A c \in Opened :
                 /\ Closing(C)[c].by = conns[c].by
                 /\ Closing(C)[c].peer = conns[c].peer
                 /\ Closing(C)[c].cut = conns[c].cut
                 /\ Closing(C)[c].link \in {conns[c].link, "closed"}
                 /\ Closing(C)[c].lock = conns[c].lock
BY ConnsType DEF Closing, Connection, Link

LEMMA ClosingEvolves ==
    ASSUME TypeOK, LostIsCut, NEW C, conns' = Closing(C)
    PROVE  Evolves /\ Opened' = Opened
<1>1. \A c \in Opened : Closing(C)[c].link \in {"dead", "eof"} =>
                           conns[c].link \in {"dead", "eof"}
    BY ClosingType
<1> QED BY <1>1, ClosingType, Changed

LEMMA TouchedType ==
    ASSUME TypeOK, NEW d \in Opened
    PROVE  /\ Touched(d) \in [Opened -> Connection]
           /\ \A c \in Opened :
                 /\ Touched(d)[c].by = conns[c].by
                 /\ Touched(d)[c].peer = conns[c].peer
                 /\ Touched(d)[c].cut = conns[c].cut
                 /\ Touched(d)[c].link = conns[c].link
BY ConnsType DEF Touched, Connection

(* The connection that open_connection() adds. *)
LEMMA ConnectEvolves ==
    ASSUME TypeOK, Engaged, LostIsCut, NEW s \in Send, Connect(s)
    PROVE  /\ Evolves
           /\ Len(conns) + 1 \in Opened'
           /\ Opened' = Opened \cup {Len(conns) + 1}
           /\ conns'[Len(conns) + 1] = NewConnection(s)
<1>1. PICK V : conns' = Append(Closing({pool[q] : q \in V}), NewConnection(s))
    BY DEF Connect
<1> DEFINE C == {pool[q] : q \in V}
           new == NewConnection(s)
<1>2. Closing(C) \in Seq(Connection) /\ Len(Closing(C)) = Len(conns)
    BY ClosingType, ConnsType DEF Opened
<1>3. calls[s].peer \in Peer
    BY DEF Connect, Engaged, Awaiting
<1>4. new \in Connection
    BY <1>3 DEF NewConnection, Connection, Link
<1>5. conns' = Append(Closing(C), new)
    BY <1>1
<1> HIDE DEF C, new
<1>6. /\ conns' \in Seq(Connection)
      /\ Len(conns') = Len(conns) + 1
      /\ \A c \in 1 .. Len(conns) : conns'[c] = Closing(C)[c]
      /\ conns'[Len(conns) + 1] = new
    BY <1>2, <1>4, <1>5
<1>7. Opened' = Opened \cup {Len(conns) + 1}
    BY <1>6, ConnsType DEF Opened
<1>c. \A c \in Opened : conns'[c] = Closing(C)[c]
    BY <1>6 DEF Opened
<1>d. \A c \in Opened : /\ conns'[c].by = conns[c].by
                        /\ conns'[c].peer = conns[c].peer
                        /\ conns'[c].cut = conns[c].cut
                        /\ conns'[c].link \in {conns[c].link, "closed"}
    BY <1>c, ClosingType
<1>8. new.link \in {"dead", "eof"} => new.cut
    BY DEF NewConnection, new
<1>9. LostIsCut'
  <2>1. SUFFICES ASSUME NEW c \in Opened', conns'[c].link \in {"dead", "eof"}
                 PROVE  conns'[c].cut
      BY DEF LostIsCut
  <2>2. CASE c \in Opened
      BY <2>1, <2>2, <1>d DEF LostIsCut
  <2>3. CASE c = Len(conns) + 1
      BY <2>1, <2>3, <1>6, <1>8
  <2> QED BY <2>2, <2>3, <1>7
<1> QED BY <1>6, <1>7, <1>9, <1>d DEF Evolves, new

LEMMA StepEvolves ==
    ASSUME TypeOK, Engaged, LostIsCut, [Next]_vars
    PROVE  Evolves
<1>1. ASSUME NEW s \in Send, NEW p \in Peer, Call(s, p) PROVE Evolves
  <2>1. CASE /\ p \in Pooled
             /\ conns' = Touched(pool[p])
    <3>1. pool[p] \in Opened
        BY <2>1 DEF Pooled, TypeOK
    <3> QED BY <2>1, <3>1, TouchedType, Changed
  <2>2. CASE conns' = Closing({pool[p]})
      BY <2>2, ClosingEvolves
  <2> QED BY <1>1, <2>1, <2>2 DEF Call
<1>2. ASSUME NEW s \in Send, Connect(s) PROVE Evolves
    BY <1>2, ConnectEvolves
<1>3. ASSUME NEW s \in Send, Write(s) PROVE Evolves
  <2> DEFINE d == calls[s].conn
  <2>1. /\ d \in Opened
        /\ conns' = [conns EXCEPT ![d].lock = s]
      BY <1>3 DEF Write, Engaged
  <2>2. /\ conns' \in [Opened -> Connection]
        /\ \A c \in Opened : /\ conns'[c].by = conns[c].by
                             /\ conns'[c].peer = conns[c].peer
                             /\ conns'[c].cut = conns[c].cut
                             /\ conns'[c].link = conns[c].link
      BY <2>1, ConnsType DEF Connection
  <2> QED BY <2>2, Changed
<1>4. ASSUME NEW s \in Send, DrainSucceeds(s) PROVE Evolves
  <2> DEFINE d == calls[s].conn
  <2>1. /\ d \in Opened
        /\ conns' = [conns EXCEPT ![d].lock = None, ![d].stale = FALSE]
      BY <1>4 DEF DrainSucceeds, Engaged
  <2>2. /\ conns' \in [Opened -> Connection]
        /\ \A c \in Opened : /\ conns'[c].by = conns[c].by
                             /\ conns'[c].peer = conns[c].peer
                             /\ conns'[c].cut = conns[c].cut
                             /\ conns'[c].link = conns[c].link
      BY <2>1, ConnsType DEF Connection
  <2> QED BY <2>2, Changed
<1>5. ASSUME NEW s \in Send, DrainFails(s) PROVE Evolves
  <2> DEFINE d == calls[s].conn
             f == Closing({d})
             new == [f[d] EXCEPT !.lock = None]
  <2>1. d \in Opened
      BY <1>5 DEF DrainFails, Engaged
  <2>2. /\ f \in [Opened -> Connection]
        /\ \A c \in Opened : /\ f[c].by = conns[c].by
                             /\ f[c].peer = conns[c].peer
                             /\ f[c].cut = conns[c].cut
                             /\ f[c].link \in {conns[c].link, "closed"}
      BY ClosingType
  <2>3. conns' = [f EXCEPT ![d] = new]
      BY <1>5 DEF DrainFails
  <2> HIDE DEF f
  <2>4. /\ new \in Connection
        /\ new.by = f[d].by /\ new.peer = f[d].peer
        /\ new.cut = f[d].cut /\ new.link = f[d].link
      BY <2>1, <2>2 DEF Connection
  <2> HIDE DEF new
  <2>5. /\ conns' \in [Opened -> Connection]
        /\ \A c \in Opened : conns'[c] = IF c = d THEN new ELSE f[c]
      BY <2>2, <2>3, <2>4
  <2>6. \A c \in Opened : /\ conns'[c].by = conns[c].by
                          /\ conns'[c].peer = conns[c].peer
                          /\ conns[c].cut => conns'[c].cut
                          /\ conns'[c].link \in {conns[c].link, "closed"}
      BY <2>1, <2>2, <2>4, <2>5
  <2> QED BY <2>5, <2>6, Changed
<1>6. ASSUME NEW s \in Send, Cancel(s) PROVE Evolves
  <2>1. conns' = [c \in Opened |-> IF conns[c].lock = s
                                   THEN [conns[c] EXCEPT !.lock = None] ELSE conns[c]]
      BY <1>6 DEF Cancel
  <2>2. /\ conns' \in [Opened -> Connection]
        /\ \A c \in Opened : /\ conns'[c].by = conns[c].by
                             /\ conns'[c].peer = conns[c].peer
                             /\ conns'[c].cut = conns[c].cut
                             /\ conns'[c].link = conns[c].link
      BY <2>1, ConnsType DEF Connection
  <2> QED BY <2>2, Changed
<1>7. CASE EvictStale
    BY <1>7, ClosingEvolves DEF EvictStale
<1>8. ASSUME NEW p \in Peer, Expire(p) PROVE Evolves
  <2> DEFINE d == pool[p]
  <2>1. /\ d \in Opened
        /\ conns' = [conns EXCEPT ![d].stale = TRUE]
      BY <1>8 DEF Expire, Pooled, TypeOK
  <2>2. /\ conns' \in [Opened -> Connection]
        /\ \A c \in Opened : /\ conns'[c].by = conns[c].by
                             /\ conns'[c].peer = conns[c].peer
                             /\ conns'[c].cut = conns[c].cut
                             /\ conns'[c].link = conns[c].link
      BY <2>1, ConnsType DEF Connection
  <2> QED BY <2>2, Changed
<1>9. ASSUME NEW p \in Peer, Notice(p) PROVE Evolves
  <2> DEFINE d == pool[p]
  <2>1. /\ d \in Opened
        /\ conns[d].link = "dead"
        /\ conns' = [conns EXCEPT ![d].link = "eof"]
      BY <1>9 DEF Notice, Pooled, TypeOK
  <2>2. /\ conns' \in [Opened -> Connection]
        /\ \A c \in Opened : /\ conns'[c].by = conns[c].by
                             /\ conns'[c].peer = conns[c].peer
                             /\ conns'[c].cut = conns[c].cut
                             /\ c # d => conns'[c].link = conns[c].link
      BY <2>1, ConnsType DEF Connection, Link
  <2> QED BY <2>1, <2>2, Changed
<1>10. CASE Stop
    BY <1>10, ClosingEvolves, Same DEF Stop
<1>11. ASSUME NEW p \in Peer, StopNext(p) PROVE Evolves
    BY <1>11, ClosingEvolves DEF StopNext
<1>12. ASSUME NEW d \in Opened, HangUp(d) PROVE Evolves
  <2> DEFINE link == IF conns[d].link = "open" THEN "dead" ELSE conns[d].link
             new == [conns[d] EXCEPT !.link = link, !.cut = TRUE]
  <2>1. conns[d] \in Connection /\ link \in Link
      BY ConnsType DEF Connection, Link
  <2>2. conns' = [conns EXCEPT ![d] = new]
      BY <1>12 DEF HangUp
  <2> HIDE DEF link
  <2>3. new \in Connection /\ new.by = conns[d].by /\ new.peer = conns[d].peer /\ new.cut
      BY <2>1 DEF Connection
  <2> HIDE DEF new
  <2>4. /\ conns' \in [Opened -> Connection]
        /\ \A c \in Opened : conns'[c] = IF c = d THEN new ELSE conns[c]
      BY <2>2, <2>3, ConnsType
  <2>5. \A c \in Opened : /\ conns'[c].by = conns[c].by
                          /\ conns'[c].peer = conns[c].peer
                          /\ conns[c].cut => conns'[c].cut
                          /\ c # d => conns'[c].link = conns[c].link
                          /\ c = d => conns'[c].cut
      BY <2>3, <2>4
  <2> QED BY <2>4, <2>5, Changed
<1>13. ASSUME UNCHANGED conns PROVE Evolves
    BY <1>13, Same
<1> QED
    BY <1>1, <1>2, <1>3, <1>4, <1>5, <1>6, <1>7, <1>8, <1>9, <1>10, <1>11, <1>12, <1>13
    DEF Next, Attempt, Refuse, ConnectFails, Retry, StopEnds, StopRaises, Start, vars

-----------------------------------------------------------------------------
(* Types, and what a call knows. *)

(* What was well typed stays so when connections are added. *)
LEMMA Wider ==
    ASSUME TypeOK, Evolves
    PROVE  /\ calls \in [Send -> CallState']
           /\ pool \in [Peer -> Opened' \cup {None}]
           /\ active \subseteq Opened'
           /\ wire \in [Send -> SUBSET Opened']
BY DEF TypeOK, Evolves, CallState

(* A step that leaves the calls alone, or changes a single one. *)
LEMMA OneCall ==
    ASSUME TypeOK, Engaged, Evolves, NEW s \in Send, NEW e \in CallState',
           e.at \in Awaiting => e.peer \in Peer,
           e.at \in {"locking", "draining", "closing", "true"} => e.conn \in Opened',
           e.at = "uncalled" => e.attempt = 1,
           calls' = [calls EXCEPT ![s] = e]
    PROVE  calls' \in [Send -> CallState'] /\ Engaged'
<1>1. calls' \in [Send -> CallState']
    BY Wider
<1>2. \A t \in Send : calls'[t] = IF t = s THEN e ELSE calls[t]
    BY Wider
<1>3. Engaged'
    BY <1>2 DEF Engaged, Evolves
<1> QED BY <1>1, <1>3

LEMMA NoCall ==
    ASSUME TypeOK, Engaged, Evolves, UNCHANGED calls
    PROVE  calls' \in [Send -> CallState'] /\ Engaged'
BY Wider DEF Engaged, Evolves

LEMMA ReturnedType ==
    ASSUME TypeOK, Engaged, Evolves, NEW s \in Send, NEW r \in {"false", "cancelled"},
           calls' = Returned(s, r)
    PROVE  calls' \in [Send -> CallState'] /\ Engaged'
<1> DEFINE e == [Uncalled EXCEPT !.at = r]
<1>1. /\ e \in CallState'
      /\ e.at = r
    BY DEF Uncalled, CallState
<1>2. calls' = [calls EXCEPT ![s] = e]
    BY DEF Returned
<1> HIDE DEF e
<1> QED BY <1>1, <1>2, OneCall DEF Awaiting

LEMMA StepCalls ==
    ASSUME TypeOK, Engaged, LostIsCut, Evolves, [Next]_vars
    PROVE  calls' \in [Send -> CallState'] /\ Engaged'
<1> DEFINE OK == calls' \in [Send -> CallState'] /\ Engaged'
<1>1. ASSUME NEW s \in Send, NEW p \in Peer, Call(s, p) PROVE OK
  <2>0. calls[s] \in CallState'
      BY Wider
  <2>1. CASE p \in Pooled /\ calls' = [calls EXCEPT ![s].at = "locking", ![s].peer = p,
                                                    ![s].conn = pool[p]]
    <3> DEFINE e == [calls[s] EXCEPT !.at = "locking", !.peer = p, !.conn = pool[p]]
    <3>1. pool[p] \in Opened'
        BY <2>1, Wider DEF Pooled
    <3>2. /\ e \in CallState'
          /\ e.at = "locking" /\ e.peer = p /\ e.conn = pool[p]
        BY <2>0, <3>1 DEF CallState, Awaiting
    <3>3. calls' = [calls EXCEPT ![s] = e]
        BY <2>1
    <3> HIDE DEF e
    <3> QED BY <3>1, <3>2, <3>3, OneCall
  <2>2. CASE calls' = [calls EXCEPT ![s].at = "opening", ![s].peer = p]
    <3> DEFINE e == [calls[s] EXCEPT !.at = "opening", !.peer = p]
    <3>2. /\ e \in CallState'
          /\ e.at = "opening" /\ e.peer = p
        BY <2>0 DEF CallState, Awaiting
    <3>3. calls' = [calls EXCEPT ![s] = e]
        BY <2>2
    <3> HIDE DEF e
    <3> QED BY <3>2, <3>3, OneCall
  <2> QED BY <1>1, <2>1, <2>2 DEF Call
<1>2. ASSUME NEW s \in Send, Connect(s) PROVE OK
  <2> DEFINE c == Len(conns) + 1
             e == [calls[s] EXCEPT !.at = "locking", !.conn = c]
  <2>1. c \in Opened' /\ calls[s].peer \in Peer
      BY <1>2, ConnectEvolves DEF Connect, Engaged, Awaiting
  <2>2. calls[s] \in CallState'
      BY Wider
  <2>3. /\ e \in CallState'
        /\ e.at = "locking" /\ e.peer = calls[s].peer /\ e.conn = c
      BY <2>1, <2>2 DEF CallState, Awaiting
  <2>4. calls' = [calls EXCEPT ![s] = e]
      BY <1>2 DEF Connect
  <2> HIDE DEF e
  <2> QED BY <2>1, <2>3, <2>4, OneCall
<1>3. ASSUME NEW s \in Send, Write(s) PROVE OK
  <2>1. PICK w \in BOOLEAN : calls' = [calls EXCEPT ![s].at = "draining", ![s].wrote = w]
      BY <1>3 DEF Write
  <2> DEFINE e == [calls[s] EXCEPT !.at = "draining", !.wrote = w]
  <2>2. calls[s] \in CallState'
      BY Wider
  <2>3. /\ e \in CallState'
        /\ e.at = "draining" /\ e.peer = calls[s].peer /\ e.conn = calls[s].conn
      BY <2>2 DEF CallState, Awaiting
  <2>4. calls' = [calls EXCEPT ![s] = e]
      BY <2>1
  <2>5. e.peer \in Peer /\ e.conn \in Opened'
      BY <1>3, <2>3 DEF Write, Engaged, Awaiting, Evolves
  <2> HIDE DEF e
  <2> QED BY <2>3, <2>4, <2>5, OneCall
<1>4. ASSUME NEW s \in Send, DrainSucceeds(s) PROVE OK
  <2> DEFINE c == calls[s].conn
             e == [[Uncalled EXCEPT !.at = "true"] EXCEPT !.conn = c]
  <2>1. c \in Opened'
      BY <1>4 DEF DrainSucceeds, Engaged, Evolves
  <2>3. /\ e \in CallState'
        /\ e.at = "true" /\ e.conn = c
      BY <2>1 DEF CallState, Uncalled
  <2>4. calls' = [calls EXCEPT ![s] = e]
      BY <1>4 DEF DrainSucceeds, Returned, TypeOK
  <2> HIDE DEF e
  <2> QED BY <2>1, <2>3, <2>4, OneCall DEF Awaiting
<1>5. ASSUME NEW s \in Send, DrainFails(s) PROVE OK
  <2> DEFINE e == [calls[s] EXCEPT !.at = "closing"]
  <2>2. calls[s] \in CallState'
      BY Wider
  <2>3. /\ e \in CallState'
        /\ e.at = "closing" /\ e.peer = calls[s].peer /\ e.conn = calls[s].conn
      BY <2>2 DEF CallState, Awaiting
  <2>4. calls' = [calls EXCEPT ![s] = e]
      BY <1>5 DEF DrainFails
  <2>5. e.peer \in Peer /\ e.conn \in Opened'
      BY <1>5, <2>3 DEF DrainFails, Engaged, Awaiting, Evolves
  <2> HIDE DEF e
  <2> QED BY <2>3, <2>4, <2>5, OneCall
<1>6. ASSUME NEW s \in Send, Retry(s) PROVE OK
  <2>1. CASE calls' = [calls EXCEPT ![s].at = "opening", ![s].conn = None,
                                    ![s].attempt = 2, ![s].wrote = FALSE]
    <3> DEFINE e == [calls[s] EXCEPT !.at = "opening", !.conn = None,
                                     !.attempt = 2, !.wrote = FALSE]
    <3>1. calls[s] \in CallState'
        BY Wider
    <3>2. /\ e \in CallState'
          /\ e.at = "opening" /\ e.peer = calls[s].peer
        BY <3>1 DEF CallState, Awaiting
    <3>3. calls' = [calls EXCEPT ![s] = e]
        BY <2>1
    <3>4. e.peer \in Peer
        BY <1>6, <3>2 DEF Retry, Engaged, Awaiting
    <3> HIDE DEF e
    <3> QED BY <3>2, <3>3, <3>4, OneCall
  <2> QED BY <1>6, <2>1, ReturnedType DEF Retry
<1>7. ASSUME NEW s \in Send, Refuse(s) \/ ConnectFails(s) \/ Cancel(s) PROVE OK
    BY <1>7, ReturnedType DEF Refuse, ConnectFails, Cancel
<1>8. ASSUME UNCHANGED calls PROVE OK
    BY <1>8, NoCall
<1> QED
    BY <1>1, <1>2, <1>3, <1>4, <1>5, <1>6, <1>7, <1>8
    DEF Next, Attempt, EvictStale, Expire, Stop, StopNext, StopEnds, StopRaises, Start,
        HangUp, Notice, vars

(* The pool, the handlers and the wire name opened connections only. *)
LEMMA StepTypes ==
    ASSUME TypeOK, Engaged, LostIsCut, Evolves, calls' \in [Send -> CallState'],
           IsFiniteSet(Pooled), [Next]_vars
    PROVE  TypeOK'
<1> DEFINE PoolOK == pool' \in [Peer -> Opened' \cup {None}]
           RemoteOK == active' \subseteq Opened' /\ wire' \in [Send -> SUBSET Opened']
           LifeOK == /\ running' \in BOOLEAN
                     /\ stopping' \in [at : {"no", "closing", "raised"}, size : Nat,
                                       seen : SUBSET Peer]
<1>1. PoolOK
  <2>1. ASSUME NEW s \in Send, Connect(s) PROVE PoolOK
    <3>1. Len(conns) + 1 \in Opened'
        BY <2>1, ConnectEvolves
    <3> QED BY <2>1, <3>1, Wider DEF Connect
  <2>2. CASE EvictStale \/ StopEnds
      BY <2>2, Wider DEF EvictStale, StopEnds
  <2>3. ASSUME NEW p, pool' = [pool EXCEPT ![p] = None] PROVE PoolOK
      BY <2>3, Wider
  <2>4. ASSUME UNCHANGED pool PROVE PoolOK
      BY <2>4, Wider
  <2> QED
      BY <2>1, <2>2, <2>3, <2>4
      DEF Next, Attempt, Refuse, Call, ConnectFails, Write, DrainSucceeds, DrainFails, Retry,
          Cancel, Expire, Stop, StopNext, StopRaises, Start, HangUp, Notice, vars
<1>2. RemoteOK
  <2>1. ASSUME NEW s \in Send, Connect(s) PROVE RemoteOK
    <3>1. Len(conns) + 1 \in Opened'
        BY <2>1, ConnectEvolves
    <3> QED BY <2>1, <3>1, Wider DEF Connect
  <2>2. ASSUME NEW s \in Send, Write(s) PROVE RemoteOK
    <3>1. calls[s].conn \in Opened'
        BY <2>2 DEF Write, Engaged, Evolves
    <3>2. wire' = [wire EXCEPT ![s] = @ \cup {calls[s].conn}] \/ wire' = wire
        BY <2>2 DEF Write
    <3>3. active' = active
        BY <2>2 DEF Write
    <3> QED BY <3>1, <3>2, <3>3, Wider
  <2>3. ASSUME NEW c \in Opened, HangUp(c) PROVE RemoteOK
      BY <2>3, Wider DEF HangUp
  <2>4. ASSUME UNCHANGED remote PROVE RemoteOK
      BY <2>4, Wider DEF remote
  <2> QED
      BY <2>1, <2>2, <2>3, <2>4
      DEF Next, Attempt, Refuse, Call, ConnectFails, DrainSucceeds, DrainFails, Retry, Cancel,
          EvictStale, Expire, Stop, StopNext, StopEnds, StopRaises, Start, Notice, vars, remote
<1>3. LifeOK
  <2>1. CASE Stop
    <3>1. Cardinality(Pooled) \in Nat
        BY FS_CardinalityType
    <3>2. Pooled \subseteq Peer
        BY DEF Pooled
    <3>3. running' = FALSE
        BY <2>1 DEF Stop
    <3>4. ASSUME NEW p \in Pooled,
                 stopping' = [at |-> "closing", size |-> Cardinality(Pooled), seen |-> {p}]
          PROVE  LifeOK
        BY <3>1, <3>2, <3>3, <3>4
    <3>5. ASSUME UNCHANGED stopping PROVE LifeOK
        BY <3>3, <3>5 DEF TypeOK
    <3> HIDE DEF LifeOK
    <3> QED BY <2>1, <3>4, <3>5 DEF Stop
  <2>2. ASSUME NEW p \in Peer, StopNext(p) PROVE LifeOK
      BY <2>2 DEF StopNext, TypeOK
  <2>3. CASE StopEnds
      BY <2>3 DEF StopEnds, NotStopping, TypeOK
  <2>4. CASE StopRaises
      BY <2>4 DEF StopRaises, NotStopping, TypeOK
  <2>5. CASE Start
      BY <2>5 DEF Start, TypeOK
  <2>6. ASSUME UNCHANGED lifecycle PROVE LifeOK
      BY <2>6 DEF lifecycle, TypeOK
  <2> HIDE DEF LifeOK
  <2> QED
      BY <2>1, <2>2, <2>3, <2>4, <2>5, <2>6
      DEF Next, Attempt, Refuse, Call, Connect, ConnectFails, Write, DrainSucceeds, DrainFails,
          Retry, Cancel, EvictStale, Expire, HangUp, Notice, vars, lifecycle
<1> QED
    BY <1>1, <1>2, <1>3 DEF TypeOK, Evolves

-----------------------------------------------------------------------------
(* A retry is fresh, and a reported delivery true. *)

(* Where a call keeps its connection and attempt, or gets to no connection *)
(* at all, its freshness is kept.                                          *)
LEMMA StepFresh ==
    ASSUME TypeOK, Engaged, LostIsCut, Evolves, RetryIsFresh, [Next]_vars
    PROVE  RetryIsFresh'
<1>1. SUFFICES ASSUME NEW t \in Send, calls'[t].attempt = 2,
                      calls'[t].at \in {"locking", "draining"}
               PROVE  conns'[calls'[t].conn].by = t
    BY DEF RetryIsFresh
<1> DEFINE Old == /\ calls[t].attempt = 2
                  /\ calls[t].at \in {"locking", "draining"}
                  /\ calls'[t].conn = calls[t].conn
<1>2. ASSUME Old PROVE conns'[calls'[t].conn].by = t
    BY <1>2 DEF RetryIsFresh, Engaged, Evolves
<1> HIDE DEF RetryIsFresh
<1>3. calls \in [Send -> CallState]
    BY DEF TypeOK
<1>4. ASSUME NEW s \in Send, NEW p \in Peer, Call(s, p) PROVE Old
  <2>1. calls[s].at = "uncalled" /\ calls[s].attempt = 1
      BY <1>4 DEF Call, Engaged
  <2>2. calls'[s].attempt = 1
      BY <1>3, <1>4, <2>1 DEF Call, CallState
  <2>3. s # t
      BY <1>1, <2>2
  <2> QED BY <1>1, <1>3, <1>4, <2>3 DEF Call
<1>5. ASSUME NEW s \in Send, Connect(s) PROVE conns'[calls'[t].conn].by = t
  <2>1. CASE s = t
    <3>1. calls'[t].conn = Len(conns) + 1
        BY <1>3, <1>5, <2>1 DEF Connect, CallState
    <3>2. conns'[Len(conns) + 1] = NewConnection(s)
        BY <1>5, ConnectEvolves
    <3>3. NewConnection(s).by = s
        BY DEF NewConnection
    <3> QED BY <2>1, <3>1, <3>2, <3>3
  <2>2. CASE s # t
      BY <1>1, <1>2, <1>3, <1>5, <2>2 DEF Connect
  <2> QED BY <2>1, <2>2
<1>6. ASSUME NEW s \in Send, Write(s) PROVE Old
  <2>1. PICK w \in BOOLEAN : calls' = [calls EXCEPT ![s].at = "draining", ![s].wrote = w]
      BY <1>6 DEF Write
  <2> QED BY <1>1, <1>3, <1>6, <2>1 DEF Write, CallState
<1>7. ASSUME NEW s \in Send, DrainSucceeds(s) \/ DrainFails(s) \/ Retry(s) \/ Refuse(s)
                                \/ ConnectFails(s) \/ Cancel(s)
      PROVE  Old
  <2>1. calls'[s].at \notin {"locking", "draining"}
      BY <1>3, <1>7 DEF DrainSucceeds, DrainFails, Retry, Refuse, ConnectFails, Cancel, Returned,
                        Uncalled, CallState
  <2>2. s # t
      BY <1>1, <2>1
  <2>3. calls'[t] = calls[t]
      BY <1>3, <1>7, <2>2 DEF DrainSucceeds, DrainFails, Retry, Refuse, ConnectFails, Cancel,
                              Returned
  <2> QED BY <1>1, <2>3
<1>8. ASSUME UNCHANGED calls PROVE Old
    BY <1>1, <1>8
<1> HIDE DEF Old
<1> QED
    BY <1>2, <1>4, <1>5, <1>6, <1>7, <1>8
    DEF Next, Attempt, EvictStale, Expire, Stop, StopNext, StopEnds, StopRaises, Start, HangUp,
        Notice, vars

(* A frame leaves a connection only when the other side ends it. *)
LEMMA StepSent ==
    ASSUME TypeOK, Engaged, LostIsCut, Evolves, SentOrCut, [Next]_vars
    PROVE  SentOrCut'
<1> DEFINE Claims(t) == calls[t].at = "true" \/ (calls[t].at = "draining" /\ calls[t].wrote)
           Holds(t) == calls[t].conn \in wire[t] \/ conns[calls[t].conn].cut
<1>1. SUFFICES ASSUME NEW t \in Send, Claims(t)' PROVE Holds(t)'
    BY DEF SentOrCut
<1>2. calls \in [Send -> CallState] /\ wire \in [Send -> SUBSET Opened]
    BY DEF TypeOK
<1>3. ASSUME Claims(t), calls'[t].conn = calls[t].conn, wire[t] \subseteq wire'[t]
      PROVE  Holds(t)'
    BY <1>3 DEF SentOrCut, Engaged, Evolves
<1>4. ASSUME NEW s \in Send, Write(s) PROVE Holds(t)'
  <2> DEFINE c == calls[s].conn
  <2>0. c \in Opened
      BY <1>4 DEF Write, Engaged
  <2>1. CASE s = t
    <3>1. calls'[s].conn = c
        BY <1>2, <1>4 DEF Write, CallState
    <3>2. CASE wire' = [wire EXCEPT ![s] = @ \cup {c}]
      <4>1. c \in wire'[s]
          BY <1>2, <3>2
      <4> QED BY <2>1, <3>1, <4>1
    <3>3. CASE /\ conns[c].link # "open"
               /\ calls' = [calls EXCEPT ![s].at = "draining",
                                         ![s].wrote = conns[c].link # "closed"]
      <4>1. calls'[s].at = "draining" /\ (calls'[s].wrote <=> conns[c].link # "closed")
          BY <1>2, <3>3 DEF CallState
      <4>2. conns[c].link # "closed"
          BY <1>1, <2>1, <4>1
      <4>3. conns[c].link \in Link
          BY <2>0, ConnsType DEF Connection
      <4>4. conns[c].cut
          BY <2>0, <3>3, <4>2, <4>3 DEF LostIsCut, Link
      <4>5. conns'[c].cut
          BY <2>0, <4>4 DEF Evolves
      <4> QED BY <2>1, <3>1, <4>5
    <3> QED BY <1>4, <3>2, <3>3 DEF Write
  <2>2. CASE s # t
    <3>1. calls'[t] = calls[t] /\ wire'[t] = wire[t]
        BY <1>2, <1>4, <2>2 DEF Write
    <3> QED BY <1>1, <1>3, <3>1
  <2> QED BY <2>1, <2>2
<1>5. ASSUME NEW s \in Send, DrainSucceeds(s) PROVE Holds(t)'
  <2>1. CASE s = t
    <3>1. Claims(t)
        BY <1>5, <2>1 DEF DrainSucceeds, Drained
    <3>2. calls'[t].conn = calls[t].conn
        BY <1>2, <1>5, <2>1 DEF DrainSucceeds, Returned, Uncalled
    <3>3. wire' = wire
        BY <1>5 DEF DrainSucceeds, remote
    <3> QED BY <1>3, <3>1, <3>2, <3>3
  <2>2. CASE s # t
    <3>1. calls'[t] = calls[t] /\ wire'[t] = wire[t]
        BY <1>2, <1>5, <2>2 DEF DrainSucceeds, Returned, remote
    <3> QED BY <1>1, <1>3, <3>1
  <2> QED BY <2>1, <2>2
<1>6. ASSUME NEW c \in Opened, HangUp(c) PROVE Holds(t)'
  <2>1. calls' = calls /\ Claims(t)
      BY <1>1, <1>6 DEF HangUp
  <2>2. CASE calls[t].conn = c
    <3>1. conns'[c].cut
        BY <1>6, ConnsType DEF HangUp, Connection
    <3> QED BY <2>1, <2>2, <3>1
  <2>3. CASE calls[t].conn # c
    <3>1. wire'[t] = wire[t] \ {c}
        BY <1>6 DEF HangUp
    <3>2. Holds(t) /\ calls[t].conn \in Opened
        BY <2>1 DEF SentOrCut, Engaged
    <3>3. conns[calls[t].conn].cut => conns'[calls[t].conn].cut
        BY <3>2 DEF Evolves
    <3> QED BY <2>1, <2>3, <3>1, <3>2, <3>3
  <2> QED BY <2>2, <2>3
<1>7. ASSUME NEW s \in Send, DrainFails(s) \/ Retry(s) \/ Refuse(s) \/ ConnectFails(s) \/ Cancel(s)
      PROVE  Holds(t)'
  <2>1. calls'[s].at \notin {"true", "draining"}
      BY <1>2, <1>7 DEF DrainFails, Retry, Refuse, ConnectFails, Cancel, Returned,
                        Uncalled, CallState
  <2>2. s # t
      BY <1>1, <2>1
  <2>3. calls'[t] = calls[t] /\ wire' = wire
      BY <1>2, <1>7, <2>2 DEF DrainFails, Retry, Refuse, ConnectFails, Cancel, Returned, remote
  <2> QED BY <1>1, <1>3, <2>3
<1>9. ASSUME NEW s \in Send, NEW p \in Peer, Call(s, p) PROVE Holds(t)'
  <2>1. calls'[s].at \in {"locking", "opening"}
      BY <1>2, <1>9 DEF Call, CallState
  <2>2. s # t
      BY <1>1, <2>1
  <2>3. calls'[t] = calls[t] /\ wire' = wire
      BY <1>2, <1>9, <2>2 DEF Call, remote
  <2> QED BY <1>1, <1>3, <2>3
<1>10. ASSUME NEW s \in Send, Connect(s) PROVE Holds(t)'
  <2>1. calls'[s].at = "locking"
      BY <1>2, <1>10 DEF Connect, CallState
  <2>2. s # t
      BY <1>1, <2>1
  <2>3. calls'[t] = calls[t] /\ wire' = wire
      BY <1>2, <1>10, <2>2 DEF Connect
  <2> QED BY <1>1, <1>3, <2>3
<1>8. ASSUME UNCHANGED <<calls, wire>> PROVE Holds(t)'
    BY <1>1, <1>3, <1>8
<1> HIDE DEF Holds
<1> QED
    BY <1>4, <1>5, <1>6, <1>7, <1>8, <1>9, <1>10
    DEF Next, Attempt, EvictStale, Expire, Stop, StopNext, StopEnds, StopRaises, Start, Notice,
        vars, remote

-----------------------------------------------------------------------------
(* The limits. *)

LEMMA FewerPooled ==
    ASSUME Limits, NEW P \in SUBSET Pooled
    PROVE  IsFiniteSet(P) /\ Cardinality(P) <= POOL_MAX_SIZE
BY FS_Subset, FS_CardinalityType, PoolAssumption DEF Limits, PoolBounded

(* Room is made for one connection before one is added. *)
LEMMA ConnectPooled ==
    ASSUME TypeOK, Limits, NEW s \in Send, Connect(s)
    PROVE  IsFiniteSet(Pooled') /\ Cardinality(Pooled') <= POOL_MAX_SIZE
<1> DEFINE p == calls[s].peer
<1>1. PICK V \in {{q} : q \in Pooled} \cup {{}} :
         /\ (V # {}) <=> NoRoom
         /\ pool' = [q \in Peer |-> IF q = p THEN Len(conns) + 1 ELSE
                                    IF q \in V THEN None ELSE pool[q]]
    BY DEF Connect
<1>2. Pooled' \subseteq (Pooled \ V) \cup {p}
    BY <1>1 DEF Pooled
<1>3. /\ IsFiniteSet(Pooled)
      /\ Cardinality(Pooled) \in Nat
      /\ Cardinality(Pooled) <= POOL_MAX_SIZE
    BY FS_CardinalityType DEF Limits, PoolBounded
<1>4. IsFiniteSet(Pooled \ V) /\ Cardinality(Pooled \ V) + 1 <= POOL_MAX_SIZE
  <2>1. CASE V = {}
    <3>1. Cardinality(Pooled) < POOL_MAX_SIZE
        BY <1>1, <1>3, <2>1, PoolAssumption DEF NoRoom
    <3>2. Pooled \ V = Pooled
        BY <2>1
    <3> QED BY <1>3, <3>1, <3>2, PoolAssumption
  <2>2. ASSUME NEW q \in Pooled, V = {q}
        PROVE  IsFiniteSet(Pooled \ V) /\ Cardinality(Pooled \ V) + 1 <= POOL_MAX_SIZE
    <3>1. /\ IsFiniteSet(Pooled \ {q})
          /\ Cardinality(Pooled \ {q}) = Cardinality(Pooled) - 1
        BY <1>3, FS_RemoveElement
    <3> QED BY <1>3, <2>2, <3>1, PoolAssumption
  <2> QED BY <1>1, <2>1, <2>2
<1>5. /\ IsFiniteSet((Pooled \ V) \cup {p})
      /\ Cardinality((Pooled \ V) \cup {p}) <= Cardinality(Pooled \ V) + 1
  <2> DEFINE R == Pooled \ V
  <2>1. IsFiniteSet(R) /\ Cardinality(R) \in Nat
      BY <1>4, FS_CardinalityType
  <2> HIDE DEF R
  <2>2. /\ IsFiniteSet(R \cup {p})
        /\ Cardinality(R \cup {p}) = IF p \in R THEN Cardinality(R) ELSE Cardinality(R) + 1
      BY <2>1, FS_AddElement
  <2> QED BY <2>1, <2>2 DEF R
<1>6. IsFiniteSet(Pooled') /\ Cardinality(Pooled') <= Cardinality((Pooled \ V) \cup {p})
    BY <1>2, <1>5, FS_Subset
<1> QED
    BY <1>4, <1>5, <1>6, FS_CardinalityType, PoolAssumption

LEMMA StepLimits ==
    ASSUME TypeOK, Limits, [Next]_vars
    PROVE  Limits'
<1> DEFINE PoolOK == IsFiniteSet(Pooled') /\ Cardinality(Pooled') <= POOL_MAX_SIZE
           ActiveOK == IsFiniteSet(active') /\ Cardinality(active') <= MAX_INBOUND
<1>1. PoolOK
  <2>1. ASSUME NEW s \in Send, Connect(s) PROVE PoolOK
      BY <2>1, ConnectPooled
  <2>2. ASSUME Pooled' \subseteq Pooled PROVE PoolOK
      BY <2>2, FewerPooled
  <2>3. ASSUME NEW p, pool' = [pool EXCEPT ![p] = None] PROVE PoolOK
    <3>1. Pooled' \subseteq Pooled
        BY <2>3 DEF Pooled, TypeOK
    <3> QED BY <3>1, <2>2
  <2>4. CASE EvictStale \/ StopEnds
    <3>1. Pooled' \subseteq Pooled
        BY <2>4 DEF Pooled, TypeOK, EvictStale, StopEnds
    <3> QED BY <3>1, <2>2
  <2>5. ASSUME UNCHANGED pool PROVE PoolOK
    <3>1. Pooled' \subseteq Pooled
        BY <2>5 DEF Pooled
    <3> QED BY <3>1, <2>2
  <2> HIDE DEF PoolOK
  <2> QED
      BY <2>1, <2>3, <2>4, <2>5
      DEF Next, Attempt, Refuse, Call, ConnectFails, Write, DrainSucceeds, DrainFails, Retry,
          Cancel, Expire, Stop, StopNext, StopRaises, Start, HangUp, Notice, vars
<1>2. ActiveOK
  <2>0. /\ IsFiniteSet(active)
        /\ Cardinality(active) \in Nat
        /\ Cardinality(active) <= MAX_INBOUND
      BY FS_CardinalityType DEF Limits, InboundBounded
  <2>1. ASSUME NEW s \in Send, Connect(s) PROVE ActiveOK
    <3>1. CASE HasRoom
      <4>1. active' = active \cup {Len(conns) + 1}
          BY <2>1, <3>1 DEF Connect
      <4>2. Cardinality(active) + 1 <= MAX_INBOUND
          BY <2>0, <3>1, PoolAssumption DEF HasRoom
      <4> QED BY <2>0, <4>1, <4>2, FS_AddElement, PoolAssumption
    <3>2. CASE ~ HasRoom
        BY <2>0, <2>1, <3>2 DEF Connect
    <3> QED BY <3>1, <3>2
  <2>2. ASSUME NEW c \in Opened, HangUp(c) PROVE ActiveOK
    <3>1. active' = active \ {c}
        BY <2>2 DEF HangUp
    <3>2. /\ IsFiniteSet(active \ {c})
          /\ Cardinality(active \ {c}) <= Cardinality(active)
        BY <2>0, FS_Subset
    <3>3. Cardinality(active \ {c}) \in Nat
        BY <3>2, FS_CardinalityType
    <3> QED BY <2>0, <3>1, <3>2, <3>3, PoolAssumption
  <2>3. ASSUME UNCHANGED active PROVE ActiveOK
      BY <2>0, <2>3
  <2> HIDE DEF ActiveOK
  <2> QED
      BY <2>1, <2>2, <2>3
      DEF Next, Attempt, Refuse, Call, ConnectFails, Write, DrainSucceeds, DrainFails, Retry,
          Cancel, EvictStale, Expire, Stop, StopNext, StopEnds, StopRaises, Start, Notice, vars,
          remote
<1> QED
    BY <1>1, <1>2 DEF Limits, PoolBounded, InboundBounded

-----------------------------------------------------------------------------
(* The invariant, and what follows from it. *)

LEMMA InitInv == Init => IInv
<1> SUFFICES ASSUME Init PROVE IInv
    OBVIOUS
<1>1. Opened = {} /\ Pooled = {}
    BY DEF Init, Opened, Pooled
<1>2. TypeOK
    BY <1>1 DEF Init, TypeOK, CallState, Uncalled, NotStopping
<1>3. Engaged /\ RetryIsFresh /\ SentOrCut
    BY DEF Init, Engaged, RetryIsFresh, SentOrCut, Uncalled, Awaiting
<1>4. LostIsCut
    BY <1>1 DEF LostIsCut
<1>5. Limits
    BY <1>1, FS_EmptySet, PoolAssumption DEF Init, Limits, PoolBounded, InboundBounded
<1> QED BY <1>2, <1>3, <1>4, <1>5 DEF IInv

LEMMA NextInv == IInv /\ [Next]_vars => IInv'
<1> SUFFICES ASSUME IInv, [Next]_vars PROVE IInv'
    OBVIOUS
<1>1. Evolves
    BY StepEvolves DEF IInv
<1>2. calls' \in [Send -> CallState'] /\ Engaged'
    BY <1>1, StepCalls DEF IInv
<1>3. TypeOK'
    BY <1>1, <1>2, StepTypes DEF IInv, Limits
<1>4. LostIsCut'
    BY <1>1 DEF Evolves
<1>5. RetryIsFresh'
    BY <1>1, StepFresh DEF IInv
<1>6. SentOrCut'
    BY <1>1, StepSent DEF IInv
<1>7. Limits'
    BY StepLimits DEF IInv
<1> QED BY <1>2, <1>3, <1>4, <1>5, <1>6, <1>7 DEF IInv

THEOREM Inductive == Spec => []IInv
BY InitInv, NextInv, PTL DEF Spec

(* Every variable keeps its type, and no call gets to a third attempt. *)
THEOREM TypeCorrect == Spec => []TypeOK
<1>1. IInv => TypeOK
    BY DEF IInv
<1> QED BY <1>1, Inductive, PTL

(* The pool never outgrows POOL_MAX_SIZE, however many sends open          *)
(* connections at the same time, and the inbound handlers never exceed     *)
(* MAX_INBOUND_CONNECTIONS.                                                *)
THEOREM ConnectionsStayBounded == Spec => []ConnectionsBounded
<1>1. IInv => ConnectionsBounded
    BY DEF IInv, Limits, ConnectionsBounded
<1> QED BY <1>1, Inductive, PTL

(* A second attempt always uses a connection that its own call opened. *)
THEOREM RetriesAreFresh == Spec => []RetryIsFresh
<1>1. IInv => RetryIsFresh
    BY DEF IInv
<1> QED BY <1>1, Inductive, PTL

(* A send returns True only if its frame was taken by a link that carries  *)
(* it still, or that the other side has ended.                             *)
THEOREM TrueIsSent == Spec => []TrueMeansSent
<1>1. IInv => TrueMeansSent
    BY DEF IInv, SentOrCut, TrueMeansSent
<1> QED BY <1>1, Inductive, PTL

-----------------------------------------------------------------------------
(* The write lock. *)

(* The lock of a connection is held by a call exactly while the call is in *)
(* its drain there.                                                        *)
LockIsDrain ==
    \A c \in Opened : \A s \in Send :
        (conns[c].lock = s) <=> (calls[s].at = "draining" /\ calls[s].conn = c)

(* No two calls have their frames half written on one connection.          *)
OneWriter ==
    \A s, t \in Send :
        calls[s].at = "draining" /\ calls[t].at = "draining" /\ calls[s].conn = calls[t].conn
            => s = t

(* A call that waits for a lock waits for a call that waits for none.      *)
WaitsForDrain ==
    \A s \in Send :
        calls[s].at = "locking" /\ conns[calls[s].conn].lock # None
            => \E t \in Send \ {s} : /\ conns[calls[s].conn].lock = t
                                     /\ calls[t].at = "draining"
                                     /\ calls[t].conn = calls[s].conn

LEMMA LocksKept ==
    ASSUME TypeOK, LockIsDrain, Opened' = Opened,
           \A c \in Opened : conns'[c].lock = conns[c].lock,
           \A t \in Send : \/ calls'[t] = calls[t]
                           \/ calls'[t].at # "draining" /\ calls[t].at # "draining"
    PROVE  LockIsDrain'
BY DEF LockIsDrain

LEMMA StepLocks ==
    ASSUME IInv, LockIsDrain, [Next]_vars
    PROVE  LockIsDrain'
<1> USE DEF IInv
<1>0. /\ calls \in [Send -> CallState]
      /\ None \notin Send
      /\ \A s \in Send : calls[s].at = "draining" => calls[s].conn \in Opened
    BY PoolAssumption DEF TypeOK, Engaged
<1>1. ASSUME NEW s \in Send, NEW p \in Peer, Call(s, p) PROVE LockIsDrain'
  <2>1. calls[s].at # "draining" /\ calls'[s].at # "draining"
      BY <1>0, <1>1 DEF Call, CallState
  <2>2. \A t \in Send : t # s => calls'[t] = calls[t]
      BY <1>0, <1>1 DEF Call
  <2>3. Opened' = Opened /\ \A c \in Opened : conns'[c].lock = conns[c].lock
    <3>1. CASE p \in Pooled /\ conns' = Touched(pool[p])
      <4>1. pool[p] \in Opened
          BY <3>1 DEF Pooled, TypeOK
      <4>2. /\ conns' = [conns EXCEPT ![pool[p]].stale = FALSE]
            /\ conns \in [Opened -> Connection]
            /\ Len(conns) \in Nat
          BY <3>1, ConnsType DEF Touched
      <4>3. \A c \in Opened : conns'[c].lock = conns[c].lock
          BY <4>1, <4>2 DEF Connection
      <4>4. Opened' = Opened
          BY <3>1, <4>1, TouchedType, Changed
      <4> QED BY <4>3, <4>4
    <3>2. CASE conns' = Closing({pool[p]})
        BY <3>2, ClosingType, ClosingEvolves
    <3> QED BY <1>1, <3>1, <3>2 DEF Call
  <2> QED BY <2>1, <2>2, <2>3, LocksKept
<1>2. ASSUME NEW s \in Send, Connect(s) PROVE LockIsDrain'
  <2> DEFINE n == Len(conns) + 1
  <2>1. /\ Opened' = Opened \cup {n}
        /\ conns'[n] = NewConnection(s)
        /\ n \notin Opened
      BY <1>2, ConnectEvolves, ConnsType DEF Opened
  <2>2. calls[s].at # "draining" /\ calls'[s].at # "draining"
      BY <1>0, <1>2 DEF Connect, CallState
  <2>3. \A t \in Send : t # s => calls'[t] = calls[t]
      BY <1>0, <1>2 DEF Connect
  <2>4. \A c \in Opened : conns'[c].lock = conns[c].lock
    <3>1. PICK V : conns' = Append(Closing({pool[q] : q \in V}), NewConnection(s))
        BY <1>2 DEF Connect
    <3> DEFINE C == {pool[q] : q \in V}
    <3>2. Closing(C) \in Seq(Connection) /\ Len(Closing(C)) = Len(conns)
        BY ClosingType, ConnsType DEF Opened
    <3>3. conns' = Append(Closing(C), NewConnection(s))
        BY <3>1
    <3> HIDE DEF C
    <3>4. \A c \in 1 .. Len(conns) : conns'[c] = Closing(C)[c]
        BY <3>2, <3>3
    <3> QED BY <3>4, ClosingType DEF Opened
  <2>5. conns'[n].lock = None
      BY <2>1 DEF NewConnection
  <2> HIDE DEF n
  <2>6. ASSUME NEW c \in Opened', NEW t \in Send
        PROVE  (conns'[c].lock = t) <=> (calls'[t].at = "draining" /\ calls'[t].conn = c)
    <3>1. CASE c = n
        BY <1>0, <2>1, <2>2, <2>3, <2>5, <3>1
    <3>2. CASE c \in Opened
        BY <2>2, <2>3, <2>4, <3>2 DEF LockIsDrain
    <3> QED BY <2>1, <3>1, <3>2
  <2> QED BY <2>6 DEF LockIsDrain
<1>3. ASSUME NEW s \in Send, Write(s) PROVE LockIsDrain'
  <2> DEFINE d == calls[s].conn
  <2>1. /\ d \in Opened
        /\ conns[d].lock = None
        /\ calls[s].at = "locking"
        /\ conns' = [conns EXCEPT ![d].lock = s]
      BY <1>3 DEF Write, Engaged
  <2>2. PICK w \in BOOLEAN : calls' = [calls EXCEPT ![s].at = "draining", ![s].wrote = w]
      BY <1>3 DEF Write
  <2>3. /\ calls'[s].at = "draining" /\ calls'[s].conn = d
        /\ \A t \in Send : t # s => calls'[t] = calls[t]
      BY <1>0, <2>2 DEF CallState
  <2>4. /\ Opened' = Opened
        /\ \A c \in Opened : conns'[c].lock = IF c = d THEN s ELSE conns[c].lock
      BY <2>1, ConnsType DEF Connection, Opened
  <2> HIDE DEF d
  <2>5. ASSUME NEW c \in Opened, NEW t \in Send
        PROVE  (conns'[c].lock = t) <=> (calls'[t].at = "draining" /\ calls'[t].conn = c)
      BY <1>0, <2>1, <2>3, <2>4 DEF LockIsDrain
  <2> QED BY <2>4, <2>5 DEF LockIsDrain
<1>4. ASSUME NEW s \in Send, DrainSucceeds(s) \/ DrainFails(s) PROVE LockIsDrain'
  <2> DEFINE d == calls[s].conn
  <2>1. d \in Opened /\ calls[s].at = "draining"
      BY <1>4 DEF DrainSucceeds, DrainFails, Engaged
  <2>2. /\ calls'[s].at # "draining"
        /\ \A t \in Send : t # s => calls'[t] = calls[t]
      BY <1>0, <1>4 DEF DrainSucceeds, DrainFails, Returned, Uncalled, CallState
  <2>3. /\ Opened' = Opened
        /\ \A c \in Opened : conns'[c].lock = IF c = d THEN None ELSE conns[c].lock
    <3>1. CASE DrainSucceeds(s)
      <4>1. conns' = [conns EXCEPT ![d].lock = None, ![d].stale = FALSE]
          BY <3>1 DEF DrainSucceeds
      <4> QED BY <2>1, <4>1, ConnsType DEF Connection, Opened
    <3>2. CASE DrainFails(s)
      <4> DEFINE f == Closing({d})
      <4>1. conns' = [f EXCEPT ![d].lock = None]
          BY <3>2 DEF DrainFails
      <4>2. /\ f \in [Opened -> Connection]
            /\ \A c \in Opened : f[c].lock = conns[c].lock
          BY ClosingType
      <4> HIDE DEF f
      <4>3. \A c \in Opened : conns'[c].lock = IF c = d THEN None ELSE conns[c].lock
          BY <2>1, <4>1, <4>2 DEF Connection
      <4>4. Len(conns') = Len(conns)
          BY <4>1, <4>2, ConnsType DEF Opened
      <4> QED BY <4>3, <4>4 DEF Opened
    <3> QED BY <1>4, <3>1, <3>2
  <2> HIDE DEF d
  <2>4. \A c \in Opened : (conns[c].lock = s) <=> (c = d)
      BY <2>1 DEF LockIsDrain, d
  <2>5. ASSUME NEW c \in Opened, NEW t \in Send
        PROVE  (conns'[c].lock = t) <=> (calls'[t].at = "draining" /\ calls'[t].conn = c)
      BY <1>0, <2>1, <2>2, <2>3, <2>4 DEF LockIsDrain
  <2> QED BY <2>3, <2>5 DEF LockIsDrain
<1>5. ASSUME NEW s \in Send, Cancel(s) PROVE LockIsDrain'
  <2>1. conns' = [c \in Opened |-> IF conns[c].lock = s
                                   THEN [conns[c] EXCEPT !.lock = None] ELSE conns[c]]
      BY <1>5 DEF Cancel
  <2>2. /\ Opened' = Opened
        /\ \A c \in Opened : conns'[c].lock = IF conns[c].lock = s THEN None ELSE conns[c].lock
      BY <2>1, ConnsType DEF Connection, Opened
  <2>3. /\ calls'[s].at # "draining"
        /\ \A t \in Send : t # s => calls'[t] = calls[t]
      BY <1>0, <1>5 DEF Cancel, Returned, Uncalled
  <2>4. ASSUME NEW c \in Opened, NEW t \in Send
        PROVE  (conns'[c].lock = t) <=> (calls'[t].at = "draining" /\ calls'[t].conn = c)
      BY <1>0, <2>2, <2>3 DEF LockIsDrain
  <2> QED BY <2>2, <2>4 DEF LockIsDrain
<1>6. ASSUME NEW s \in Send, Retry(s) \/ Refuse(s) \/ ConnectFails(s) PROVE LockIsDrain'
  <2>1. calls[s].at # "draining" /\ calls'[s].at # "draining"
      BY <1>0, <1>6 DEF Retry, Refuse, ConnectFails, Returned, Uncalled, CallState
  <2>2. \A t \in Send : t # s => calls'[t] = calls[t]
      BY <1>0, <1>6 DEF Retry, Refuse, ConnectFails, Returned
  <2>3. conns' = conns
      BY <1>6 DEF Retry, Refuse, ConnectFails
  <2> QED BY <2>1, <2>2, <2>3, LocksKept DEF Opened
<1>7. ASSUME NEW C, conns' = Closing(C), UNCHANGED calls PROVE LockIsDrain'
    BY <1>7, ClosingType, ClosingEvolves, LocksKept
<1>8. ASSUME NEW d \in Opened, NEW e, e.lock = conns[d].lock,
             conns' = [conns EXCEPT ![d] = e], UNCHANGED calls
      PROVE  LockIsDrain'
  <2>1. /\ Opened' = Opened
        /\ \A c \in Opened : conns'[c].lock = conns[c].lock
      BY <1>8, ConnsType DEF Opened
  <2> QED BY <1>8, <2>1, LocksKept
<1>9. ASSUME NEW p \in Peer, Expire(p) PROVE LockIsDrain'
  <2> DEFINE d == pool[p]
             e == [conns[d] EXCEPT !.stale = TRUE]
  <2>1. d \in Opened /\ conns[d] \in Connection
      BY <1>9, ConnsType DEF Expire, Pooled, TypeOK
  <2>2. e.lock = conns[d].lock
      BY <2>1 DEF Connection
  <2>3. conns' = [conns EXCEPT ![d] = e] /\ UNCHANGED calls
      BY <1>9 DEF Expire
  <2> HIDE DEF d, e
  <2> QED BY <1>8, <2>1, <2>2, <2>3
<1>10. ASSUME NEW p \in Peer, Notice(p) PROVE LockIsDrain'
  <2> DEFINE d == pool[p]
             e == [conns[d] EXCEPT !.link = "eof"]
  <2>1. d \in Opened /\ conns[d] \in Connection
      BY <1>10, ConnsType DEF Notice, Pooled, TypeOK
  <2>2. e.lock = conns[d].lock
      BY <2>1 DEF Connection
  <2>3. conns' = [conns EXCEPT ![d] = e] /\ UNCHANGED calls
      BY <1>10 DEF Notice
  <2> HIDE DEF d, e
  <2> QED BY <1>8, <2>1, <2>2, <2>3
<1>11. ASSUME NEW d \in Opened, HangUp(d) PROVE LockIsDrain'
  <2> DEFINE link == IF conns[d].link = "open" THEN "dead" ELSE conns[d].link
             e == [conns[d] EXCEPT !.link = link, !.cut = TRUE]
  <2>1. conns[d] \in Connection
      BY ConnsType
  <2>2. e.lock = conns[d].lock
      BY <2>1 DEF Connection
  <2>3. conns' = [conns EXCEPT ![d] = e] /\ UNCHANGED calls
      BY <1>11 DEF HangUp
  <2> HIDE DEF link, e
  <2> QED BY <1>8, <2>2, <2>3
<1>12. ASSUME UNCHANGED <<conns, calls>> PROVE LockIsDrain'
    BY <1>12, LocksKept DEF Opened
<1> QED
    BY <1>1, <1>2, <1>3, <1>4, <1>5, <1>6, <1>7, <1>9, <1>10, <1>11, <1>12
    DEF Next, Attempt, EvictStale, Stop, StopNext, StopEnds, StopRaises, Start, vars

(* Frames are never interleaved on a connection, and no call waits in a    *)
(* circle: the write lock that one waits for is held by another one that   *)
(* is in its drain, and so by one whose wait a timeout ends.               *)
THEOREM WritersExclude == Spec => [](OneWriter /\ WaitsForDrain)
<1>1. Init => LockIsDrain
    BY DEF Init, LockIsDrain, Opened
<1>2. IInv /\ LockIsDrain /\ [Next]_vars => LockIsDrain'
    BY StepLocks
<1>3. IInv /\ LockIsDrain => OneWriter /\ WaitsForDrain
  <2> SUFFICES ASSUME IInv, LockIsDrain PROVE OneWriter /\ WaitsForDrain
      OBVIOUS
  <2>1. OneWriter
      BY DEF OneWriter, LockIsDrain, IInv, Engaged
  <2>2. ASSUME NEW s \in Send, calls[s].at = "locking", conns[calls[s].conn].lock # None
        PROVE  \E t \in Send \ {s} : /\ conns[calls[s].conn].lock = t
                                     /\ calls[t].at = "draining"
                                     /\ calls[t].conn = calls[s].conn
    <3>1. calls[s].conn \in Opened
        BY <2>2 DEF IInv, Engaged
    <3>2. conns[calls[s].conn].lock \in Send
        BY <2>2, <3>1, ConnsType DEF IInv, Connection
    <3> QED BY <2>2, <3>1, <3>2 DEF LockIsDrain
  <2> QED BY <2>1, <2>2 DEF WaitsForDrain
<1> QED BY <1>1, <1>2, <1>3, Inductive, PTL DEF Spec

-----------------------------------------------------------------------------
(* Addresses. *)

PoolAddressed == \A p \in Pooled : conns[pool[p]].peer = p

CallAddressed ==
    \A s \in Send :
        calls[s].at \in {"locking", "draining", "closing"}
            => conns[calls[s].conn].peer = calls[s].peer

(* The frame of a call, with its retry, is only ever given to connections  *)
(* to one peer, and while the call lasts that is the peer it is for.       *)
FrameAddressed ==
    \A s \in Send : \A c \in wire[s] :
        /\ calls[s].at # "uncalled"
        /\ calls[s].at \in Awaiting => conns[c].peer = calls[s].peer
        /\ \A d \in wire[s] : conns[c].peer = conns[d].peer

LEMMA StepPoolAddressed ==
    ASSUME IInv, PoolAddressed, Evolves, [Next]_vars
    PROVE  PoolAddressed'
<1> USE DEF IInv
<1>1. SUFFICES ASSUME NEW p \in Pooled' PROVE conns'[pool'[p]].peer = p
    BY DEF PoolAddressed
<1>2. pool \in [Peer -> Opened \cup {None}] /\ p \in Peer /\ pool'[p] # None
    BY DEF TypeOK, Pooled
<1>3. ASSUME pool'[p] = pool[p] PROVE conns'[pool'[p]].peer = p
  <2>1. p \in Pooled /\ pool[p] \in Opened
      BY <1>2, <1>3 DEF Pooled
  <2> QED BY <1>3, <2>1 DEF PoolAddressed, Evolves
<1>4. ASSUME NEW s \in Send, Connect(s) PROVE conns'[pool'[p]].peer = p
  <2>1. PICK V : pool' = [q \in Peer |-> IF q = calls[s].peer THEN Len(conns) + 1 ELSE
                                         IF q \in V THEN None ELSE pool[q]]
      BY <1>4 DEF Connect
  <2>2. CASE p = calls[s].peer
    <3>1. conns'[pool'[p]] = NewConnection(s)
        BY <1>2, <1>4, <2>1, <2>2, ConnectEvolves
    <3> QED BY <2>2, <3>1 DEF NewConnection
  <2>3. CASE p # calls[s].peer
      BY <1>2, <1>3, <2>1, <2>3
  <2> QED BY <2>2, <2>3
<1>5. ASSUME NEW q, pool' = [pool EXCEPT ![q] = None] PROVE conns'[pool'[p]].peer = p
    BY <1>2, <1>3, <1>5
<1>6. CASE EvictStale \/ StopEnds
    BY <1>2, <1>3, <1>6 DEF EvictStale, StopEnds
<1>7. ASSUME UNCHANGED pool PROVE conns'[pool'[p]].peer = p
    BY <1>3, <1>7
<1> QED
    BY <1>4, <1>5, <1>6, <1>7
    DEF Next, Attempt, Refuse, Call, ConnectFails, Write, DrainSucceeds, DrainFails, Retry,
        Cancel, Expire, Stop, StopNext, StopRaises, Start, HangUp, Notice, vars

LEMMA StepCallAddressed ==
    ASSUME IInv, PoolAddressed, CallAddressed, Evolves, [Next]_vars
    PROVE  CallAddressed'
<1> USE DEF IInv
<1>1. SUFFICES ASSUME NEW t \in Send, calls'[t].at \in {"locking", "draining", "closing"}
               PROVE  conns'[calls'[t].conn].peer = calls'[t].peer
    BY DEF CallAddressed
<1> DEFINE Right == conns'[calls'[t].conn].peer = calls'[t].peer
<1>2. calls \in [Send -> CallState]
    BY DEF TypeOK
<1>3. ASSUME calls[t].at \in {"locking", "draining", "closing"},
             calls'[t].conn = calls[t].conn, calls'[t].peer = calls[t].peer
      PROVE  Right
  <2>1. calls[t].conn \in Opened
      BY <1>3 DEF Engaged
  <2> QED BY <1>3, <2>1 DEF CallAddressed, Evolves
<1>4. ASSUME calls'[t] = calls[t] PROVE Right
    BY <1>1, <1>3, <1>4
<1>5. ASSUME NEW s \in Send, NEW p \in Peer, Call(s, p) PROVE Right
  <2>1. CASE s # t
      BY <1>2, <1>4, <1>5, <2>1 DEF Call
  <2>2. CASE s = t
    <3>1. CASE p \in Pooled /\ calls' = [calls EXCEPT ![s].at = "locking", ![s].peer = p,
                                                      ![s].conn = pool[p]]
      <4>1. calls'[t].conn = pool[p] /\ calls'[t].peer = p
          BY <1>2, <2>2, <3>1 DEF CallState
      <4>2. pool[p] \in Opened /\ conns[pool[p]].peer = p
          BY <3>1 DEF PoolAddressed, Pooled, TypeOK
      <4> QED BY <4>1, <4>2 DEF Evolves
    <3>2. CASE calls' = [calls EXCEPT ![s].at = "opening", ![s].peer = p]
        BY <1>1, <1>2, <2>2, <3>2 DEF CallState
    <3> QED BY <1>5, <3>1, <3>2 DEF Call
  <2> QED BY <2>1, <2>2
<1>6. ASSUME NEW s \in Send, Connect(s) PROVE Right
  <2>1. CASE s # t
      BY <1>2, <1>4, <1>6, <2>1 DEF Connect
  <2>2. CASE s = t
    <3>1. calls'[t].conn = Len(conns) + 1 /\ calls'[t].peer = calls[s].peer
        BY <1>2, <1>6, <2>2 DEF Connect, CallState
    <3>2. conns'[Len(conns) + 1] = NewConnection(s)
        BY <1>6, ConnectEvolves
    <3> QED BY <3>1, <3>2 DEF NewConnection
  <2> QED BY <2>1, <2>2
<1>7. ASSUME NEW s \in Send, Write(s) PROVE Right
  <2>1. PICK w \in BOOLEAN : calls' = [calls EXCEPT ![s].at = "draining", ![s].wrote = w]
      BY <1>7 DEF Write
  <2>2. calls[s].at = "locking"
      BY <1>7 DEF Write
  <2>3. CASE s # t
      BY <1>2, <1>4, <2>1, <2>3
  <2>4. CASE s = t
    <3>1. calls'[t].conn = calls[t].conn /\ calls'[t].peer = calls[t].peer
        BY <1>2, <2>1, <2>4 DEF CallState
    <3> QED BY <1>3, <2>2, <2>4, <3>1
  <2> QED BY <2>3, <2>4
<1>8. ASSUME NEW s \in Send, DrainFails(s) PROVE Right
  <2>1. CASE s # t
      BY <1>2, <1>4, <1>8, <2>1 DEF DrainFails
  <2>2. CASE s = t
    <3>1. /\ calls[t].at = "draining"
          /\ calls'[t].conn = calls[t].conn /\ calls'[t].peer = calls[t].peer
        BY <1>2, <1>8, <2>2 DEF DrainFails, CallState
    <3> QED BY <1>3, <3>1
  <2> QED BY <2>1, <2>2
<1>9. ASSUME NEW s \in Send,
             DrainSucceeds(s) \/ Retry(s) \/ Refuse(s) \/ ConnectFails(s) \/ Cancel(s)
      PROVE  Right
  <2>1. calls'[s].at \notin {"locking", "draining", "closing"}
      BY <1>2, <1>9 DEF DrainSucceeds, Retry, Refuse, ConnectFails, Cancel, Returned,
                        Uncalled, CallState
  <2>2. s # t
      BY <1>1, <2>1
  <2> QED BY <1>2, <1>4, <1>9, <2>2
          DEF DrainSucceeds, Retry, Refuse, ConnectFails, Cancel, Returned
<1>10. ASSUME UNCHANGED calls PROVE Right
    BY <1>4, <1>10
<1> HIDE DEF Right
<1>11. Right
    BY <1>5, <1>6, <1>7, <1>8, <1>9, <1>10
    DEF Next, Attempt, EvictStale, Expire, Stop, StopNext, StopEnds, StopRaises, Start, HangUp,
        Notice, vars
<1> QED BY <1>11 DEF Right

LEMMA StepFrameAddressed ==
    ASSUME IInv, CallAddressed, FrameAddressed, Evolves, [Next]_vars
    PROVE  FrameAddressed'
<1> USE DEF IInv
<1>2. /\ calls \in [Send -> CallState]
      /\ wire \in [Send -> SUBSET Opened]
    BY DEF TypeOK
<1>3. ASSUME NEW t \in Send, wire'[t] \subseteq wire[t],
             calls'[t].at = "uncalled" => calls[t].at = "uncalled",
             calls'[t].at \in Awaiting =>
                \/ calls[t].at = "uncalled"
                \/ calls[t].at \in Awaiting /\ calls'[t].peer = calls[t].peer,
             NEW c \in wire'[t]
      PROVE  /\ calls'[t].at # "uncalled"
             /\ calls'[t].at \in Awaiting => conns'[c].peer = calls'[t].peer
             /\ \A d \in wire'[t] : conns'[c].peer = conns'[d].peer
  <2>1. c \in wire[t] /\ wire[t] \subseteq Opened
      BY <1>2, <1>3
  <2>2. \A d \in wire[t] : conns'[d].peer = conns[d].peer
      BY <2>1 DEF Evolves
  <2>3. calls[t].at # "uncalled"
      BY <2>1 DEF FrameAddressed
  <2>4. calls'[t].at \in Awaiting => conns'[c].peer = calls'[t].peer
      BY <1>3, <2>1, <2>2, <2>3 DEF FrameAddressed
  <2>5. \A d \in wire[t] : conns[c].peer = conns[d].peer
      BY <2>1 DEF FrameAddressed
  <2> QED BY <1>3, <2>1, <2>2, <2>3, <2>4, <2>5
<1> DEFINE Mild(t) == /\ wire'[t] \subseteq wire[t]
                      /\ calls'[t].at = "uncalled" => calls[t].at = "uncalled"
                      /\ calls'[t].at \in Awaiting =>
                            \/ calls[t].at = "uncalled"
                            \/ calls[t].at \in Awaiting /\ calls'[t].peer = calls[t].peer
<1>4. ASSUME \A t \in Send : Mild(t) PROVE FrameAddressed'
    BY <1>3, <1>4 DEF FrameAddressed
<1>5. ASSUME NEW s \in Send, Write(s) PROVE FrameAddressed'
  <2> DEFINE d == calls[s].conn
  <2>1. /\ d \in Opened /\ calls[s].at = "locking"
        /\ conns[d].peer = calls[s].peer
      BY <1>5 DEF Write, Engaged, CallAddressed
  <2>2. PICK w \in BOOLEAN : calls' = [calls EXCEPT ![s].at = "draining", ![s].wrote = w]
      BY <1>5 DEF Write
  <2>3. /\ calls'[s].at = "draining" /\ calls'[s].peer = calls[s].peer
        /\ \A t \in Send : t # s => calls'[t] = calls[t]
      BY <1>2, <2>2 DEF CallState
  <2>4. wire' = [wire EXCEPT ![s] = @ \cup {d}] \/ wire' = wire
      BY <1>5 DEF Write
  <2>5. /\ wire'[s] \subseteq wire[s] \cup {d}
        /\ \A t \in Send : t # s => wire'[t] = wire[t]
      BY <1>2, <2>4
  <2>6. \A c \in wire[s] \cup {d} : conns'[c].peer = calls[s].peer
    <3>1. \A c \in wire[s] : conns[c].peer = calls[s].peer
        BY <2>1 DEF FrameAddressed, Awaiting
    <3> QED BY <1>2, <2>1, <3>1 DEF Evolves
  <2>7. ASSUME NEW t \in Send, NEW c \in wire'[t]
        PROVE  /\ calls'[t].at # "uncalled"
               /\ calls'[t].at \in Awaiting => conns'[c].peer = calls'[t].peer
               /\ \A e \in wire'[t] : conns'[c].peer = conns'[e].peer
    <3>1. CASE t = s
        BY <2>3, <2>5, <2>6, <2>7, <3>1
    <3>2. CASE t # s
        BY <1>3, <2>3, <2>5, <2>7, <3>2
    <3> QED BY <3>1, <3>2
  <2> QED BY <2>7 DEF FrameAddressed
<1>6. ASSUME NEW s \in Send, wire' = wire, \A t \in Send : t # s => calls'[t] = calls[t],
             calls'[s].at # "uncalled",
             calls'[s].at \in Awaiting =>
                \/ calls[s].at = "uncalled"
                \/ calls[s].at \in Awaiting /\ calls'[s].peer = calls[s].peer
      PROVE  FrameAddressed'
    BY <1>4, <1>6
<1>7. ASSUME NEW s \in Send, NEW p \in Peer, Call(s, p) PROVE FrameAddressed'
  <2>1. calls[s].at = "uncalled" /\ wire' = wire
      BY <1>7 DEF Call, remote
  <2>2. calls'[s].at \in {"locking", "opening"}
      BY <1>2, <1>7 DEF Call, CallState
  <2>3. \A t \in Send : t # s => calls'[t] = calls[t]
      BY <1>2, <1>7 DEF Call
  <2> QED BY <1>6, <2>1, <2>2, <2>3
<1>8. ASSUME NEW s \in Send, Connect(s) \/ DrainFails(s) \/ Retry(s) PROVE FrameAddressed'
  <2>1. wire' = wire /\ calls[s].at \in Awaiting
      BY <1>8 DEF Connect, DrainFails, Retry, remote, Awaiting
  <2>2. /\ calls'[s].at # "uncalled"
        /\ calls'[s].at \in Awaiting => calls'[s].peer = calls[s].peer
      BY <1>2, <1>8 DEF Connect, DrainFails, Retry, Returned, Uncalled, CallState, Awaiting
  <2>3. \A t \in Send : t # s => calls'[t] = calls[t]
      BY <1>2, <1>8 DEF Connect, DrainFails, Retry, Returned
  <2> QED BY <1>6, <2>1, <2>2, <2>3
<1>9. ASSUME NEW s \in Send, DrainSucceeds(s) \/ Refuse(s) \/ ConnectFails(s) \/ Cancel(s)
      PROVE  FrameAddressed'
  <2>1. wire' = wire
      BY <1>9 DEF DrainSucceeds, Refuse, ConnectFails, Cancel, remote
  <2>2. calls'[s].at \in {"true", "false", "cancelled"}
      BY <1>2, <1>9 DEF DrainSucceeds, Refuse, ConnectFails, Cancel, Returned, Uncalled
  <2>3. \A t \in Send : t # s => calls'[t] = calls[t]
      BY <1>2, <1>9 DEF DrainSucceeds, Refuse, ConnectFails, Cancel, Returned
  <2>4. calls'[s].at # "uncalled" /\ calls'[s].at \notin Awaiting
      BY <2>2 DEF Awaiting
  <2> QED BY <1>6, <2>1, <2>3, <2>4
<1>10. ASSUME NEW c \in Opened, HangUp(c) PROVE FrameAddressed'
  <2>1. calls' = calls /\ \A t \in Send : wire'[t] \subseteq wire[t]
      BY <1>10 DEF HangUp
  <2> QED BY <1>4, <2>1
<1>11. ASSUME UNCHANGED <<calls, wire>> PROVE FrameAddressed'
    BY <1>4, <1>11
<1> QED
    BY <1>5, <1>7, <1>8, <1>9, <1>10, <1>11
    DEF Next, Attempt, EvictStale, Expire, Stop, StopNext, StopEnds, StopRaises, Start, Notice,
        vars, remote

(* No frame goes astray: although the pool's entries are replaced, evicted *)
(* and dropped while calls hold them, a call writes to connections of its  *)
(* own peer only, at the first attempt and at the second.                  *)
THEOREM FramesReachTheirPeer ==
    Spec => [](PoolAddressed /\ CallAddressed /\ FrameAddressed)
<1> DEFINE Addressed == PoolAddressed /\ CallAddressed /\ FrameAddressed
<1>1. Init => Addressed
    BY DEF Init, PoolAddressed, CallAddressed, FrameAddressed, Pooled, Uncalled
<1>2. IInv /\ Addressed /\ [Next]_vars => Addressed'
  <2> SUFFICES ASSUME IInv, Addressed, [Next]_vars PROVE Addressed'
      OBVIOUS
  <2>1. Evolves
      BY StepEvolves DEF IInv
  <2> QED BY <2>1, StepPoolAddressed, StepCallAddressed, StepFrameAddressed
<1> QED BY <1>1, <1>2, Inductive, PTL DEF Spec

-----------------------------------------------------------------------------
(* Termination of a call, up to fairness. *)

Stage == [opening |-> 4, locking |-> 3, draining |-> 2, closing |-> 1]

(* How many steps of its own a call in progress may have before it.        *)
StepsLeft(s) == 4 * (2 - calls[s].attempt) + Stage[calls[s].at]

(* What is left to do for a call only shrinks.                             *)
CallsCountDown ==
    \A s \in Send :
        calls[s].at \in Awaiting /\ calls'[s] # calls[s] =>
            \/ calls'[s].at \in {"true", "false", "cancelled"}
            \/ calls'[s].at \in Awaiting /\ StepsLeft(s)' < StepsLeft(s)

(* No call goes on for ever by itself: each of its steps brings it nearer  *)
(* to its end, no step of another call, of the pool or of stop() takes it  *)
(* back, and eight steps are enough.                                       *)
THEOREM CallsAreFinite ==
    Spec => /\ [](\A s \in Send : calls[s].at \in Awaiting => StepsLeft(s) \in 1 .. 8)
            /\ [][CallsCountDown]_vars
<1>1. IInv => \A s \in Send : calls[s].at \in Awaiting => StepsLeft(s) \in 1 .. 8
    BY DEF IInv, TypeOK, CallState, StepsLeft, Stage, Awaiting
<1>2. IInv /\ [Next]_vars => [CallsCountDown]_vars
  <2> SUFFICES ASSUME IInv, Next, NEW s \in Send,
                      calls[s].at \in Awaiting, calls'[s] # calls[s]
               PROVE  \/ calls'[s].at \in {"true", "false", "cancelled"}
                      \/ calls'[s].at \in Awaiting /\ StepsLeft(s)' < StepsLeft(s)
      BY DEF CallsCountDown
  <2>0. calls \in [Send -> CallState] /\ calls[s] \in CallState
      BY DEF IInv, TypeOK
  <2> DEFINE Ends == calls'[s].at \in {"true", "false", "cancelled"}
             Nearer == calls'[s].at \in Awaiting /\ StepsLeft(s)' < StepsLeft(s)
  <2>1. ASSUME NEW t \in Send, \E p \in Peer : Call(t, p) PROVE FALSE
    <3>1. calls[t].at = "uncalled" /\ \A u \in Send : u # t => calls'[u] = calls[u]
        BY <2>0, <2>1 DEF Call
    <3> QED BY <3>1 DEF Awaiting
  <2>2. ASSUME NEW t \in Send, Refuse(t) \/ ConnectFails(t) \/ Cancel(t) \/ DrainSucceeds(t)
        PROVE  Ends
    <3>1. /\ calls'[t].at \in {"true", "false", "cancelled"}
          /\ \A u \in Send : u # t => calls'[u] = calls[u]
        BY <2>0, <2>2 DEF Refuse, ConnectFails, Cancel, DrainSucceeds, Returned, Uncalled
    <3> QED BY <3>1
  <2>3. ASSUME NEW t \in Send, Connect(t) PROVE Nearer
    <3>1. t = s
        BY <2>0, <2>3 DEF Connect
    <3>2. /\ calls[s].at = "opening" /\ calls'[s].at = "locking"
          /\ calls'[s].attempt = calls[s].attempt
        BY <2>0, <2>3, <3>1 DEF Connect, CallState
    <3> QED BY <2>0, <3>2 DEF CallState, StepsLeft, Stage, Awaiting
  <2>4. ASSUME NEW t \in Send, Write(t) PROVE Nearer
    <3>1. PICK w \in BOOLEAN : calls' = [calls EXCEPT ![t].at = "draining", ![t].wrote = w]
        BY <2>4 DEF Write
    <3>2. t = s
        BY <2>0, <3>1
    <3>3. /\ calls[s].at = "locking" /\ calls'[s].at = "draining"
          /\ calls'[s].attempt = calls[s].attempt
        BY <2>0, <2>4, <3>1, <3>2 DEF Write, CallState
    <3> QED BY <2>0, <3>3 DEF CallState, StepsLeft, Stage, Awaiting
  <2>5. ASSUME NEW t \in Send, DrainFails(t) PROVE Nearer
    <3>1. t = s
        BY <2>0, <2>5 DEF DrainFails
    <3>2. /\ calls[s].at = "draining" /\ calls'[s].at = "closing"
          /\ calls'[s].attempt = calls[s].attempt
        BY <2>0, <2>5, <3>1 DEF DrainFails, CallState
    <3> QED BY <2>0, <3>2 DEF CallState, StepsLeft, Stage, Awaiting
  <2>6. ASSUME NEW t \in Send, Retry(t) PROVE Ends \/ Nearer
    <3>1. t = s
        BY <2>0, <2>6 DEF Retry, Returned
    <3>2. CASE calls[s].attempt = 1
      <4>1. /\ calls[s].at = "closing" /\ calls'[s].at = "opening"
            /\ calls'[s].attempt = 2
          BY <2>0, <2>6, <3>1, <3>2 DEF Retry, CallState
      <4> QED BY <3>2, <4>1 DEF StepsLeft, Stage, Awaiting
    <3>3. CASE calls[s].attempt # 1
        BY <2>0, <2>6, <3>1, <3>3 DEF Retry, Returned, Uncalled
    <3> QED BY <3>2, <3>3
  <2> HIDE DEF Ends, Nearer
  <2>7. Ends \/ Nearer
      BY <2>1, <2>2, <2>3, <2>4, <2>5, <2>6
      DEF Next, Attempt, EvictStale, Expire, Stop, StopNext, StopEnds, StopRaises, Start, HangUp,
          Notice
  <2> QED BY <2>7 DEF Ends, Nearer
<1> QED BY <1>1, <1>2, Inductive, PTL DEF Spec
=============================================================================
