-------------------------- MODULE FleetProxyProofs --------------------------
(* Theorems about FleetProxy, for any requests, nodes, threads and limits. *)
EXTENDS FleetProxy, FiniteSetTheorems, SequenceTheorems, TLAPS

Calls == [at : Stages, client : {"here", "gone"}, stream : BOOLEAN,
          backend : Backend \cup {None}, counted : Node \cup {None},
          asked : SUBSET Backend, failed : BOOLEAN]

Pipes == [job : {"none", "queued", "asking", "read", "line", "error", "eof"},
          read : 0 .. MaxLines, taken : Nat, queue : Seq({"line", "error", "eof"})]

(* A queue within its limit. *)
Fits(p) == Len(p.queue) <= QUEUE_MAX

-----------------------------------------------------------------------------
(* Types. *)

LEMMA NewIsCall == New \in Calls /\ New.client = "here" /\ [New EXCEPT !.at = "over"] \in Calls
BY DEF New, Calls, Stages

LEMMA IdleIsPipe ==
    /\ Idle \in Pipes /\ Fits(Idle)
    /\ \A j \in {"none", "queued", "asking", "read"} :
          [Idle EXCEPT !.job = j] \in Pipes /\ Fits([Idle EXCEPT !.job = j])
<1>1. Idle \in Pipes
  <2>1. <<>> \in Seq({"line", "error", "eof"}) /\ 0 \in 0 .. MaxLines
    BY ProxyAssumption DEF ProxyAssumption
  <2> QED
    BY <2>1 DEF Idle, Pipes
<1>2. ASSUME NEW j \in {"none", "queued", "asking", "read"}
      PROVE  [Idle EXCEPT !.job = j] \in Pipes /\ [Idle EXCEPT !.job = j].queue = <<>>
  BY <1>1 DEF Pipes, Idle
<1>3. Len(<<>>) <= QUEUE_MAX
  BY ProxyAssumption DEF ProxyAssumption
<1>4. Idle.queue = <<>>
  BY DEF Idle
<1> QED
  BY <1>1, <1>2, <1>3, <1>4 DEF Fits

(* A request that moves to another stage stays a request. *)
LEMMA MovedType ==
    ASSUME call \in [Request -> Calls], NEW r \in Request, NEW to \in Stages
    PROVE  Moved(r, to) \in [Request -> Calls]
<1>1. call[r] \in Calls
  OBVIOUS
<1>2. [call[r] EXCEPT !.at = to] \in Calls
  BY <1>1 DEF Calls
<1> QED
  BY <1>2 DEF Moved

(* Whatever is sent, it is a list of what can be written. *)
LEMMA SendsType ==
    ASSUME out \in [Request -> Seq(Written)], NEW r \in Request,
           NEW items \in Seq(Written), Sends(r, items)
    PROVE  out' \in [Request -> Seq(Written)]
<1>1. out[r] \o items \in Seq(Written)
  OBVIOUS
<1> QED
  BY <1>1 DEF Sends

(* The lists that are ever sent. *)
LEMMA ItemsType ==
    /\ <<"response">> \in Seq(Written) /\ <<"head">> \in Seq(Written)
    /\ <<"line">> \in Seq(Written) /\ <<"error", "done">> \in Seq(Written)
BY DEF Written

(* A count stays a count. *)
LEMMA ReleasedType ==
    ASSUME counts \in [Node -> Nat], NEW n
    PROVE  Released(n) \in [Node -> Nat]
BY DEF Released

TypeParts ==
    /\ usable \in BOOLEAN
    /\ counts \in [Node -> Nat]
    /\ call \in [Request -> Calls]
    /\ pipe \in [Request -> Pipes]
    /\ \A r \in Request : Fits(pipe[r])
    /\ jobs \in Seq(Request)
    /\ out \in [Request -> Seq(Written)]

LEMMA SameTypes == TypeOK <=> TypeParts
BY DEF TypeOK, TypeParts, Calls, Pipes, Fits

(* A pipe that changes at one request, for one that is a pipe. *)
LEMMA PipeType ==
    ASSUME TypeParts, NEW r \in Request, NEW p \in Pipes, Fits(p)
    PROVE  /\ [pipe EXCEPT ![r] = p] \in [Request -> Pipes]
           /\ \A q \in Request : Fits([pipe EXCEPT ![r] = p][q])
BY DEF TypeParts

LEMMA CallType ==
    ASSUME TypeParts, NEW r \in Request, NEW c \in Calls
    PROVE  [call EXCEPT ![r] = c] \in [Request -> Calls]
BY DEF TypeParts

LEMMA TypeInit == Init => TypeParts
BY NewIsCall, IdleIsPipe DEF Init, TypeParts

(* A target that select() returns is a node. *)
LEMMA SelectedNode ==
    ASSUME NEW T \in SUBSET Node, NEW L \in SUBSET T, NEW n \in Selected(T, L) \ {None}
    PROVE  n \in Node
BY DEF Selected

LEMMA TypeRoute ==
    ASSUME TypeParts, NEW r \in Request, RouteToFleet(r) \/ RouteLocally(r) \/ Reject(r)
    PROVE  TypeParts'
<1>1. call[r] \in Calls
  BY DEF TypeParts
<1>2. CASE RouteToFleet(r)
  <2>1. PICK stream \in BOOLEAN, T \in SUBSET Node :
        \E L \in SUBSET T : \E n \in Selected(T, L) \ {None} :
          /\ counts' = Acquired(n)
          /\ call' = [call EXCEPT ![r].at = "starting", ![r].stream = stream,
                                 ![r].backend = n, ![r].counted = n]
    BY <1>2 DEF RouteToFleet
  <2>2. PICK n \in Node :
          /\ counts' = Acquired(n)
          /\ call' = [call EXCEPT ![r].at = "starting", ![r].stream = stream,
                                 ![r].backend = n, ![r].counted = n]
    BY <2>1, SelectedNode
  <2>3. counts' \in [Node -> Nat]
    BY <2>2 DEF TypeParts, Acquired
  <2>4. [call[r] EXCEPT !.at = "starting", !.stream = stream, !.backend = n, !.counted = n]
          \in Calls
    BY <1>1 DEF Calls, Stages, Backend
  <2>5. call' \in [Request -> Calls]
    BY <2>2, <2>4 DEF TypeParts
  <2> QED
    BY <1>2, <2>3, <2>5 DEF RouteToFleet, TypeParts
<1>3. CASE RouteLocally(r)
  <2>1. PICK stream \in BOOLEAN :
          call' = [call EXCEPT ![r].at = "starting", ![r].stream = stream, ![r].backend = Own]
    BY <1>3 DEF RouteLocally
  <2>2. [call[r] EXCEPT !.at = "starting", !.stream = stream, !.backend = Own] \in Calls
    BY <1>1 DEF Calls, Stages, Backend
  <2>3. call' \in [Request -> Calls]
    BY <2>1, <2>2 DEF TypeParts
  <2> QED
    BY <1>3, <2>3 DEF RouteLocally, TypeParts
<1>4. CASE Reject(r)
  <2>1. out' \in [Request -> Seq(Written)]
    BY <1>4, SendsType, ItemsType DEF Reject, TypeParts
  <2>2. call' \in [Request -> Calls]
    BY <1>1, <1>4 DEF Reject, TypeParts, Calls, Stages
  <2> QED
    BY <1>4, <2>1, <2>2 DEF Reject, TypeParts
<1> QED
  BY <1>2, <1>3, <1>4

(* A handler asks its backend. *)
LEMMA TypeAsk ==
    ASSUME TypeParts, NEW r \in Request, call[r].backend # None, Ask(r)
    PROVE  /\ call' \in [Request -> Calls]
           /\ pipe' \in [Request -> Pipes]
           /\ \A q \in Request : Fits(pipe'[q])
           /\ jobs' \in Seq(Request)
<1>1. call[r] \in Calls
  BY DEF TypeParts
<1>2. [call[r] EXCEPT !.at = "asking", !.asked = @ \cup {call[r].backend}] \in Calls
  BY <1>1 DEF Calls, Stages
<1>3. call' \in [Request -> Calls]
  BY <1>2 DEF Ask, TypeParts
<1>4. pipe' = [pipe EXCEPT ![r] = [Idle EXCEPT !.job = "queued"]]
  BY DEF Ask, Submitted
<1>5. [Idle EXCEPT !.job = "queued"] \in Pipes /\ Fits([Idle EXCEPT !.job = "queued"])
  BY IdleIsPipe
<1>6. jobs' \in Seq(Request)
  BY DEF Ask, TypeParts
<1> QED
  BY <1>3, <1>4, <1>5, <1>6, PipeType

(* A handler that returns. *)
LEMMA TypeReturns ==
    ASSUME TypeParts, NEW r \in Request, Returns(r)
    PROVE  /\ call' \in [Request -> Calls]
           /\ counts' \in [Node -> Nat]
           /\ pipe' \in [Request -> Pipes]
           /\ \A q \in Request : Fits(pipe'[q])
<1>1. call' \in [Request -> Calls]
  BY NewIsCall, CallType DEF Returns
<1>2. counts' \in [Node -> Nat]
  BY ReleasedType DEF Returns, TypeParts
<1> QED
  BY <1>1, <1>2, IdleIsPipe, PipeType DEF Returns

(* Every request past its first await has a backend to ask. *)
Targeted == \A r \in Request : call[r].at \in {"starting", "head"} => call[r].backend # None

LEMMA TypeBegin ==
    ASSUME TypeParts, Targeted, NEW r \in Request,
           Begin(r) \/ Untranslatable(r) \/ HeadDrained(r) \/ LineDrained(r) \/ Close(r)
    PROVE  TypeParts'
<1> \A to \in Stages : Moved(r, to) \in [Request -> Calls]
  BY MovedType DEF TypeParts
<1>1. CASE Begin(r)
  <2>1. CASE Ask(r) /\ UNCHANGED out
    BY <1>1, <2>1, TypeAsk DEF Begin, TypeParts, Targeted
  <2>2. CASE Sends(r, <<"response">>) /\ call' = Moved(r, "last") /\ UNCHANGED <<pipe, jobs>>
    <3>1. out' \in [Request -> Seq(Written)]
      BY <2>2, SendsType, ItemsType DEF TypeParts
    <3> QED
      BY <1>1, <2>2, <3>1 DEF Begin, TypeParts, Stages
  <2>3. CASE Sends(r, <<"head">>) /\ call' = Moved(r, "head") /\ UNCHANGED <<pipe, jobs>>
    <3>1. out' \in [Request -> Seq(Written)]
      BY <2>3, SendsType, ItemsType DEF TypeParts
    <3> QED
      BY <1>1, <2>3, <3>1 DEF Begin, TypeParts, Stages
  <2> QED
    BY <1>1, <2>1, <2>2, <2>3 DEF Begin
<1>2. CASE Untranslatable(r)
  BY <1>2 DEF Untranslatable, TypeParts, Stages
<1>3. CASE HeadDrained(r)
  BY <1>3, TypeAsk DEF HeadDrained, TypeParts, Targeted
<1>4. CASE LineDrained(r)
  BY <1>4 DEF LineDrained, TypeParts, Stages
<1>5. CASE Close(r)
  BY <1>5 DEF Close, TypeParts, Stages
<1> QED
  BY <1>1, <1>2, <1>3, <1>4, <1>5

LEMMA TypeAnswered ==
    ASSUME TypeParts, NEW r \in Request, Answered(r)
    PROVE  TypeParts'
<1>1. \A to \in Stages : Moved(r, to) \in [Request -> Calls]
  BY MovedType DEF TypeParts
<1>2. CASE /\ Sends(r, IF call[r].stream THEN <<"error", "done">> ELSE <<"response">>)
           /\ call' = Moved(r, "last")
           /\ pipe' = [pipe EXCEPT ![r] = Idle]
           /\ UNCHANGED jobs
  <2>1. out' \in [Request -> Seq(Written)]
    BY <1>2, SendsType, ItemsType DEF TypeParts
  <2>2. pipe' \in [Request -> Pipes] /\ \A q \in Request : Fits(pipe'[q])
    BY <1>2, IdleIsPipe, PipeType
  <2> QED
    BY Answered(r), <1>1, <1>2, <2>1, <2>2 DEF Answered, TypeParts, Stages
<1>3. CASE /\ call' = Moved(r, "taking")
           /\ pipe' = Submitted(r, "queued")
           /\ jobs' = Append(jobs, r)
           /\ UNCHANGED out
  <2>1. pipe' \in [Request -> Pipes] /\ \A q \in Request : Fits(pipe'[q])
    BY <1>3, IdleIsPipe, PipeType DEF Submitted
  <2>2. jobs' \in Seq(Request)
    BY <1>3 DEF TypeParts
  <2> QED
    BY Answered(r), <1>1, <1>3, <2>1, <2>2 DEF Answered, TypeParts, Stages
<1> QED
  BY <1>2, <1>3 DEF Answered

LEMMA TypeTake ==
    ASSUME TypeParts, NEW r \in Request, Take(r)
    PROVE  TypeParts'
<1> DEFINE t == IF Head(pipe[r].queue) = "line" THEN pipe[r].taken + 1 ELSE pipe[r].taken
           q == Tail(pipe[r].queue)
           p == [pipe[r] EXCEPT !.queue = q, !.taken = t]
<1>1. call[r] \in Calls /\ pipe[r] \in Pipes /\ Fits(pipe[r])
  BY DEF TypeParts
<1>2. pipe[r].queue \in Seq({"line", "error", "eof"}) /\ pipe[r].queue # <<>>
  BY <1>1 DEF Take, Pipes
<1>3. /\ q \in Seq({"line", "error", "eof"})
      /\ Len(q) < Len(pipe[r].queue)
      /\ Len(pipe[r].queue) \in Nat /\ Len(q) \in Nat
  BY <1>2
<1>t. t \in Nat
  BY <1>1 DEF Pipes
<1>6. pipe' = [pipe EXCEPT ![r] = p]
  BY DEF Take, TypeParts
<1> HIDE DEF q, t
<1>4. p \in Pipes /\ p.queue = q
  BY <1>1, <1>3, <1>t DEF Pipes
<1>5. Fits(p)
  BY <1>1, <1>3, <1>4, ProxyAssumption DEF Fits, ProxyAssumption
<1>7. pipe' \in [Request -> Pipes] /\ \A s \in Request : Fits(pipe'[s])
  BY <1>4, <1>5, <1>6, PipeType
<1>8. call' \in [Request -> Calls]
  <2>1. Moved(r, "draining") \in [Request -> Calls]
    BY MovedType DEF TypeParts, Stages
  <2>2. \A b \in BOOLEAN : [call[r] EXCEPT !.at = "closing", !.failed = b] \in Calls
    BY <1>1 DEF Calls, Stages
  <2>3. \A b \in BOOLEAN : [call EXCEPT ![r].at = "closing", ![r].failed = b] \in [Request -> Calls]
    BY <2>2 DEF TypeParts
  <2> QED
    BY <2>1, <2>3 DEF Take, TypeParts
<1>9. out' \in [Request -> Seq(Written)]
  BY SendsType, ItemsType DEF Take, TypeParts
<1> QED
  BY <1>7, <1>8, <1>9 DEF Take, TypeParts

LEMMA TypeEnds ==
    ASSUME TypeParts, NEW r \in Request, DrainRaises(r) \/ Join(r) \/ LastDrained(r) \/ Fail(r)
    PROVE  TypeParts'
<1>0. call[r] \in Calls
  BY DEF TypeParts
<1>m. \A to \in Stages : Moved(r, to) \in [Request -> Calls]
  BY MovedType DEF TypeParts
<1>1. CASE DrainRaises(r)
  <2>1. [call[r] EXCEPT !.at = "closing", !.failed = TRUE] \in Calls
    BY <1>0 DEF Calls, Stages
  <2>2. [call EXCEPT ![r].at = "closing", ![r].failed = TRUE] \in [Request -> Calls]
    BY <2>1 DEF TypeParts
  <2> QED
    BY <1>1, <1>m, <2>2 DEF DrainRaises, TypeParts, Stages
<1>2. CASE Join(r)
  <2>1. CASE /\ Sends(r, <<"error", "done">>) /\ call' = Moved(r, "last")
             /\ pipe' = [pipe EXCEPT ![r] = Idle] /\ UNCHANGED counts
    <3>1. out' \in [Request -> Seq(Written)]
      BY <2>1, SendsType, ItemsType DEF TypeParts
    <3>2. pipe' \in [Request -> Pipes] /\ \A q \in Request : Fits(pipe'[q])
      BY <2>1, IdleIsPipe, PipeType
    <3> QED
      BY <1>2, <1>m, <2>1, <3>1, <3>2 DEF Join, TypeParts, Stages
  <2>2. CASE Returns(r) /\ UNCHANGED out
    BY <1>2, <2>2, TypeReturns DEF Join, TypeParts
  <2> QED
    BY <1>2, <2>1, <2>2 DEF Join
<1>3. CASE LastDrained(r)
  BY <1>3, TypeReturns DEF LastDrained, TypeParts
<1>4. CASE Fail(r)
  <2>1. CASE call[r].counted # None
    <3>1. [call[r] EXCEPT !.at = "starting", !.backend = Own, !.counted = None, !.failed = FALSE]
            \in Calls
      BY <1>0 DEF Calls, Stages, Backend
    <3>2. call' \in [Request -> Calls]
      BY <1>4, <2>1, <3>1 DEF Fail, TypeParts
    <3>3. counts' \in [Node -> Nat]
      BY <1>4, <2>1, ReleasedType DEF Fail, TypeParts
    <3> QED
      BY <1>4, <2>1, <3>2, <3>3 DEF Fail, TypeParts
  <2>2. CASE Returns(r) /\ Sends(r, <<"response">>)
    <3>1. out' \in [Request -> Seq(Written)]
      BY <2>2, SendsType, ItemsType DEF TypeParts
    <3> QED
      BY <1>4, <2>2, <3>1, TypeReturns DEF Fail, TypeParts
  <2> QED
    BY <1>4, <2>1, <2>2 DEF Fail
<1> QED
  BY <1>1, <1>2, <1>3, <1>4

LEMMA TypeThread ==
    ASSUME TypeParts, NEW r \in Request, Thread(r) \/ ClientLeaves(r)
    PROVE  TypeParts'
<1>1. call[r] \in Calls /\ pipe[r] \in Pipes /\ Fits(pipe[r])
  BY DEF TypeParts
<1>2. CASE ReadLine(r)
  <2> DEFINE j == IF call[r].at = "closing" THEN "eof" ELSE "line"
             p == [pipe[r] EXCEPT !.read = @ + 1, !.job = j]
  <2>1. pipe[r].read + 1 \in 0 .. MaxLines
    BY <1>1, <1>2, ProxyAssumption DEF ReadLine, Pipes, ProxyAssumption
  <2>2. p \in Pipes /\ p.queue = pipe[r].queue
    BY <1>1, <2>1 DEF Pipes
  <2>3. Fits(p)
    BY <1>1, <2>2 DEF Fits
  <2>4. pipe' = [pipe EXCEPT ![r] = p]
    BY <1>2 DEF ReadLine, TypeParts
  <2> QED
    BY <1>2, <2>2, <2>3, <2>4, PipeType DEF ReadLine, TypeParts
<1>3. CASE ReadEnds(r)
  <2>1. PICK job \in {"error", "eof"} : pipe' = [pipe EXCEPT ![r].job = job]
    BY <1>3 DEF ReadEnds
  <2> DEFINE p == [pipe[r] EXCEPT !.job = job]
  <2>2. p \in Pipes /\ p.queue = pipe[r].queue
    BY <1>1 DEF Pipes
  <2>3. Fits(p)
    BY <1>1, <2>2 DEF Fits
  <2>4. pipe' = [pipe EXCEPT ![r] = p]
    BY <2>1 DEF TypeParts
  <2> QED
    BY <1>3, <2>2, <2>3, <2>4, PipeType DEF ReadEnds, TypeParts
<1>4. CASE Put(r)
  <2> DEFINE q == Append(pipe[r].queue, pipe[r].job)
             j == AfterPut(pipe[r].job)
             p == [pipe[r] EXCEPT !.queue = q, !.job = j]
  <2>1. pipe[r].queue \in Seq({"line", "error", "eof"}) /\ pipe[r].job \in {"line", "error", "eof"}
    BY <1>1, <1>4 DEF Put, Pipes
  <2>2. q \in Seq({"line", "error", "eof"}) /\ Len(q) = Len(pipe[r].queue) + 1
    BY <2>1
  <2>3. j \in {"read", "eof", "none"}
    BY <2>1 DEF AfterPut
  <2>4. pipe' = [pipe EXCEPT ![r] = [pipe[r] EXCEPT !.queue = q, !.job = j]]
    BY <1>4 DEF Put, TypeParts
  <2> HIDE DEF q, j
  <2>5. p \in Pipes /\ p.queue = q
    BY <1>1, <2>2, <2>3 DEF Pipes
  <2>6. Len(pipe[r].queue) \in Nat /\ Len(pipe[r].queue) < QUEUE_MAX
    BY <1>4, <2>1 DEF Put, HasQueueRoom
  <2>7. Fits(p)
    BY <2>2, <2>5, <2>6, ProxyAssumption DEF Fits, ProxyAssumption
  <2>8. pipe' = [pipe EXCEPT ![r] = p]
    BY <2>4
  <2> HIDE DEF p
  <2>9. pipe' \in [Request -> Pipes] /\ \A s \in Request : Fits(pipe'[s])
    BY <2>5, <2>7, <2>8, PipeType
  <2> QED
    BY <1>4, <2>9 DEF Put, TypeParts
<1>5. CASE ClientLeaves(r)
  <2>1. [call[r] EXCEPT !.client = "gone"] \in Calls
    BY <1>1 DEF Calls
  <2>2. call' \in [Request -> Calls]
    BY <1>5, <2>1 DEF ClientLeaves, TypeParts
  <2> QED
    BY <1>5, <2>2 DEF ClientLeaves, TypeParts
<1> QED
  BY <1>2, <1>3, <1>4, <1>5 DEF Thread

LEMMA TypeStartJob == ASSUME TypeParts, StartJob PROVE TypeParts'
<1> DEFINE r == Head(jobs)
           j == IF call[r].at = "asking" THEN "asking" ELSE "read"
           p == [pipe[r] EXCEPT !.job = j]
<1>1. jobs \in Seq(Request) /\ jobs # <<>>
  BY DEF TypeParts, StartJob
<1>2. r \in Request /\ jobs' \in Seq(Request)
  BY <1>1 DEF StartJob
<1>3. pipe' = [pipe EXCEPT ![r] = p]
  BY <1>2 DEF StartJob, TypeParts
<1> HIDE DEF r
<1>4. pipe[r] \in Pipes /\ Fits(pipe[r])
  BY <1>2 DEF TypeParts
<1>5. p \in Pipes /\ p.queue = pipe[r].queue
  BY <1>4 DEF Pipes
<1>6. Fits(p)
  BY <1>4, <1>5 DEF Fits
<1> HIDE DEF p
<1>7. pipe' \in [Request -> Pipes] /\ \A s \in Request : Fits(pipe'[s])
  BY <1>2, <1>3, <1>5, <1>6, PipeType
<1> QED
  BY <1>2, <1>7 DEF StartJob, TypeParts

-----------------------------------------------------------------------------
(* A request is asked of one backend, as long as it has a client. *)

(* What holds of the coroutine of a request.  A client that is there has   *)
(* been asked for at the current backend at most; before the backend was   *)
(* asked, and on the way to another one, at none.                          *)
Careful(c) ==
    /\ c.at \in {"starting", "head"} => c.backend # None
    /\ c.at = "new" => c.counted = None
    /\ c.client = "here" => /\ c.asked \subseteq {c.backend}
                            /\ c.at \in {"new", "starting", "failing"} => c.asked = {}

AllCareful == \A r \in Request : Careful(call[r])

LEMMA CarefulTargets == AllCareful => Targeted
BY DEF AllCareful, Careful, Targeted

LEMMA CarefulInit == Init => AllCareful
BY DEF Init, AllCareful, Careful, New

(* Only one request changes in a step. *)
LEMMA CarefulChange ==
    ASSUME TypeParts, AllCareful, NEW r \in Request, NEW c,
           call' = [call EXCEPT ![r] = c], Careful(c)
    PROVE  AllCareful'
BY DEF TypeParts, AllCareful

(* A step to another stage, from one in which the backend may be known. *)
LEMMA CarefulMoves ==
    ASSUME TypeParts, AllCareful, NEW r \in Request, NEW to \in Stages, call' = Moved(r, to),
           to \in {"starting", "head"} => call[r].at \in {"starting", "head"},
           to \in {"new", "starting", "failing"} =>
              call[r].at \in {"new", "starting", "failing"} \/ ~ Here(r),
           to # "new"
    PROVE  AllCareful'
<1> DEFINE c == [call[r] EXCEPT !.at = to]
<1>1. call[r] \in Calls /\ Careful(call[r])
  BY DEF TypeParts, AllCareful
<1>2. /\ c.at = to /\ c.client = call[r].client /\ c.asked = call[r].asked
      /\ c.backend = call[r].backend
  BY <1>1 DEF Calls
<1>3. call' = [call EXCEPT ![r] = c]
  BY DEF Moved
<1> HIDE DEF c
<1>4. Careful(c)
  BY <1>1, <1>2 DEF Careful, Here
<1> QED
  BY <1>3, <1>4, CarefulChange

LEMMA CarefulAsk ==
    ASSUME TypeParts, AllCareful, NEW r \in Request, Ask(r)
    PROVE  AllCareful'
<1> DEFINE c == [call[r] EXCEPT !.at = "asking", !.asked = @ \cup {call[r].backend}]
<1>1. call[r] \in Calls /\ Careful(call[r])
  BY DEF TypeParts, AllCareful
<1>2. /\ c.at = "asking" /\ c.client = call[r].client /\ c.backend = call[r].backend
      /\ c.asked = call[r].asked \cup {call[r].backend}
  BY <1>1 DEF Calls
<1>3. call' = [call EXCEPT ![r] = c]
  BY DEF Ask, TypeParts
<1> HIDE DEF c
<1>4. Careful(c)
  BY <1>1, <1>2 DEF Careful
<1> QED
  BY <1>3, <1>4, CarefulChange

LEMMA CarefulReturns ==
    ASSUME TypeParts, AllCareful, NEW r \in Request, Returns(r)
    PROVE  AllCareful'
<1>1. Careful([New EXCEPT !.at = "over"])
  BY DEF New, Careful
<1> QED
  BY <1>1, CarefulChange DEF Returns

LEMMA CarefulRoute ==
    ASSUME TypeParts, AllCareful, NEW r \in Request, RouteToFleet(r) \/ RouteLocally(r)
    PROVE  AllCareful'
<1>1. call[r] \in Calls /\ Careful(call[r]) /\ call[r].at = "new"
  BY DEF TypeParts, AllCareful, RouteToFleet, RouteLocally
<1>2. CASE RouteToFleet(r)
  <2>1. PICK stream \in BOOLEAN, T \in SUBSET Node :
        \E L \in SUBSET T : \E n \in Selected(T, L) \ {None} :
          call' = [call EXCEPT ![r].at = "starting", ![r].stream = stream,
                             ![r].backend = n, ![r].counted = n]
    BY <1>2 DEF RouteToFleet
  <2>2. PICK n \in Node :
          call' = [call EXCEPT ![r].at = "starting", ![r].stream = stream,
                             ![r].backend = n, ![r].counted = n]
    BY <2>1, SelectedNode
  <2> DEFINE c == [call[r] EXCEPT !.at = "starting", !.stream = stream,
                                !.backend = n, !.counted = n]
  <2>3. c.at = "starting" /\ c.client = call[r].client /\ c.asked = call[r].asked /\ c.backend = n
    BY <1>1 DEF Calls
  <2>4. call' = [call EXCEPT ![r] = c]
    BY <2>2 DEF TypeParts
  <2> HIDE DEF c
  <2>5. Careful(c)
    BY <1>1, <2>3, ProxyAssumption DEF Careful, ProxyAssumption
  <2> QED
    BY <2>4, <2>5, CarefulChange
<1>3. CASE RouteLocally(r)
  <2>1. PICK stream \in BOOLEAN :
          call' = [call EXCEPT ![r].at = "starting", ![r].stream = stream, ![r].backend = Own]
    BY <1>3 DEF RouteLocally
  <2> DEFINE c == [call[r] EXCEPT !.at = "starting", !.stream = stream, !.backend = Own]
  <2>2. c.at = "starting" /\ c.client = call[r].client /\ c.asked = call[r].asked /\ c.backend = Own
    BY <1>1 DEF Calls
  <2>3. call' = [call EXCEPT ![r] = c]
    BY <2>1 DEF TypeParts
  <2> HIDE DEF c
  <2>4. Careful(c)
    BY <1>1, <2>2, ProxyAssumption DEF Careful, ProxyAssumption
  <2> QED
    BY <2>3, <2>4, CarefulChange
<1> QED
  BY <1>2, <1>3

(* The stream is given up, or is at its end. *)
LEMMA CarefulDone ==
    ASSUME TypeParts, AllCareful, NEW r \in Request, NEW b \in BOOLEAN,
           call' = [call EXCEPT ![r].at = "closing", ![r].failed = b]
    PROVE  AllCareful'
<1> DEFINE c == [call[r] EXCEPT !.at = "closing", !.failed = b]
<1>1. call[r] \in Calls /\ Careful(call[r])
  BY DEF TypeParts, AllCareful
<1>2. /\ c.at = "closing" /\ c.client = call[r].client /\ c.asked = call[r].asked
      /\ c.backend = call[r].backend
  BY <1>1 DEF Calls
<1>3. call' = [call EXCEPT ![r] = c]
  BY DEF TypeParts
<1> HIDE DEF c
<1>4. Careful(c)
  BY <1>1, <1>2 DEF Careful
<1> QED
  BY <1>3, <1>4, CarefulChange

LEMMA CarefulFail ==
    ASSUME TypeParts, AllCareful, NEW r \in Request, Fail(r)
    PROVE  AllCareful'
<1>1. call[r] \in Calls /\ Careful(call[r]) /\ call[r].at = "failing"
  BY DEF TypeParts, AllCareful, Fail
<1>2. CASE call[r].counted # None
  <2> DEFINE c == [call[r] EXCEPT !.at = "starting", !.backend = Own, !.counted = None,
                                !.failed = FALSE]
  <2>1. c.at = "starting" /\ c.client = call[r].client /\ c.asked = call[r].asked /\ c.backend = Own
    BY <1>1 DEF Calls
  <2>2. call' = [call EXCEPT ![r] = c]
    BY <1>2 DEF Fail, TypeParts
  <2> HIDE DEF c
  <2>3. Careful(c)
    BY <1>1, <2>1, ProxyAssumption DEF Careful, ProxyAssumption
  <2> QED
    BY <2>2, <2>3, CarefulChange
<1>3. CASE call[r].counted = None
  BY <1>3, CarefulReturns DEF Fail
<1> QED
  BY <1>2, <1>3

LEMMA CarefulLeaves ==
    ASSUME TypeParts, AllCareful, NEW r \in Request, ClientLeaves(r)
    PROVE  AllCareful'
<1> DEFINE c == [call[r] EXCEPT !.client = "gone"]
<1>1. call[r] \in Calls /\ Careful(call[r])
  BY DEF TypeParts, AllCareful
<1>2. c.at = call[r].at /\ c.client = "gone" /\ c.backend = call[r].backend /\ c.counted = call[r].counted
  BY <1>1 DEF Calls
<1>3. call' = [call EXCEPT ![r] = c]
  BY DEF ClientLeaves, TypeParts
<1> HIDE DEF c
<1>4. Careful(c)
  BY <1>1, <1>2 DEF Careful
<1> QED
  BY <1>3, <1>4, CarefulChange

LEMMA CarefulSame == ASSUME AllCareful, UNCHANGED call PROVE AllCareful'
BY DEF AllCareful

LEMMA CarefulHandler ==
    ASSUME TypeParts, AllCareful, NEW r \in Request, Handler(r)
    PROVE  AllCareful'
<1>1. CASE Begin(r)
  BY <1>1, CarefulAsk, CarefulMoves DEF Begin, Stages
<1>2. CASE Untranslatable(r)
  BY <1>2, CarefulMoves DEF Untranslatable, Stages
<1>3. CASE HeadDrained(r)
  BY <1>3, CarefulAsk DEF HeadDrained
<1>4. CASE Answered(r)
  BY <1>4, CarefulMoves DEF Answered, Stages
<1>5. CASE Take(r)
  BY <1>5, CarefulMoves, CarefulDone, CarefulSame DEF Take, Stages
<1>6. CASE LineDrained(r)
  BY <1>6, CarefulMoves DEF LineDrained, Stages
<1>7. CASE DrainRaises(r)
  BY <1>7, CarefulMoves, CarefulDone DEF DrainRaises, Stages
<1>8. CASE Close(r)
  BY <1>8, CarefulMoves DEF Close, Stages
<1>9. CASE Join(r)
  BY <1>9, CarefulMoves, CarefulReturns DEF Join, Stages
<1>10. CASE LastDrained(r)
  BY <1>10, CarefulReturns DEF LastDrained
<1>11. CASE Fail(r)
  BY <1>11, CarefulFail
<1> QED
  BY <1>1, <1>2, <1>3, <1>4, <1>5, <1>6, <1>7, <1>8, <1>9, <1>10, <1>11 DEF Handler

LEMMA CarefulStep == ASSUME TypeParts, AllCareful, [Next]_vars PROVE AllCareful'
<1>1. CASE StartJob \/ UNCHANGED vars
  BY <1>1, CarefulSame DEF StartJob, vars
<1>2. ASSUME NEW r \in Request, Handler(r) PROVE AllCareful'
  BY <1>2, CarefulHandler
<1>3. ASSUME NEW r \in Request, Thread(r) PROVE AllCareful'
  BY <1>3, CarefulSame DEF Thread, ReadLine, ReadEnds, Put
<1>4. ASSUME NEW r \in Request, RouteToFleet(r) \/ RouteLocally(r) PROVE AllCareful'
  BY <1>4, CarefulRoute
<1>5. ASSUME NEW r \in Request, Reject(r) PROVE AllCareful'
  BY <1>5, CarefulMoves DEF Reject, Moved, Stages
<1>6. ASSUME NEW r \in Request, ClientLeaves(r) PROVE AllCareful'
  BY <1>6, CarefulLeaves
<1> QED
  BY <1>1, <1>2, <1>3, <1>4, <1>5, <1>6 DEF Next

LEMMA TypeStep == ASSUME TypeParts, Targeted, [Next]_vars PROVE TypeParts'
<1>1. CASE StartJob
  BY <1>1, TypeStartJob
<1>2. CASE UNCHANGED vars
  BY <1>2 DEF TypeParts, vars
<1>3. ASSUME NEW r \in Request, Handler(r) PROVE TypeParts'
  BY <1>3, TypeBegin, TypeAnswered, TypeTake, TypeEnds DEF Handler
<1>4. ASSUME NEW r \in Request, Thread(r) \/ ClientLeaves(r) PROVE TypeParts'
  BY <1>4, TypeThread
<1>5. ASSUME NEW r \in Request, RouteToFleet(r) \/ RouteLocally(r) \/ Reject(r) PROVE TypeParts'
  BY <1>5, TypeRoute
<1> QED
  BY <1>1, <1>2, <1>3, <1>4, <1>5 DEF Next

LEMMA Basics == Spec => [](TypeParts /\ AllCareful)
<1>1. Init => TypeParts /\ AllCareful
  BY TypeInit, CarefulInit
<1>2. TypeParts /\ AllCareful /\ [Next]_vars => (TypeParts /\ AllCareful)'
  BY TypeStep, CarefulStep, CarefulTargets
<1> QED
  BY <1>1, <1>2, PTL DEF Spec

(* The types hold, and no queue outgrows its limit. *)
THEOREM TypeCorrect == Spec => []TypeOK
BY Basics, SameTypes, PTL

(* A second backend is asked only for a client that has left: what a       *)
(* backend fails at is answered to the client, so the fallback of          *)
(* _handle_chat_completions() never serves a client that waits.            *)
SecondAskedForNobody ==
    \A r \in Request : Cardinality(call[r].asked) > 1 => ~ Here(r)

(* There is no failover for anybody who could notice it, whatever fails:   *)
(* the whole cause of what FleetFailsOver runs into.                       *)
THEOREM SecondIsForNobody == Spec => []SecondAskedForNobody
<1>1. TypeParts /\ AllCareful => SecondAskedForNobody
  <2> SUFFICES ASSUME TypeParts, AllCareful, NEW r \in Request,
                      Cardinality(call[r].asked) > 1, Here(r)
               PROVE  FALSE
    BY DEF SecondAskedForNobody
  <2>1. call[r].asked \subseteq {call[r].backend}
    BY DEF AllCareful, Careful, Here
  <2>2. call[r].asked = {} \/ call[r].asked = {call[r].backend}
    BY <2>1
  <2>3. Cardinality({}) = 0 /\ Cardinality({call[r].backend}) = 1
    BY FS_EmptySet, FS_Singleton
  <2> QED
    BY <2>2, <2>3
<1> QED
  BY <1>1, Basics, PTL

-----------------------------------------------------------------------------
(* The connection counts. *)

(* The requests that are counted for n. *)
Counted(n) == {r \in Request : call[r].counted = n}

LEMMA CountedFinite == ASSUME NEW n PROVE IsFiniteSet(Counted(n))
BY FS_Subset, ProxyAssumption DEF Counted, ProxyAssumption

LEMMA CountsInit == Init => CountsMatch
<1> SUFFICES ASSUME Init, NEW n \in Node
             PROVE  counts[n] = Cardinality({r \in Request : call[r].counted = n})
  BY DEF CountsMatch
<1>1. {r \in Request : call[r].counted = n} = {}
  BY ProxyAssumption DEF Init, New, ProxyAssumption
<1> QED
  BY <1>1, FS_EmptySet DEF Init

(* Nothing changes that is counted. *)
LEMMA CountsSame ==
    ASSUME CountsMatch, UNCHANGED counts, \A r \in Request : call'[r].counted = call[r].counted
    PROVE  CountsMatch'
<1> SUFFICES ASSUME NEW n \in Node PROVE counts'[n] = Cardinality(Counted(n)')
  BY DEF CountsMatch, Counted
<1>1. Counted(n)' = Counted(n)
  BY DEF Counted
<1> QED
  BY <1>1 DEF CountsMatch, Counted

(* A request starts to be counted. *)
LEMMA CountsAcquire ==
    ASSUME TypeParts, CountsMatch, NEW r \in Request, NEW m \in Node, counts' = Acquired(m),
           call[r].counted = None, call'[r].counted = m,
           \A q \in Request \ {r} : call'[q].counted = call[q].counted
    PROVE  CountsMatch'
<1> SUFFICES ASSUME NEW n \in Node PROVE counts'[n] = Cardinality(Counted(n)')
  BY DEF CountsMatch, Counted
<1>0. counts[n] = Cardinality(Counted(n)) /\ counts \in [Node -> Nat]
  BY DEF CountsMatch, Counted, TypeParts
<1>1. CASE n = m
  <2>1. Counted(n)' = Counted(n) \cup {r} /\ r \notin Counted(n)
    BY <1>1, ProxyAssumption DEF Counted, ProxyAssumption
  <2>2. Cardinality(Counted(n) \cup {r}) = Cardinality(Counted(n)) + 1
    BY <2>1, CountedFinite, FS_AddElement
  <2> QED
    BY <1>0, <1>1, <2>1, <2>2 DEF Acquired
<1>2. CASE n # m
  <2>1. Counted(n)' = Counted(n)
    BY <1>2, ProxyAssumption DEF Counted, ProxyAssumption
  <2> QED
    BY <1>0, <1>2, <2>1 DEF Acquired
<1> QED
  BY <1>1, <1>2

(* A request stops being counted.  The test in release() never fails.      *)
LEMMA CountsRelease ==
    ASSUME TypeParts, CountsMatch, NEW r \in Request, counts' = Released(call[r].counted),
           call'[r].counted = None,
           \A q \in Request \ {r} : call'[q].counted = call[q].counted
    PROVE  CountsMatch'
<1> SUFFICES ASSUME NEW n \in Node PROVE counts'[n] = Cardinality(Counted(n)')
  BY DEF CountsMatch, Counted
<1>0. counts[n] = Cardinality(Counted(n)) /\ counts \in [Node -> Nat]
  BY DEF CountsMatch, Counted, TypeParts
<1>1. CASE n = call[r].counted
  <2>1. Counted(n)' = Counted(n) \ {r} /\ r \in Counted(n)
    BY <1>1, ProxyAssumption DEF Counted, ProxyAssumption
  <2>2. Cardinality(Counted(n) \ {r}) = Cardinality(Counted(n)) - 1
    BY <2>1, CountedFinite, FS_RemoveElement
  <2>3. Cardinality(Counted(n)) # 0
    BY <2>1, CountedFinite, FS_EmptySet
  <2>4. counts[n] > 0
    BY <1>0, <2>3
  <2> QED
    BY <1>0, <1>1, <2>1, <2>2, <2>4 DEF Released
<1>2. CASE n # call[r].counted
  <2>1. Counted(n)' = Counted(n)
    BY <1>2, ProxyAssumption DEF Counted, ProxyAssumption
  <2>2. counts'[n] = counts[n]
    BY <1>0, <1>2 DEF Released
  <2> QED
    BY <1>0, <2>1, <2>2
<1> QED
  BY <1>1, <1>2

(* A step to another stage changes nothing that is counted. *)
LEMMA MovedCounts ==
    ASSUME TypeParts, NEW r \in Request, NEW to,
           \/ call' = Moved(r, to)
           \/ \E b \in BOOLEAN : call' = [call EXCEPT ![r].at = to, ![r].failed = b]
           \/ Ask(r)
           \/ ClientLeaves(r)
    PROVE  \A q \in Request : call'[q].counted = call[q].counted
<1> SUFFICES ASSUME NEW q \in Request PROVE call'[q].counted = call[q].counted
  OBVIOUS
<1>1. call[r] \in Calls /\ call \in [Request -> Calls]
  BY DEF TypeParts
<1>2. CASE call' = Moved(r, to)
  BY <1>1, <1>2 DEF Moved, Calls
<1>3. CASE \E b \in BOOLEAN : call' = [call EXCEPT ![r].at = to, ![r].failed = b]
  <2>1. PICK b \in BOOLEAN : call' = [call EXCEPT ![r].at = to, ![r].failed = b]
    BY <1>3
  <2>2. [call[r] EXCEPT !.at = to, !.failed = b].counted = call[r].counted
    BY <1>1 DEF Calls
  <2>3. call'[q] = IF q = r THEN [call[r] EXCEPT !.at = to, !.failed = b] ELSE call[q]
    BY <1>1, <2>1
  <2> QED
    BY <2>2, <2>3
<1>4. CASE Ask(r)
  BY <1>1, <1>4 DEF Ask, Calls
<1>5. CASE ClientLeaves(r)
  BY <1>1, <1>5 DEF ClientLeaves, Calls
<1> QED
  BY <1>2, <1>3, <1>4, <1>5

LEMMA ReturnsCounts ==
    ASSUME TypeParts, CountsMatch, NEW r \in Request, Returns(r)
    PROVE  CountsMatch'
<1>1. /\ call'[r].counted = None
      /\ \A q \in Request \ {r} : call'[q].counted = call[q].counted
  BY DEF Returns, New, TypeParts
<1> QED
  BY <1>1, CountsRelease DEF Returns

LEMMA CountsRoute ==
    ASSUME TypeParts, AllCareful, CountsMatch, NEW r \in Request, RouteToFleet(r) \/ RouteLocally(r)
    PROVE  CountsMatch'
<1>1. call[r] \in Calls /\ call[r].counted = None
  BY DEF TypeParts, AllCareful, Careful, RouteToFleet, RouteLocally
<1>2. CASE RouteToFleet(r)
  <2>1. PICK stream \in BOOLEAN, T \in SUBSET Node :
        \E L \in SUBSET T : \E n \in Selected(T, L) \ {None} :
          /\ counts' = Acquired(n)
          /\ call' = [call EXCEPT ![r].at = "starting", ![r].stream = stream,
                                 ![r].backend = n, ![r].counted = n]
    BY <1>2 DEF RouteToFleet
  <2>2. PICK n \in Node :
          /\ counts' = Acquired(n)
          /\ call' = [call EXCEPT ![r].at = "starting", ![r].stream = stream,
                                 ![r].backend = n, ![r].counted = n]
    BY <2>1, SelectedNode
  <2>3. call'[r].counted = n /\ \A q \in Request \ {r} : call'[q].counted = call[q].counted
    BY <1>1, <2>2 DEF TypeParts, Calls
  <2> QED
    BY <1>1, <2>2, <2>3, CountsAcquire
<1>3. CASE RouteLocally(r)
  <2>1. PICK stream \in BOOLEAN :
          call' = [call EXCEPT ![r].at = "starting", ![r].stream = stream, ![r].backend = Own]
    BY <1>3 DEF RouteLocally
  <2>2. \A q \in Request : call'[q].counted = call[q].counted
    BY <1>1, <2>1 DEF TypeParts, Calls
  <2> QED
    BY <1>3, <2>2, CountsSame DEF RouteLocally
<1> QED
  BY <1>2, <1>3

LEMMA CountsFail ==
    ASSUME TypeParts, CountsMatch, NEW r \in Request, Fail(r)
    PROVE  CountsMatch'
<1>1. CASE call[r].counted # None
  <2>1. call[r] \in Calls
    BY DEF TypeParts
  <2>2. call'[r].counted = None /\ \A q \in Request \ {r} : call'[q].counted = call[q].counted
    BY <1>1, <2>1 DEF Fail, TypeParts, Calls
  <2> QED
    BY <1>1, <2>2, CountsRelease DEF Fail
<1>2. CASE call[r].counted = None
  BY <1>2, ReturnsCounts DEF Fail
<1> QED
  BY <1>1, <1>2

LEMMA CountsHandler ==
    ASSUME TypeParts, AllCareful, CountsMatch, NEW r \in Request, Handler(r)
    PROVE  CountsMatch'
<1>1. CASE Begin(r)
  BY <1>1, MovedCounts, CountsSame DEF Begin
<1>2. CASE Untranslatable(r)
  BY <1>2, MovedCounts, CountsSame DEF Untranslatable
<1>3. CASE HeadDrained(r)
  BY <1>3, MovedCounts, CountsSame DEF HeadDrained
<1>4. CASE Answered(r)
  BY <1>4, MovedCounts, CountsSame DEF Answered
<1>5. CASE Take(r)
  <2>1. \A q \in Request : call'[q].counted = call[q].counted
    BY <1>5, MovedCounts DEF Take
  <2> QED
    BY <1>5, <2>1, CountsSame DEF Take
<1>6. CASE LineDrained(r)
  BY <1>6, MovedCounts, CountsSame DEF LineDrained
<1>7. CASE DrainRaises(r)
  <2>1. \A q \in Request : call'[q].counted = call[q].counted
    BY <1>7, MovedCounts DEF DrainRaises
  <2> QED
    BY <1>7, <2>1, CountsSame DEF DrainRaises
<1>8. CASE Close(r)
  BY <1>8, MovedCounts, CountsSame DEF Close
<1>9. CASE Join(r)
  BY <1>9, MovedCounts, CountsSame, ReturnsCounts DEF Join
<1>10. CASE LastDrained(r)
  BY <1>10, ReturnsCounts DEF LastDrained
<1>11. CASE Fail(r)
  BY <1>11, CountsFail
<1> QED
  BY <1>1, <1>2, <1>3, <1>4, <1>5, <1>6, <1>7, <1>8, <1>9, <1>10, <1>11 DEF Handler

LEMMA CountsStep ==
    ASSUME TypeParts, AllCareful, CountsMatch, [Next]_vars
    PROVE  CountsMatch'
<1>1. CASE StartJob \/ UNCHANGED vars
  BY <1>1, CountsSame DEF StartJob, vars
<1>2. ASSUME NEW r \in Request, Handler(r) PROVE CountsMatch'
  BY <1>2, CountsHandler
<1>3. ASSUME NEW r \in Request, Thread(r) PROVE CountsMatch'
  BY <1>3, CountsSame DEF Thread, ReadLine, ReadEnds, Put
<1>4. ASSUME NEW r \in Request, RouteToFleet(r) \/ RouteLocally(r) PROVE CountsMatch'
  BY <1>4, CountsRoute
<1>5. ASSUME NEW r \in Request, Reject(r) PROVE CountsMatch'
  BY <1>5, MovedCounts, CountsSame DEF Reject, Moved
<1>6. ASSUME NEW r \in Request, ClientLeaves(r) PROVE CountsMatch'
  BY <1>6, MovedCounts, CountsSame DEF ClientLeaves
<1> QED
  BY <1>1, <1>2, <1>3, <1>4, <1>5, <1>6 DEF Next

(* Every count is the number of requests its node is serving. *)
THEOREM CountsAreRight == Spec => []CountsMatch
<1>1. Init => CountsMatch
  BY CountsInit
<1>2. TypeParts /\ AllCareful /\ CountsMatch /\ [Next]_vars => CountsMatch'
  BY CountsStep
<1> QED
  BY <1>1, <1>2, Basics, PTL DEF Spec

-----------------------------------------------------------------------------
(* A stuck request. *)

Piped == {"asking", "taking", "draining", "closing", "joining"}

(* A handler has a job in a thread only while it deals with a backend, and *)
(* the requests in line for a thread are just those that await one.        *)
Quiet == \A r \in Request : call[r].at \notin Piped => pipe[r].job = "none"

Queued == /\ \A i \in 1 .. Len(jobs) : pipe[jobs[i]].job = "queued"
          /\ \A i, j \in 1 .. Len(jobs) : jobs[i] = jobs[j] => i = j

LEMMA QueuedInit == Init => Quiet /\ Queued
BY DEF Init, Quiet, Queued, Idle

(* A step of a request touches no other request. *)
Foot(r) == \A q \in Request \ {r} : call'[q] = call[q] /\ pipe'[q] = pipe[q]

LEMMA FootHandler == ASSUME TypeParts, NEW r \in Request, Handler(r) PROVE Foot(r)
<1> SUFFICES ASSUME NEW q \in Request \ {r} PROVE call'[q] = call[q] /\ pipe'[q] = pipe[q]
  BY DEF Foot
<1> USE DEF TypeParts, Moved
<1>1. CASE Begin(r)
  BY <1>1 DEF Begin, Ask, Submitted
<1>2. CASE Untranslatable(r)
  BY <1>2 DEF Untranslatable
<1>3. CASE HeadDrained(r)
  BY <1>3 DEF HeadDrained, Ask, Submitted
<1>4. CASE Answered(r)
  BY <1>4 DEF Answered, Submitted
<1>5. CASE Take(r)
  BY <1>5 DEF Take
<1>6. CASE LineDrained(r)
  BY <1>6 DEF LineDrained
<1>7. CASE DrainRaises(r)
  BY <1>7 DEF DrainRaises
<1>8. CASE Close(r)
  BY <1>8 DEF Close
<1>9. CASE Join(r)
  BY <1>9 DEF Join, Returns
<1>10. CASE LastDrained(r)
  BY <1>10 DEF LastDrained, Returns
<1>11. CASE Fail(r)
  BY <1>11 DEF Fail, Returns
<1> QED
  BY <1>1, <1>2, <1>3, <1>4, <1>5, <1>6, <1>7, <1>8, <1>9, <1>10, <1>11 DEF Handler

LEMMA FootOther ==
    ASSUME TypeParts, NEW r \in Request,
           Thread(r) \/ RouteToFleet(r) \/ RouteLocally(r) \/ Reject(r) \/ ClientLeaves(r)
    PROVE  Foot(r)
<1>1. CASE Thread(r)
  BY <1>1 DEF Thread, ReadLine, ReadEnds, Put, Foot, TypeParts
<1>2. CASE RouteToFleet(r)
  BY <1>2 DEF RouteToFleet, Foot, TypeParts
<1>3. CASE RouteLocally(r) \/ Reject(r) \/ ClientLeaves(r)
  BY <1>3 DEF RouteLocally, Reject, ClientLeaves, Foot, TypeParts
<1> QED
  BY <1>1, <1>2, <1>3

(* What a step of a handler does to its own request, as far as threads are *)
(* concerned.                                                              *)
LEMMA HandlerJobs ==
    ASSUME TypeParts, Quiet, NEW r \in Request, Handler(r)
    PROVE  /\ call'[r].at \notin Piped => pipe'[r].job = "none"
           /\ \/ UNCHANGED jobs /\ pipe'[r].job = pipe[r].job
              \/ UNCHANGED jobs /\ pipe[r].job # "queued" /\ pipe'[r].job # "queued"
              \/ /\ jobs' = Append(jobs, r) /\ pipe[r].job # "queued" /\ pipe'[r].job = "queued"
<1>0. call[r] \in Calls /\ pipe[r] \in Pipes /\ (call[r].at \notin Piped => pipe[r].job = "none")
  BY DEF TypeParts, Quiet
<1>m. \A to : Moved(r, to)[r].at = to
  BY <1>0 DEF TypeParts, Moved, Calls
<1>a. Ask(r) => call'[r].at = "asking" /\ pipe'[r].job = "queued" /\ jobs' = Append(jobs, r)
  BY <1>0 DEF Ask, Submitted, Idle, TypeParts, Calls
<1>r. Returns(r) => call'[r].at = "over" /\ pipe'[r].job = "none"
  BY <1>0 DEF Returns, New, Idle, TypeParts
<1>i. pipe' = [pipe EXCEPT ![r] = Idle] => pipe'[r].job = "none"
  BY DEF Idle, TypeParts
<1>1. CASE Begin(r)
  BY <1>0, <1>1, <1>a, <1>m DEF Begin, Piped
<1>2. CASE Untranslatable(r)
  BY <1>0, <1>2, <1>m DEF Untranslatable, Piped
<1>3. CASE HeadDrained(r)
  BY <1>0, <1>3, <1>a DEF HeadDrained, Piped
<1>4. CASE Answered(r)
  <2>1. pipe' = Submitted(r, "queued") => pipe'[r].job = "queued"
    BY DEF Submitted, Idle, TypeParts
  <2> QED
    BY <1>0, <1>4, <1>m, <1>i, <2>1 DEF Answered, Piped
<1>5. CASE Take(r)
  <2>1. pipe'[r].job = pipe[r].job
    BY <1>0, <1>5 DEF Take, TypeParts, Pipes
  <2>2. \A b \in BOOLEAN : [call EXCEPT ![r].at = "closing", ![r].failed = b][r].at = "closing"
    BY <1>0 DEF TypeParts, Calls
  <2>3. call'[r].at \in Piped
    BY <1>5, <1>m, <2>2 DEF Take, Piped
  <2> QED
    BY <1>5, <2>1, <2>3 DEF Take
<1>6. CASE LineDrained(r)
  BY <1>0, <1>6, <1>m DEF LineDrained, Piped
<1>7. CASE DrainRaises(r)
  <2>1. [call EXCEPT ![r].at = "closing", ![r].failed = TRUE][r].at = "closing"
    BY <1>0 DEF TypeParts, Calls
  <2> QED
    BY <1>0, <1>7, <1>m, <2>1 DEF DrainRaises, Piped
<1>8. CASE Close(r)
  BY <1>0, <1>8, <1>m DEF Close, Piped
<1>9. CASE Join(r)
  BY <1>0, <1>9, <1>m, <1>i, <1>r DEF Join, Piped
<1>10. CASE LastDrained(r)
  BY <1>0, <1>10, <1>r DEF LastDrained, Piped
<1>11. CASE Fail(r)
  BY <1>0, <1>11, <1>r DEF Fail, Piped
<1> QED
  BY <1>1, <1>2, <1>3, <1>4, <1>5, <1>6, <1>7, <1>8, <1>9, <1>10, <1>11 DEF Handler

LEMMA QueuedKeeps ==
    ASSUME TypeParts, Queued, UNCHANGED jobs, NEW r \in Request, Foot(r),
           pipe'[r].job = pipe[r].job \/ pipe[r].job # "queued"
    PROVE  Queued'
<1>1. \A i \in 1 .. Len(jobs) : jobs[i] \in Request
  BY DEF TypeParts
<1> QED
  BY <1>1 DEF Queued, Foot

LEMMA QueuedAppends ==
    ASSUME TypeParts, Queued, NEW r \in Request, Foot(r), jobs' = Append(jobs, r),
           pipe[r].job # "queued", pipe'[r].job = "queued"
    PROVE  Queued'
<1>1. \A i \in 1 .. Len(jobs) : jobs[i] \in Request /\ jobs[i] # r
  BY DEF TypeParts, Queued
<1>2. /\ Len(jobs) \in Nat /\ Len(jobs') = Len(jobs) + 1 /\ jobs'[Len(jobs) + 1] = r
      /\ \A i \in 1 .. Len(jobs) : jobs'[i] = jobs[i]
  BY DEF TypeParts
<1> QED
  BY <1>1, <1>2 DEF Queued, Foot

LEMMA QueuedStarts ==
    ASSUME TypeParts, Queued, Quiet, StartJob
    PROVE  /\ Queued' /\ Quiet'
           /\ Head(jobs) \in Request /\ pipe[Head(jobs)].job = "queued"
           /\ \A q \in Request \ {Head(jobs)} : pipe'[q] = pipe[q]
<1>1. jobs \in Seq(Request) /\ jobs # <<>> /\ jobs' = Tail(jobs)
  BY DEF TypeParts, StartJob
<1>2. /\ Head(jobs) = jobs[1] /\ Head(jobs) \in Request /\ 1 \in 1 .. Len(jobs)
      /\ Len(jobs) \in Nat /\ Len(jobs') = Len(jobs) - 1
      /\ \A i \in 1 .. Len(jobs') : jobs'[i] = jobs[i + 1]
      /\ \A i \in 1 .. Len(jobs) : jobs[i] \in Request
  BY <1>1
<1>3. pipe[Head(jobs)].job = "queued"
  BY <1>2 DEF Queued
<1>4. \A q \in Request \ {Head(jobs)} : pipe'[q] = pipe[q]
  BY <1>2 DEF StartJob, TypeParts
<1>5. \A i \in 1 .. Len(jobs') : i + 1 \in 1 .. Len(jobs) /\ jobs'[i] \in Request \ {Head(jobs)}
  BY <1>2 DEF Queued
<1>6. \A i \in 1 .. Len(jobs') : pipe'[jobs'[i]].job = "queued"
  BY <1>2, <1>4, <1>5 DEF Queued
<1>7. \A i, j \in 1 .. Len(jobs') : jobs'[i] = jobs'[j] => i = j
  BY <1>2, <1>5 DEF Queued
<1>8. Quiet'
  BY <1>2, <1>3, <1>4 DEF Quiet, StartJob
<1> QED
  BY <1>2, <1>3, <1>4, <1>6, <1>7, <1>8 DEF Queued

LEMMA QueuedStep ==
    ASSUME TypeParts, Quiet, Queued, [Next]_vars
    PROVE  Quiet' /\ Queued'
<1>1. CASE StartJob
  BY <1>1, QueuedStarts
<1>2. CASE UNCHANGED vars
  BY <1>2 DEF Quiet, Queued, vars
<1>3. ASSUME NEW r \in Request, Handler(r) PROVE Quiet' /\ Queued'
  <2>1. Foot(r)
    BY <1>3, FootHandler
  <2>2. Quiet'
    BY <1>3, <2>1, HandlerJobs DEF Foot, Quiet
  <2> QED
    BY <1>3, <2>1, <2>2, HandlerJobs, QueuedKeeps, QueuedAppends
<1>4. ASSUME NEW r \in Request, Thread(r) PROVE Quiet' /\ Queued'
  <2>1. Foot(r) /\ UNCHANGED <<call, jobs>> /\ pipe[r].job \notin {"none", "queued"}
    BY <1>4, FootOther DEF Thread, ReadLine, ReadEnds, Put
  <2>2. call[r].at \in Piped
    BY <2>1 DEF Quiet
  <2> QED
    BY <2>1, <2>2, QueuedKeeps DEF Quiet, Foot
<1>5. ASSUME NEW r \in Request, RouteToFleet(r) \/ RouteLocally(r) \/ Reject(r)
      PROVE  Quiet' /\ Queued'
  <2>1. Foot(r) /\ UNCHANGED <<pipe, jobs>> /\ call[r].at = "new"
    BY <1>5, FootOther DEF RouteToFleet, RouteLocally, Reject
  <2>2. pipe'[r].job = "none"
    BY <2>1 DEF Quiet, Piped
  <2> QED
    BY <2>1, <2>2, QueuedKeeps DEF Quiet, Foot
<1>6. ASSUME NEW r \in Request, ClientLeaves(r) PROVE Quiet' /\ Queued'
  <2>1. Foot(r) /\ UNCHANGED <<pipe, jobs>>
    BY <1>6, FootOther DEF ClientLeaves
  <2>2. call'[r].at = call[r].at
    BY <1>6 DEF ClientLeaves, TypeParts, Calls
  <2> QED
    BY <2>1, <2>2, QueuedKeeps DEF Quiet, Foot
<1> QED
  BY <1>1, <1>2, <1>3, <1>4, <1>5, <1>6 DEF Next

(* No step of its own frees a stuck request: the handler is past the point *)
(* where it would take from the queue, and the reader waits for room.      *)
LEMMA StuckStays ==
    ASSUME TypeParts, Quiet, Queued, [Next]_vars, NEW q \in Request, Stuck(q)
    PROVE  Stuck(q)'
<1>0. /\ call[q].at = "joining" /\ pipe[q].job \in {"line", "error", "eof"}
      /\ ~ (Len(pipe[q].queue) < QUEUE_MAX)
  BY DEF Stuck, HasQueueRoom
<1>1. SUFFICES call'[q].at = call[q].at /\ pipe'[q] = pipe[q]
  BY <1>0 DEF Stuck, HasQueueRoom
<1>2. CASE StartJob
  <2>1. q # Head(jobs)
    BY <1>0, <1>2, QueuedStarts
  <2> QED
    BY <1>2, <2>1, QueuedStarts DEF StartJob
<1>3. CASE UNCHANGED vars
  BY <1>3 DEF vars
<1>4. ASSUME NEW r \in Request, Foot(r), r # q PROVE call'[q].at = call[q].at /\ pipe'[q] = pipe[q]
  BY <1>4 DEF Foot
<1>5. ~ Handler(q)
  BY <1>0 DEF Handler, Begin, Untranslatable, HeadDrained, Answered, Take, LineDrained,
              DrainRaises, Close, Join, LastDrained, Fail
<1>6. ~ Thread(q)
  BY <1>0 DEF Thread, ReadLine, ReadEnds, Put, HasQueueRoom
<1>7. ~ (RouteToFleet(q) \/ RouteLocally(q) \/ Reject(q))
  BY <1>0 DEF RouteToFleet, RouteLocally, Reject
<1>8. ClientLeaves(q) => call'[q].at = call[q].at /\ pipe'[q] = pipe[q]
  BY DEF ClientLeaves, TypeParts, Calls
<1> QED
  BY <1>2, <1>3, <1>4, <1>5, <1>6, <1>7, <1>8, FootHandler, FootOther DEF Next

(* A request that is stuck stays so, with the thread it occupies. *)
THEOREM StuckIsForGood == Spec => StuckForGood
<1>1. Init => Quiet /\ Queued
  BY QueuedInit
<1>2. TypeParts /\ Quiet /\ Queued /\ [Next]_vars => (Quiet /\ Queued)'
  BY QueuedStep
<1>3. TypeParts /\ Quiet /\ Queued /\ [Next]_vars
        => [\A r \in Request : Stuck(r) => Stuck(r)']_vars
  BY StuckStays
<1> QED
  BY <1>1, <1>2, <1>3, Basics, PTL DEF Spec, StuckForGood

-----------------------------------------------------------------------------
(* A client gets one answer. *)

(* What was written to one client is one answer, or the beginning of one.  *)
Answer(o) ==
    \A i \in 1 .. Len(o) :
        /\ o[i] \in {"head", "response"} <=> i = 1
        /\ o[i] = "response" => Len(o) = 1
        /\ o[i] \in {"error", "done"} => i >= Len(o) - 1

(* A stream that was begun and goes on. *)
Open(o) == o # <<>> /\ o[1] = "head" /\ \A i \in 2 .. Len(o) : o[i] = "line"

(* What a client that is there has been sent at each stage. *)
Told(c, o) ==
    /\ Answer(o)
    /\ c.client = "here" =>
         /\ c.at \in {"new", "starting", "failing"} => o = <<>>
         /\ c.at = "head" => c.stream /\ Open(o)
         /\ c.at = "asking" => IF c.stream THEN Open(o) ELSE o = <<>>
         /\ c.at \in {"taking", "draining", "closing", "joining"} => Open(o)

AllTold == \A r \in Request : Told(call[r], out[r])

LEMMA Answers ==
    /\ Answer(<<>>) /\ Answer(<<>> \o <<"response">>) /\ Open(<<>> \o <<"head">>)
    /\ \A o \in Seq(Written) : Open(o) => /\ Answer(o)
                                         /\ Open(o \o <<"line">>)
                                         /\ Answer(o \o <<"error", "done">>)
<1>1. Answer(<<>>)
  BY DEF Answer
<1>2. Answer(<<>> \o <<"response">>) /\ Open(<<>> \o <<"head">>)
  <2>1. <<>> \o <<"response">> = <<"response">> /\ <<>> \o <<"head">> = <<"head">>
    OBVIOUS
  <2> QED
    BY <2>1 DEF Answer, Open
<1>3. ASSUME NEW o \in Seq(Written), Open(o)
      PROVE  /\ Answer(o)
             /\ Open(o \o <<"line">>)
             /\ Answer(o \o <<"error", "done">>)
  <2>1. /\ Len(o) \in Nat /\ Len(o) >= 1
        /\ o[1] = "head" /\ \A i \in 2 .. Len(o) : o[i] = "line"
    BY <1>3 DEF Open
  <2>2. \A i \in 1 .. Len(o) : i = 1 \/ i \in 2 .. Len(o)
    BY <2>1
  <2>3. Answer(o)
    BY <2>1, <2>2 DEF Answer
  <2>4. PICK longer : longer = o \o <<"line">>
    OBVIOUS
  <2>5. /\ Len(longer) = Len(o) + 1 /\ longer[Len(o) + 1] = "line"
        /\ \A i \in 1 .. Len(o) : longer[i] = o[i]
    BY <2>1, <2>4
  <2>6. Open(longer)
    <3>1. longer # <<>> /\ longer[1] = "head"
      BY <2>1, <2>4, <2>5
    <3>2. ASSUME NEW i \in 2 .. Len(longer) PROVE longer[i] = "line"
      <4>1. i \in 2 .. Len(o) \/ i = Len(o) + 1
        BY <2>1, <2>5
      <4> QED
        BY <2>1, <2>5, <4>1
    <3> QED
      BY <3>1, <3>2 DEF Open
  <2>7. PICK last : last = o \o <<"error", "done">>
    OBVIOUS
  <2>8. /\ Len(last) = Len(o) + 2
        /\ last[Len(o) + 1] = "error" /\ last[Len(o) + 2] = "done"
        /\ \A i \in 1 .. Len(o) : last[i] = o[i]
    BY <2>1, <2>7
  <2>9. ASSUME NEW i \in 1 .. Len(last)
        PROVE  /\ last[i] \in {"head", "response"} <=> i = 1
               /\ last[i] # "response"
               /\ last[i] \in {"error", "done"} => i >= Len(last) - 1
    <3>1. i = 1 \/ i \in 2 .. Len(o) \/ i = Len(o) + 1 \/ i = Len(o) + 2
      BY <2>1, <2>8
    <3> QED
      BY <2>1, <2>8, <3>1
  <2>10. Answer(last)
    BY <2>9 DEF Answer
  <2> QED
    BY <2>3, <2>4, <2>6, <2>7, <2>10
<1> QED
  BY <1>1, <1>2, <1>3

LEMMA AnswerIsOne == AllTold => OneAnswer
BY DEF AllTold, Told, Answer, OneAnswer

LEMMA ToldInit == Init => AllTold
BY Answers DEF Init, AllTold, Told, New

LEMMA SendsOut ==
    ASSUME TypeParts, NEW r \in Request, NEW items, Sends(r, items)
    PROVE  /\ out'[r] = IF Here(r) THEN out[r] \o items ELSE out[r]
           /\ \A q \in Request \ {r} : out'[q] = out[q]
BY DEF Sends, TypeParts

(* What a step to another stage leaves of a request. *)
LEMMA StageOnly ==
    ASSUME TypeParts, NEW r \in Request, NEW to
    PROVE  /\ call' = Moved(r, to) =>
                /\ call'[r].at = to /\ call'[r].client = call[r].client
                /\ call'[r].stream = call[r].stream /\ call'[r].failed = call[r].failed
           /\ Ask(r) => /\ call'[r].at = "asking" /\ call'[r].client = call[r].client
                        /\ call'[r].stream = call[r].stream
           /\ Returns(r) => call'[r].at = "over"
<1>1. call[r] \in Calls /\ call \in [Request -> Calls]
  BY DEF TypeParts
<1>2. Returns(r) => call'[r].at = "over"
  BY <1>1 DEF Returns, New
<1>3. Ask(r) => /\ call'[r].at = "asking" /\ call'[r].client = call[r].client
                /\ call'[r].stream = call[r].stream
  <2> SUFFICES ASSUME Ask(r) PROVE call'[r].at = "asking" /\ call'[r].client = call[r].client
                                   /\ call'[r].stream = call[r].stream
    OBVIOUS
  <2>1. call'[r] = [call[r] EXCEPT !.at = "asking", !.asked = @ \cup {call[r].backend}]
    BY <1>1 DEF Ask
  <2> QED
    BY <1>1, <2>1 DEF Calls
<1>4. call' = Moved(r, to) =>
        /\ call'[r].at = to /\ call'[r].client = call[r].client
        /\ call'[r].stream = call[r].stream /\ call'[r].failed = call[r].failed
  <2> SUFFICES ASSUME call' = Moved(r, to)
               PROVE  /\ call'[r].at = to /\ call'[r].client = call[r].client
                      /\ call'[r].stream = call[r].stream /\ call'[r].failed = call[r].failed
    OBVIOUS
  <2>1. call'[r] = [call[r] EXCEPT !.at = to]
    BY <1>1 DEF Moved
  <2> QED
    BY <1>1, <2>1 DEF Calls
<1> QED
  BY <1>2, <1>3, <1>4

(* A step of a handler leaves its client with one answer. *)
LEMMA ToldHandler ==
    ASSUME TypeParts, AllTold, NEW r \in Request, Handler(r)
    PROVE  Told(call'[r], out'[r])
<1>1. PICK c, o : c = call[r] /\ o = out[r]
  OBVIOUS
<1>2. c \in Calls /\ o \in Seq(Written) /\ Told(c, o)
  BY <1>1 DEF TypeParts, AllTold
<1>3. Here(r) <=> c.client = "here"
  BY <1>1 DEF Here
<1>4. \A items : Sends(r, items) => out'[r] = IF c.client = "here" THEN o \o items ELSE o
  BY <1>1, <1>3, SendsOut
<1>5. UNCHANGED out => out'[r] = o
  BY <1>1
<1>6. \A to : call' = Moved(r, to) =>
        call'[r].at = to /\ call'[r].client = c.client /\ call'[r].stream = c.stream
  BY <1>1, StageOnly
<1>7. \A b \in BOOLEAN : call' = [call EXCEPT ![r].at = "closing", ![r].failed = b] =>
        call'[r].at = "closing" /\ call'[r].client = c.client
  <2>1. ASSUME NEW b \in BOOLEAN, NEW next, next = [c EXCEPT !.at = "closing", !.failed = b]
        PROVE  next.at = "closing" /\ next.client = c.client
    BY <1>2, <2>1 DEF Calls
  <2>2. \A b \in BOOLEAN : call' = [call EXCEPT ![r].at = "closing", ![r].failed = b] =>
          call'[r] = [c EXCEPT !.at = "closing", !.failed = b]
    BY <1>1 DEF TypeParts
  <2> QED
    BY <2>1, <2>2
<1>8. /\ Ask(r) => call'[r].at = "asking" /\ call'[r].client = c.client /\ call'[r].stream = c.stream
      /\ Returns(r) => call'[r].at = "over"
  BY <1>1, StageOnly
<1>9. Answer(o) /\ c.client \in {"here", "gone"} /\ c.stream \in BOOLEAN
  BY <1>2 DEF Told, Calls
<1>10. /\ Answer(<<>> \o <<"response">>) /\ Open(<<>> \o <<"head">>)
       /\ Open(o) => Open(o \o <<"line">>) /\ Answer(o \o <<"line">>) /\ Answer(o \o <<"error", "done">>)
  <2>1. Open(o) => o \o <<"line">> \in Seq(Written) /\ Open(o \o <<"line">>)
    BY <1>2, Answers, ItemsType
  <2> QED
    BY <1>2, <2>1, Answers
<1>11. Answer(<<>> \o <<"head">>)
  <2>1. <<>> \o <<"head">> \in Seq(Written)
    BY ItemsType
  <2> QED
    BY <2>1, Answers
<1>12. CASE Begin(r)
  <2>1. c.at = "starting"
    BY <1>1, <1>12 DEF Begin
  <2>2. c.client = "here" => o = <<>>
    BY <1>2, <2>1 DEF Told
  <2>3. CASE Sends(r, <<"response">>) /\ call' = Moved(r, "last")
    BY <1>4, <1>6, <1>9, <1>10, <2>2, <2>3 DEF Told
  <2>4. CASE c.stream /\ Sends(r, <<"head">>) /\ call' = Moved(r, "head")
    BY <1>4, <1>6, <1>9, <1>10, <1>11, <2>2, <2>4 DEF Told
  <2>5. CASE ~ c.stream /\ Ask(r) /\ UNCHANGED out
    BY <1>5, <1>8, <1>9, <2>2, <2>5 DEF Told
  <2> QED
    BY <1>1, <1>12, <2>3, <2>4, <2>5 DEF Begin
<1>13. CASE Untranslatable(r)
  BY <1>1, <1>2, <1>5, <1>6, <1>13 DEF Untranslatable, Told
<1>14. CASE HeadDrained(r)
  BY <1>1, <1>2, <1>5, <1>8, <1>14 DEF HeadDrained, Told
<1>15. CASE Answered(r)
  <2>1. c.at = "asking"
    BY <1>1, <1>15 DEF Answered
  <2>2. c.client = "here" => IF c.stream THEN Open(o) ELSE o = <<>>
    BY <1>2, <2>1 DEF Told
  <2>3. CASE /\ Sends(r, IF call[r].stream THEN <<"error", "done">> ELSE <<"response">>)
             /\ call' = Moved(r, "last")
    <3>1. CASE c.stream
      <4>1. Sends(r, <<"error", "done">>)
        BY <1>1, <2>3, <3>1
      <4> QED
        BY <1>4, <1>6, <1>9, <1>10, <2>2, <2>3, <3>1, <4>1 DEF Told
    <3>2. CASE ~ c.stream
      <4>1. Sends(r, <<"response">>)
        BY <1>1, <2>3, <3>2
      <4> QED
        BY <1>4, <1>6, <1>9, <1>10, <2>2, <2>3, <3>2, <4>1 DEF Told
    <3> QED
      BY <3>1, <3>2
  <2>4. CASE call[r].stream /\ call' = Moved(r, "taking") /\ UNCHANGED out
    BY <1>1, <1>5, <1>6, <1>9, <2>2, <2>4 DEF Told
  <2> QED
    BY <1>1, <1>15, <2>3, <2>4 DEF Answered
<1>16. CASE Take(r)
  <2>1. c.client = "here" => Open(o)
    BY <1>1, <1>2, <1>16 DEF Take, Told
  <2>2. CASE Sends(r, <<"line">>) /\ call' = Moved(r, "draining")
    BY <1>4, <1>6, <1>9, <1>10, <2>1, <2>2 DEF Told
  <2>3. CASE UNCHANGED <<call, out>>
    BY <1>1, <1>2, <2>3
  <2>4. CASE UNCHANGED out /\ \E b \in BOOLEAN : call' = [call EXCEPT ![r].at = "closing", ![r].failed = b]
    BY <1>5, <1>7, <1>9, <2>1, <2>4 DEF Told
  <2> QED
    BY <1>16, <2>2, <2>3, <2>4 DEF Take
<1>17. CASE LineDrained(r)
  BY <1>1, <1>2, <1>5, <1>6, <1>17 DEF LineDrained, Told
<1>18. CASE DrainRaises(r)
  <2>1. c.client # "here" /\ out'[r] = o
    BY <1>3, <1>5, <1>18 DEF DrainRaises
  <2>2. call'[r].client = c.client
    BY <1>6, <1>7, <1>18 DEF DrainRaises
  <2> QED
    BY <1>9, <2>1, <2>2 DEF Told
<1>19. CASE Close(r)
  BY <1>1, <1>2, <1>5, <1>6, <1>19 DEF Close, Told
<1>20. CASE Join(r)
  <2>1. c.client = "here" => Open(o)
    BY <1>1, <1>2, <1>20 DEF Join, Told
  <2>2. CASE Sends(r, <<"error", "done">>) /\ call' = Moved(r, "last")
    BY <1>4, <1>6, <1>9, <1>10, <2>1, <2>2 DEF Told
  <2>3. CASE Returns(r) /\ UNCHANGED out
    BY <1>5, <1>8, <1>9, <2>3 DEF Told
  <2> QED
    BY <1>20, <2>2, <2>3 DEF Join
<1>21. CASE LastDrained(r)
  BY <1>5, <1>8, <1>9, <1>21 DEF LastDrained, Told
<1>22. CASE Fail(r)
  <2>1. c.client = "here" => o = <<>>
    BY <1>1, <1>2, <1>22 DEF Fail, Told
  <2>2. CASE UNCHANGED out /\ call' = [call EXCEPT ![r].at = "starting", ![r].backend = Own,
                                                 ![r].counted = None, ![r].failed = FALSE]
    <3>1. call'[r] = [c EXCEPT !.at = "starting", !.backend = Own, !.counted = None, !.failed = FALSE]
      BY <1>1, <2>2 DEF TypeParts
    <3>2. call'[r].at = "starting" /\ call'[r].client = c.client
      BY <1>2, <3>1 DEF Calls
    <3> QED
      BY <1>5, <1>9, <2>1, <2>2, <3>2 DEF Told
  <2>3. CASE Returns(r) /\ Sends(r, <<"response">>)
    BY <1>4, <1>8, <1>9, <1>10, <2>1, <2>3 DEF Told
  <2> QED
    BY <1>22, <2>2, <2>3 DEF Fail
<1> QED
  BY <1>12, <1>13, <1>14, <1>15, <1>16, <1>17, <1>18, <1>19, <1>20, <1>21, <1>22 DEF Handler

(* Only the client of the handler is sent anything. *)
LEMMA OutFoot ==
    ASSUME TypeParts, NEW r \in Request, Handler(r) \/ Reject(r)
    PROVE  \A q \in Request \ {r} : out'[q] = out[q]
<1>1. CASE UNCHANGED out
  BY <1>1
<1>2. CASE \E items : Sends(r, items)
  BY <1>2, SendsOut
<1>3. UNCHANGED out \/ \E items : Sends(r, items)
  BY DEF Handler, Begin, Untranslatable, HeadDrained, Answered, Take, LineDrained, DrainRaises, Close, Join,
         LastDrained, Fail, Reject
<1> QED
  BY <1>1, <1>2, <1>3

LEMMA Routed ==
    ASSUME TypeParts, NEW r \in Request, RouteToFleet(r) \/ RouteLocally(r)
    PROVE  call'[r].at = "starting" /\ call'[r].client = call[r].client
<1>1. PICK c : c = call[r]
  OBVIOUS
<1>2. c \in Calls
  BY <1>1 DEF TypeParts
<1>3. CASE RouteToFleet(r)
  <2>1. PICK stream \in BOOLEAN, T \in SUBSET Node :
        \E L \in SUBSET T : \E n \in Selected(T, L) \ {None} :
          call' = [call EXCEPT ![r].at = "starting", ![r].stream = stream,
                             ![r].backend = n, ![r].counted = n]
    BY <1>3 DEF RouteToFleet
  <2>2. PICK n : call' = [call EXCEPT ![r].at = "starting", ![r].stream = stream,
                                     ![r].backend = n, ![r].counted = n]
    BY <2>1
  <2>3. call'[r] = [c EXCEPT !.at = "starting", !.stream = stream, !.backend = n, !.counted = n]
    BY <1>1, <2>2 DEF TypeParts
  <2> QED
    BY <1>1, <1>2, <2>3 DEF Calls
<1>4. CASE RouteLocally(r)
  <2>1. PICK stream \in BOOLEAN :
          call' = [call EXCEPT ![r].at = "starting", ![r].stream = stream, ![r].backend = Own]
    BY <1>4 DEF RouteLocally
  <2>2. call'[r] = [c EXCEPT !.at = "starting", !.stream = stream, !.backend = Own]
    BY <1>1, <2>1 DEF TypeParts
  <2> QED
    BY <1>1, <1>2, <2>2 DEF Calls
<1> QED
  BY <1>3, <1>4

LEMMA ToldStep ==
    ASSUME TypeParts, AllTold, [Next]_vars
    PROVE  AllTold'
<1>1. CASE UNCHANGED <<call, out>>
  BY <1>1 DEF AllTold
<1>2. ASSUME NEW r \in Request, Handler(r) PROVE AllTold'
  <2>1. Foot(r) /\ Told(call'[r], out'[r]) /\ \A q \in Request \ {r} : out'[q] = out[q]
    BY <1>2, FootHandler, ToldHandler, OutFoot
  <2> QED
    BY <2>1 DEF AllTold, Foot
<1>3. ASSUME NEW r \in Request, RouteToFleet(r) \/ RouteLocally(r) \/ Reject(r) \/ ClientLeaves(r)
      PROVE  AllTold'
  <2>1. Foot(r)
    BY <1>3, FootOther
  <2>2. PICK c, o : c = call[r] /\ o = out[r]
    OBVIOUS
  <2>3. c \in Calls /\ o \in Seq(Written) /\ Told(c, o)
    BY <2>2 DEF TypeParts, AllTold
  <2>4. CASE RouteToFleet(r) \/ RouteLocally(r)
    <3>1. call'[r].at = "starting" /\ call'[r].client = c.client
      BY <2>2, <2>4, Routed
    <3>2. UNCHANGED out /\ c.at = "new"
      BY <2>2, <2>4 DEF RouteToFleet, RouteLocally
    <3>3. Told(call'[r], out'[r])
      BY <2>2, <2>3, <3>1, <3>2 DEF Told
    <3> QED
      BY <2>1, <3>2, <3>3 DEF AllTold, Foot
  <2>5. CASE Reject(r)
    <3>1. out'[r] = IF Here(r) THEN out[r] \o <<"response">> ELSE out[r]
      BY <2>5, SendsOut DEF Reject
    <3>2. call'[r].at = "last" /\ call'[r].client = c.client
      <4>1. call' = Moved(r, "last")
        BY <2>5 DEF Reject, Moved
      <4> QED
        BY <2>2, <4>1, StageOnly
    <3>3. c.client = "here" => o = <<>>
      BY <2>2, <2>3, <2>5 DEF Reject, Told
    <3>4. Told(call'[r], out'[r])
      BY <2>2, <2>3, <3>1, <3>2, <3>3, Answers DEF Told, Here
    <3>5. \A q \in Request \ {r} : out'[q] = out[q]
      BY <2>5, OutFoot
    <3> QED
      BY <2>1, <3>4, <3>5 DEF AllTold, Foot
  <2>6. CASE ClientLeaves(r)
    <3>1. call'[r].client = "gone" /\ UNCHANGED out
      BY <2>6 DEF ClientLeaves, TypeParts, Calls
    <3>2. Told(call'[r], out'[r])
      BY <2>2, <2>3, <3>1 DEF Told
    <3> QED
      BY <2>1, <3>1, <3>2 DEF AllTold, Foot
  <2> QED
    BY <1>3, <2>4, <2>5, <2>6
<1>4. StartJob \/ UNCHANGED vars \/ (\E r \in Request : Thread(r)) => UNCHANGED <<call, out>>
  BY DEF StartJob, vars, Thread, ReadLine, ReadEnds, Put
<1> QED
  BY <1>1, <1>2, <1>3, <1>4 DEF Next

(* A client gets one response, or one stream from its head to its end: the *)
(* fallback to another backend never begins a second answer.               *)
THEOREM AnswersAreOne == Spec => []OneAnswer
<1>1. Init => AllTold
  BY ToldInit
<1>2. TypeParts /\ AllTold /\ [Next]_vars => AllTold'
  BY ToldStep
<1>3. AllTold => OneAnswer
  BY AnswerIsOne
<1> QED
  BY <1>1, <1>2, <1>3, Basics, PTL DEF Spec

-----------------------------------------------------------------------------
(* A stream whose end mark was taken is complete. *)

Missing(job) == IF job = "line" THEN 1 ELSE 0

Ended(job) == IF job = "none" THEN 1 ELSE 0

(* The end mark is the last that a reader puts, and what was read before   *)
(* it was taken, is in the queue, or is about to be put, unless something  *)
(* failed; then the error comes before the end mark.                       *)
Flowing(p) ==
    /\ \A i \in 1 .. Len(p.queue) : p.queue[i] = "eof" => i = Len(p.queue) /\ p.job = "none"
    /\ \/ p.job = "error"
       \/ \E i \in 1 .. Len(p.queue) : p.queue[i] = "error"
       \/ p.read + Ended(p.job) = p.taken + Len(p.queue) + Missing(p.job)

Through(p) == p.taken = p.read /\ p.queue = <<>> /\ p.job = "none"

Flow(c, p) ==
    /\ c.at \in {"taking", "draining"} => Flowing(p)
    /\ c.at \in {"closing", "joining"} /\ ~ c.failed => Through(p)

AllFlow == \A r \in Request : Flow(call[r], pipe[r])

LEMMA FlowInit == Init => AllFlow
BY DEF Init, AllFlow, Flow, New

(* The handler takes the first item. *)
LEMMA FlowTakes ==
    ASSUME NEW p \in Pipes, Flowing(p), p.queue # <<>>, NEW rest \in Pipes,
           rest.job = p.job, rest.read = p.read, rest.queue = Tail(p.queue),
           rest.taken = IF Head(p.queue) = "line" THEN p.taken + 1 ELSE p.taken
    PROVE  /\ Head(p.queue) = "line" => Flowing(rest)
           /\ Head(p.queue) = "eof" => Through(rest)
<1>1. PICK q, n : q = p.queue /\ n = Len(q)
  OBVIOUS
<1>2. q \in Seq({"line", "error", "eof"}) /\ q # <<>> /\ n \in Nat /\ n >= 1
  BY <1>1 DEF Pipes
<1>3. /\ Head(q) = q[1] /\ Len(Tail(q)) = n - 1
      /\ \A i \in 1 .. (n - 1) : Tail(q)[i] = q[i + 1]
  BY <1>1, <1>2
<1>4. p.read \in Nat /\ p.taken \in Nat
  BY ProxyAssumption DEF Pipes, ProxyAssumption
<1>5. ASSUME q[1] = "line" PROVE Flowing(rest)
  <2>1. \A i \in 1 .. (n - 1) : i + 1 \in 1 .. n
    BY <1>2
  <2>2. ASSUME NEW i \in 1 .. (n - 1), Tail(q)[i] = "eof" PROVE i = n - 1 /\ p.job = "none"
    <3>1. i + 1 \in 1 .. n /\ q[i + 1] = "eof"
      BY <1>3, <2>1, <2>2
    <3>2. i + 1 = n /\ p.job = "none"
      BY <1>1, <3>1 DEF Flowing
    <3> QED
      BY <1>2, <3>2
  <2>3. ASSUME NEW i \in 1 .. n, q[i] = "error" PROVE \E j \in 1 .. (n - 1) : Tail(q)[j] = "error"
    <3>1. i # 1
      BY <1>5, <2>3
    <3>2. i - 1 \in 1 .. (n - 1) /\ (i - 1) + 1 = i
      BY <1>2, <3>1
    <3> QED
      BY <1>3, <2>3, <3>2
  <2>4. \/ p.job = "error"
        \/ \E i \in 1 .. n : q[i] = "error"
        \/ p.read + Ended(p.job) = p.taken + n + Missing(p.job)
    BY <1>1 DEF Flowing
  <2>5. rest.taken = p.taken + 1
    BY <1>1, <1>3, <1>5
  <2>6. Ended(p.job) \in Nat /\ Missing(p.job) \in Nat
    BY DEF Ended, Missing
  <2>7. p.taken + n + Missing(p.job) = (p.taken + 1) + (n - 1) + Missing(p.job)
    BY <1>2, <1>4, <2>6
  <2> QED
    BY <1>1, <1>3, <2>2, <2>3, <2>4, <2>5, <2>7 DEF Flowing
<1>6. ASSUME q[1] = "eof" PROVE Through(rest)
  <2>0. 1 \in 1 .. n
    BY <1>2
  <2>6. /\ \A i \in 1 .. n : q[i] = "eof" => i = n /\ p.job = "none"
        /\ \/ p.job = "error"
           \/ \E i \in 1 .. n : q[i] = "error"
           \/ p.read + Ended(p.job) = p.taken + n + Missing(p.job)
    BY <1>1 DEF Flowing
  <2>1. n = 1 /\ p.job = "none"
    BY <1>6, <2>0, <2>6
  <2>2. ~ \E i \in 1 .. n : q[i] = "error"
    BY <1>6, <2>1
  <2>3. p.read + 1 = p.taken + 1 + 0
    BY <2>1, <2>2, <2>6 DEF Ended, Missing
  <2>4. Tail(q) = <<>>
    <3>1. Tail(q) \in Seq({"line", "error", "eof"})
      BY <1>2
    <3>2. Len(Tail(q)) = 0
      BY <1>3, <2>1
    <3> QED
      BY <3>1, <3>2, EmptySeq
  <2>5. rest.taken = p.taken
    BY <1>1, <1>3, <1>6
  <2> QED
    BY <1>1, <1>4, <2>1, <2>3, <2>4, <2>5 DEF Through
<1> QED
  BY <1>1, <1>3, <1>5, <1>6

(* The reader puts what it has. *)
LEMMA FlowPuts ==
    ASSUME NEW p \in Pipes, Flowing(p), p.job \in {"line", "error", "eof"}, NEW more \in Pipes,
           more.job = AfterPut(p.job), more.read = p.read, more.taken = p.taken,
           more.queue = Append(p.queue, p.job)
    PROVE  Flowing(more)
<1>1. PICK q, n, job : q = p.queue /\ n = Len(q) /\ job = p.job
  OBVIOUS
<1>2. /\ q \in Seq({"line", "error", "eof"}) /\ n \in Nat
      /\ p.read \in Nat /\ p.taken \in Nat
  BY <1>1, ProxyAssumption DEF Pipes, ProxyAssumption
<1>3. PICK longer : longer = Append(q, job)
  OBVIOUS
<1>4. /\ Len(longer) = n + 1 /\ longer[n + 1] = job
      /\ \A i \in 1 .. n : longer[i] = q[i]
  BY <1>1, <1>2, <1>3
<1>5. \A i \in 1 .. (n + 1) : i \in 1 .. n \/ i = n + 1
  BY <1>2
<1>6. job # "none" /\ \A i \in 1 .. n : q[i] # "eof"
  BY <1>1 DEF Flowing
<1>7. \/ job = "error"
      \/ \E i \in 1 .. n : q[i] = "error"
      \/ p.read = p.taken + n + Missing(job)
  BY <1>1, <1>2, <1>6 DEF Flowing, Ended
<1>8. ASSUME NEW i \in 1 .. (n + 1), longer[i] = "eof" PROVE i = n + 1 /\ AfterPut(job) = "none"
  BY <1>1, <1>4, <1>5, <1>6, <1>8 DEF AfterPut
<1>9. \/ \E i \in 1 .. (n + 1) : longer[i] = "error"
      \/ p.read + Ended(AfterPut(job)) = p.taken + (n + 1) + Missing(AfterPut(job))
  <2>1. n + 1 \in 1 .. (n + 1) /\ \A i \in 1 .. n : i \in 1 .. (n + 1)
    BY <1>2
  <2>2. CASE job = "error" \/ \E i \in 1 .. n : q[i] = "error"
    BY <1>4, <2>1, <2>2
  <2>5. AfterPut("line") = "read" /\ AfterPut("eof") = "none"
    BY DEF AfterPut
  <2>6. /\ Missing("line") = 1 /\ Missing("eof") = 0
        /\ Missing("read") = 0 /\ Missing("none") = 0
        /\ Ended("read") = 0 /\ Ended("none") = 1
    BY DEF Missing, Ended
  <2>3. ASSUME job = "line", p.read = p.taken + n + Missing(job)
        PROVE  p.read + Ended(AfterPut(job)) = p.taken + (n + 1) + Missing(AfterPut(job))
    <3>1. Missing(job) = 1
      BY <2>3, <2>6
    <3>2. p.read = p.taken + n + 1
      BY <2>3, <3>1
    <3>3. p.read + 0 = p.taken + (n + 1) + 0
      <4>1. \A a, b, c \in Nat : a = b + c + 1 => a + 0 = b + (c + 1) + 0
        OBVIOUS
      <4> QED
        BY <1>2, <3>2, <4>1, Zenon
    <3> QED
      BY <2>3, <2>5, <2>6, <3>3, Zenon
  <2>4. ASSUME job = "eof", p.read = p.taken + n + Missing(job)
        PROVE  p.read + Ended(AfterPut(job)) = p.taken + (n + 1) + Missing(AfterPut(job))
    <3>1. Missing(job) = 0
      BY <2>4, <2>6
    <3>2. p.read = p.taken + n + 0
      BY <2>4, <3>1
    <3>3. p.read + 1 = p.taken + (n + 1) + 0
      BY <1>2, <3>2
    <3> QED
      BY <2>4, <2>5, <2>6, <3>3, Zenon
  <2>7. job \in {"line", "error", "eof"}
    BY <1>1
  <2> QED
    BY <1>7, <2>2, <2>3, <2>4, <2>7
<1> QED
  BY <1>1, <1>3, <1>4, <1>8, <1>9 DEF Flowing

(* A reader begins, reads a line, or finds the end or a failure. *)
LEMMA FlowReads ==
    ASSUME NEW p \in Pipes, Flowing(p), NEW next \in Pipes,
           next.taken = p.taken, next.queue = p.queue,
           \/ p.job = "queued" /\ next.job = "read" /\ next.read = p.read
           \/ p.job = "read" /\ next.job = "line" /\ next.read = p.read + 1
           \/ p.job = "read" /\ next.job \in {"error", "eof"} /\ next.read = p.read
    PROVE  Flowing(next)
<1>1. p.read \in Nat /\ p.taken \in Nat /\ Len(p.queue) \in Nat
  BY ProxyAssumption DEF Pipes, ProxyAssumption
<1>2. p.job \in {"queued", "read"} /\ \A i \in 1 .. Len(p.queue) : p.queue[i] # "eof"
  BY DEF Flowing
<1>3. \/ \E i \in 1 .. Len(p.queue) : p.queue[i] = "error"
      \/ p.read = p.taken + Len(p.queue)
  BY <1>1, <1>2 DEF Flowing, Ended, Missing
<1>4. \/ next.job = "error"
      \/ \E i \in 1 .. Len(p.queue) : p.queue[i] = "error"
      \/ next.read + Ended(next.job) = next.taken + Len(p.queue) + Missing(next.job)
  BY <1>1, <1>3 DEF Ended, Missing
<1> QED
  BY <1>2, <1>4 DEF Flowing

LEMMA FlowHandler ==
    ASSUME TypeParts, AllFlow, NEW r \in Request, Handler(r)
    PROVE  Flow(call'[r], pipe'[r])
<1>1. PICK c, p : c = call[r] /\ p = pipe[r]
  OBVIOUS
<1>2. c \in Calls /\ p \in Pipes /\ Flow(c, p)
  BY <1>1 DEF TypeParts, AllFlow
<1>3. \A to : call' = Moved(r, to) => call'[r].at = to /\ call'[r].failed = c.failed
  BY <1>1, StageOnly
<1>4. /\ Ask(r) => call'[r].at = "asking"
      /\ Returns(r) => call'[r].at = "over"
  BY <1>1, StageOnly
<1>5. ASSUME NEW b \in BOOLEAN, call' = [call EXCEPT ![r].at = "closing", ![r].failed = b]
      PROVE  call'[r].at = "closing" /\ call'[r].failed = b
  <2>1. PICK next : next = [c EXCEPT !.at = "closing", !.failed = b]
    OBVIOUS
  <2>2. next.at = "closing" /\ next.failed = b
    BY <1>2, <2>1 DEF Calls
  <2>3. call'[r] = next
    BY <1>1, <1>5, <2>1 DEF TypeParts
  <2> QED
    BY <2>2, <2>3
<1>6. UNCHANGED pipe => pipe'[r] = p
  BY <1>1
<1>7. CASE Begin(r) \/ Untranslatable(r) \/ HeadDrained(r) \/ LastDrained(r)
  <2>1. call'[r].at \in {"last", "head", "asking", "failing", "over"}
    BY <1>3, <1>4, <1>7 DEF Begin, Untranslatable, HeadDrained, LastDrained
  <2> QED
    BY <2>1 DEF Flow
<1>8. CASE Answered(r)
  <2>1. CASE call' = Moved(r, "last")
    BY <1>3, <2>1 DEF Flow
  <2>2. CASE call' = Moved(r, "taking") /\ pipe' = Submitted(r, "queued")
    <3>1. PICK next : next = [Idle EXCEPT !.job = "queued"]
      OBVIOUS
    <3>2. next.job = "queued" /\ next.queue = <<>> /\ next.read = 0 /\ next.taken = 0
      BY <3>1 DEF Idle
    <3>3. Flowing(next)
      BY <3>2 DEF Flowing, Ended, Missing
    <3>4. pipe'[r] = next
      BY <2>2, <3>1 DEF Submitted, TypeParts
    <3> QED
      BY <1>3, <2>2, <3>3, <3>4 DEF Flow
  <2> QED
    BY <1>8, <2>1, <2>2 DEF Answered
<1>9. CASE Take(r)
  <2>1. PICK taken, item, rest : /\ item = Head(p.queue)
                                 /\ taken = IF item = "line" THEN p.taken + 1 ELSE p.taken
                                 /\ rest = [p EXCEPT !.queue = Tail(@), !.taken = taken]
    OBVIOUS
  <2>2. /\ rest.job = p.job /\ rest.read = p.read /\ rest.queue = Tail(p.queue)
        /\ rest.taken = IF Head(p.queue) = "line" THEN p.taken + 1 ELSE p.taken
    BY <1>2, <2>1 DEF Pipes
  <2>3. pipe'[r] = rest
    BY <1>1, <1>9, <2>1 DEF Take, TypeParts
  <2>4. rest \in Pipes
    BY <1>9, <2>3, TypeTake DEF TypeParts
  <2>5. c.at = "taking" /\ p.queue # <<>>
    BY <1>1, <1>9 DEF Take
  <2>6. Flowing(p)
    BY <1>2, <2>5 DEF Flow
  <2>7. (item = "line" => Flowing(rest)) /\ (item = "eof" => Through(rest))
    BY <1>2, <2>1, <2>2, <2>4, <2>5, <2>6, FlowTakes
  <2>8. CASE item = "line" /\ (call' = Moved(r, "draining") \/ UNCHANGED call)
    <3>1. call'[r].at \in {"taking", "draining"}
      BY <1>1, <1>3, <2>5, <2>8
    <3> QED
      BY <2>3, <2>7, <2>8, <3>1 DEF Flow
  <2>9. CASE call' = [call EXCEPT ![r].at = "closing", ![r].failed = TRUE]
    BY <1>5, <2>9 DEF Flow
  <2>10. CASE item = "eof" /\ call' = [call EXCEPT ![r].at = "closing", ![r].failed = FALSE]
    <3>1. call'[r].at = "closing"
      BY <1>5, <2>10
    <3> QED
      BY <2>3, <2>7, <2>10, <3>1 DEF Flow
  <2> QED
    BY <1>1, <1>9, <2>1, <2>8, <2>9, <2>10 DEF Take
<1>10. CASE LineDrained(r)
  BY <1>1, <1>2, <1>3, <1>6, <1>10 DEF LineDrained, Flow
<1>11. CASE DrainRaises(r)
  <2>1. CASE call' = Moved(r, "failing")
    BY <1>3, <2>1 DEF Flow
  <2>2. CASE call' = [call EXCEPT ![r].at = "closing", ![r].failed = TRUE]
    BY <1>5, <2>2 DEF Flow
  <2> QED
    BY <1>11, <2>1, <2>2 DEF DrainRaises
<1>12. CASE Close(r)
  BY <1>1, <1>2, <1>3, <1>6, <1>12 DEF Close, Flow
<1>13. CASE Join(r)
  BY <1>3, <1>4, <1>13 DEF Join, Flow
<1>14. CASE Fail(r)
  <2>1. call'[r].at \in {"starting", "over"}
    BY <1>1, <1>2, <1>4, <1>14 DEF Fail, TypeParts, Calls
  <2> QED
    BY <2>1 DEF Flow
<1> QED
  BY <1>7, <1>8, <1>9, <1>10, <1>11, <1>12, <1>13, <1>14 DEF Handler

LEMMA FlowThread ==
    ASSUME TypeParts, TypeParts', AllFlow, NEW r \in Request, Thread(r)
    PROVE  Flow(call'[r], pipe'[r])
<1>1. PICK c, p, next : c = call[r] /\ p = pipe[r] /\ next = pipe'[r]
  OBVIOUS
<1>2. p \in Pipes /\ next \in Pipes /\ Flow(c, p) /\ call'[r] = c
  BY <1>1 DEF TypeParts, AllFlow, Thread, ReadLine, ReadEnds, Put
<1>3. p.job \in {"read", "line", "error", "eof"}
  BY <1>1 DEF Thread, ReadLine, ReadEnds, Put
<1>4. ~ (c.at \in {"closing", "joining"} /\ ~ c.failed)
  BY <1>2, <1>3 DEF Flow, Through
<1> SUFFICES ASSUME c.at \in {"taking", "draining"} PROVE Flowing(next)
  BY <1>1, <1>2, <1>4 DEF Flow
<1>5. Flowing(p)
  BY <1>2 DEF Flow
<1>6. CASE ReadLine(r)
  <2>1. next = [p EXCEPT !.read = @ + 1, !.job = "line"] /\ p.job = "read"
    BY <1>1, <1>6 DEF ReadLine, TypeParts
  <2>2. next.job = "line" /\ next.read = p.read + 1 /\ next.taken = p.taken /\ next.queue = p.queue
    BY <1>2, <2>1 DEF Pipes
  <2> QED
    BY <1>2, <1>5, <2>1, <2>2, FlowReads
<1>7. CASE ReadEnds(r)
  <2>1. PICK job \in {"error", "eof"} : next = [p EXCEPT !.job = job]
    BY <1>1, <1>7 DEF ReadEnds, TypeParts
  <2>2. p.job = "read" /\ next.job = job /\ next.read = p.read /\ next.taken = p.taken /\ next.queue = p.queue
    BY <1>1, <1>2, <1>7, <2>1 DEF ReadEnds, Pipes
  <2> QED
    BY <1>2, <1>5, <2>2, FlowReads
<1>8. CASE Put(r)
  <2>1. PICK queue, job : queue = Append(p.queue, p.job) /\ job = AfterPut(p.job)
    OBVIOUS
  <2>2. next = [p EXCEPT !.queue = queue, !.job = job] /\ p.job \in {"line", "error", "eof"}
    BY <1>1, <1>8, <2>1 DEF Put, TypeParts
  <2>3. next.job = job /\ next.read = p.read /\ next.taken = p.taken /\ next.queue = queue
    BY <1>2, <2>2 DEF Pipes
  <2> QED
    BY <1>2, <1>5, <2>1, <2>2, <2>3, FlowPuts
<1> QED
  BY <1>6, <1>7, <1>8 DEF Thread

LEMMA FlowStep ==
    ASSUME TypeParts, TypeParts', Quiet, Queued, AllFlow, [Next]_vars
    PROVE  AllFlow'
<1>1. CASE UNCHANGED <<call, pipe>>
  BY <1>1 DEF AllFlow
<1>2. ASSUME NEW r \in Request, Foot(r), Flow(call'[r], pipe'[r]) PROVE AllFlow'
  BY <1>2 DEF AllFlow, Foot
<1>3. CASE StartJob
  <2>1. PICK r, p, next : r = Head(jobs) /\ p = pipe[r] /\ next = pipe'[r]
    OBVIOUS
  <2>2. /\ r \in Request /\ p.job = "queued" /\ UNCHANGED call
        /\ \A q \in Request \ {r} : pipe'[q] = pipe[q]
    BY <1>3, <2>1, QueuedStarts DEF StartJob
  <2>3. p \in Pipes /\ next \in Pipes /\ Flow(call[r], p)
    BY <2>1, <2>2 DEF TypeParts, AllFlow
  <2>4. next = [p EXCEPT !.job = IF call[r].at = "asking" THEN "asking" ELSE "read"]
    BY <1>3, <2>1, <2>2 DEF StartJob, TypeParts
  <2>5. /\ next.taken = p.taken /\ next.queue = p.queue /\ next.read = p.read
        /\ call[r].at # "asking" => next.job = "read"
    BY <2>3, <2>4 DEF Pipes
  <2>6. call[r].at \in {"taking", "draining"} => Flowing(next)
    BY <2>2, <2>3, <2>5, FlowReads DEF Flow
  <2>7. ~ (call[r].at \in {"closing", "joining"} /\ ~ call[r].failed)
    BY <2>2, <2>3 DEF Flow, Through
  <2>8. Flow(call'[r], pipe'[r])
    BY <2>1, <2>2, <2>6, <2>7 DEF Flow
  <2>9. Foot(r)
    BY <2>2 DEF Foot
  <2> QED
    BY <1>2, <2>2, <2>8, <2>9
<1>4. ASSUME NEW r \in Request, Handler(r) PROVE AllFlow'
  BY <1>2, <1>4, FootHandler, FlowHandler
<1>5. ASSUME NEW r \in Request, Thread(r) PROVE AllFlow'
  BY <1>2, <1>5, FootOther, FlowThread
<1>6. ASSUME NEW r \in Request, RouteToFleet(r) \/ RouteLocally(r) \/ Reject(r) PROVE AllFlow'
  <2>1. call'[r].at \in {"starting", "last"}
    <3>1. Reject(r) => call' = Moved(r, "last")
      BY DEF Reject, Moved
    <3> QED
      BY <1>6, <3>1, Routed, StageOnly
  <2>2. Flow(call'[r], pipe'[r]) /\ Foot(r)
    BY <1>6, <2>1, FootOther DEF Flow
  <2> QED
    BY <1>2, <2>2
<1>7. ASSUME NEW r \in Request, ClientLeaves(r) PROVE AllFlow'
  <2>1. PICK c : c = call[r]
    OBVIOUS
  <2>2. c \in Calls /\ Flow(c, pipe[r])
    BY <2>1 DEF TypeParts, AllFlow
  <2>3. call'[r] = [c EXCEPT !.client = "gone"] /\ UNCHANGED pipe
    BY <1>7, <2>1 DEF ClientLeaves, TypeParts
  <2>4. call'[r].at = c.at /\ call'[r].failed = c.failed
    BY <2>2, <2>3 DEF Calls
  <2>5. Flow(call'[r], pipe'[r]) /\ Foot(r)
    BY <1>7, <2>2, <2>3, <2>4, FootOther DEF Flow
  <2> QED
    BY <1>2, <2>5
<1> QED
  BY <1>1, <1>3, <1>4, <1>5, <1>6, <1>7 DEF Next, vars

(* When the end mark of a stream was taken, its client has every line the  *)
(* reader got: none is behind the mark, and none is on its way.            *)
THEOREM EndMarkIsLast == Spec => []EndIsLast
<1>1. Init => Quiet /\ Queued /\ AllFlow
  BY QueuedInit, FlowInit
<1>2. TypeParts /\ Quiet /\ Queued /\ [Next]_vars => (Quiet /\ Queued)'
  BY QueuedStep
<1>3. TypeParts /\ TypeParts' /\ Quiet /\ Queued /\ AllFlow /\ [Next]_vars => AllFlow'
  BY FlowStep
<1>4. AllFlow => EndIsLast
  BY DEF AllFlow, Flow, Through, EndIsLast
<1> QED
  BY <1>1, <1>2, <1>3, <1>4, Basics, PTL DEF Spec

-----------------------------------------------------------------------------
(* What a step does to a request, for its progress. *)

Waiting == [Idle EXCEPT !.job = "queued"]

(* A handler's step, for the request and its pipe before and after.        *)
HandlerMoves(c, p, d, q) ==
    \/ /\ d.counted = c.counted
       /\ \/ /\ q = p
             /\ \/ c.at = "starting" /\ d.at \in {"head", "last", "failing"}
                \/ c.at \in {"head", "last"} /\ d.at = "failing"
                \/ c.at = "draining" /\ d.at \in {"taking", "closing"}
                \/ c.at = "closing" /\ d.at = "joining"
          \/ /\ q = Waiting
             /\ \/ c.at \in {"starting", "head"} /\ d.at = "asking"
                \/ c.at = "asking" /\ p.job = "asking" /\ d.at = "taking"
          \/ /\ q = Idle /\ d.at = "last"
             /\ c.at = "asking" \/ c.at = "joining"
          \/ /\ c.at = "taking" /\ p.queue # <<>>
             /\ q.job = p.job /\ q.read = p.read /\ q.queue = Tail(p.queue)
             /\ \/ d.at = "closing"
                \/ Head(p.queue) = "line" /\ d.at \in {"taking", "draining"}
    \/ /\ c.at \in {"joining", "last", "failing"} /\ d.at = "over"
       /\ d.counted = None /\ q = Idle
    \/ /\ c.at = "failing" /\ d.at = "starting"
       /\ c.counted # None /\ d.counted = None /\ q = p

(* A step of a thread. *)
ThreadMoves(c, p, q) ==
    \/ /\ p.job = "read" /\ q.queue = p.queue
       /\ \/ q.read = p.read + 1 /\ q.job = "line" /\ c.at # "joining"
          \/ q.read = p.read + 1 /\ q.job = "eof" /\ c.at = "closing"
          \/ q.read = p.read /\ q.job \in {"error", "eof"}
    \/ /\ p.job \in {"line", "error", "eof"} /\ q.read = p.read
       /\ q.queue = Append(p.queue, p.job) /\ q.job = AfterPut(p.job)

LEMMA HandlerIsMove ==
    ASSUME TypeParts, NEW r \in Request, Handler(r)
    PROVE  HandlerMoves(call[r], pipe[r], call'[r], pipe'[r])
<1>1. PICK c, p, d, q : c = call[r] /\ p = pipe[r] /\ d = call'[r] /\ q = pipe'[r]
  OBVIOUS
<1>2. c \in Calls /\ p \in Pipes /\ call \in [Request -> Calls] /\ pipe \in [Request -> Pipes]
  BY <1>1 DEF TypeParts
<1>3. ASSUME NEW to, call' = Moved(r, to) PROVE d.at = to /\ d.counted = c.counted
  <2>1. d = [c EXCEPT !.at = to]
    BY <1>1, <1>2, <1>3 DEF Moved
  <2> QED
    BY <1>2, <2>1 DEF Calls
<1>4. ASSUME NEW b, call' = [call EXCEPT ![r].at = "closing", ![r].failed = b]
      PROVE  d.at = "closing" /\ d.counted = c.counted
  <2>1. d = [c EXCEPT !.at = "closing", !.failed = b]
    BY <1>1, <1>2, <1>4
  <2> QED
    BY <1>2, <2>1 DEF Calls
<1>5. ASSUME Ask(r) PROVE d.at = "asking" /\ d.counted = c.counted /\ q = Waiting
  <2>1. d = [c EXCEPT !.at = "asking", !.asked = @ \cup {c.backend}]
    BY <1>1, <1>2, <1>5 DEF Ask
  <2>2. q = Waiting
    BY <1>1, <1>2, <1>5 DEF Ask, Submitted, Waiting
  <2> QED
    BY <1>2, <2>1, <2>2 DEF Calls
<1>6. ASSUME Returns(r) PROVE d.at = "over" /\ d.counted = None /\ q = Idle
  <2>1. d = [New EXCEPT !.at = "over"] /\ q = Idle
    BY <1>1, <1>2, <1>6 DEF Returns
  <2> QED
    BY <2>1 DEF New
<1>7. UNCHANGED pipe => q = p
  BY <1>1
<1> SUFFICES HandlerMoves(c, p, d, q)
  BY <1>1
<1>8. CASE Begin(r)
  BY <1>1, <1>3, <1>5, <1>7, <1>8 DEF Begin, HandlerMoves
<1>9. CASE Untranslatable(r)
  BY <1>1, <1>3, <1>7, <1>9 DEF Untranslatable, HandlerMoves
<1>10. CASE HeadDrained(r)
  BY <1>1, <1>5, <1>10 DEF HeadDrained, HandlerMoves
<1>11. CASE Answered(r)
  <2>1. pipe' = [pipe EXCEPT ![r] = Idle] => q = Idle
    BY <1>1, <1>2
  <2>2. pipe' = Submitted(r, "queued") => q = Waiting
    BY <1>1, <1>2 DEF Submitted, Waiting
  <2> QED
    BY <1>1, <1>3, <1>11, <2>1, <2>2 DEF Answered, HandlerMoves
<1>12. CASE Take(r)
  <2>1. PICK taken, item, rest : /\ item = Head(p.queue)
                                 /\ taken = IF item = "line" THEN p.taken + 1 ELSE p.taken
                                 /\ rest = [p EXCEPT !.queue = Tail(@), !.taken = taken]
    OBVIOUS
  <2>2. q.job = p.job /\ q.read = p.read /\ q.queue = Tail(p.queue)
    <3>1. rest.job = p.job /\ rest.read = p.read /\ rest.queue = Tail(p.queue)
      BY <1>2, <2>1 DEF Pipes
    <3>2. q = rest
      BY <1>1, <1>12, <2>1 DEF Take, TypeParts
    <3> QED
      BY <3>1, <3>2
  <2>3. c.at = "taking" /\ p.queue # <<>>
    BY <1>1, <1>12 DEF Take
  <2>4. \/ d.at = "closing" /\ d.counted = c.counted
        \/ /\ Head(p.queue) = "line" /\ d.at \in {"taking", "draining"}
           /\ d.counted = c.counted
    <3>1. UNCHANGED call => d = c
      BY <1>1
    <3>2. \/ call' = Moved(r, "draining") /\ Head(p.queue) = "line"
          \/ UNCHANGED call /\ Head(p.queue) = "line"
          \/ \E b \in BOOLEAN : call' = [call EXCEPT ![r].at = "closing", ![r].failed = b]
      BY <1>1, <1>12 DEF Take
    <3> QED
      BY <1>3, <1>4, <2>3, <3>1, <3>2
  <2> QED
    BY <2>2, <2>3, <2>4 DEF HandlerMoves
<1>13. CASE LineDrained(r)
  BY <1>1, <1>3, <1>7, <1>13 DEF LineDrained, HandlerMoves
<1>14. CASE DrainRaises(r)
  BY <1>1, <1>3, <1>4, <1>7, <1>14 DEF DrainRaises, HandlerMoves
<1>15. CASE Close(r)
  BY <1>1, <1>3, <1>7, <1>15 DEF Close, HandlerMoves
<1>16. CASE Join(r)
  <2>1. pipe' = [pipe EXCEPT ![r] = Idle] => q = Idle
    BY <1>1, <1>2
  <2> QED
    BY <1>1, <1>3, <1>6, <1>16, <2>1 DEF Join, HandlerMoves
<1>17. CASE LastDrained(r)
  BY <1>1, <1>6, <1>17 DEF LastDrained, HandlerMoves
<1>18. CASE Fail(r)
  <2>1. ASSUME call' = [call EXCEPT ![r].at = "starting", ![r].backend = Own,
                                    ![r].counted = None, ![r].failed = FALSE]
        PROVE  d.at = "starting" /\ d.counted = None
    <3>1. d = [c EXCEPT !.at = "starting", !.backend = Own, !.counted = None, !.failed = FALSE]
      BY <1>1, <1>2, <2>1
    <3> QED
      BY <1>2, <3>1 DEF Calls
  <2> QED
    BY <1>1, <1>6, <1>7, <1>18, <2>1 DEF Fail, HandlerMoves
<1> QED
  BY <1>8, <1>9, <1>10, <1>11, <1>12, <1>13, <1>14, <1>15, <1>16, <1>17, <1>18 DEF Handler

LEMMA ThreadIsMove ==
    ASSUME TypeParts, NEW r \in Request, Thread(r)
    PROVE  /\ call'[r] = call[r] /\ jobs' = jobs
           /\ ThreadMoves(call[r], pipe[r], pipe'[r])
<1>1. PICK c, p, q : c = call[r] /\ p = pipe[r] /\ q = pipe'[r]
  OBVIOUS
<1>2. p \in Pipes /\ pipe \in [Request -> Pipes] /\ call'[r] = c /\ jobs' = jobs
  BY <1>1 DEF TypeParts, Thread, ReadLine, ReadEnds, Put
<1>3. CASE ReadLine(r)
  <2>1. q = [p EXCEPT !.read = @ + 1, !.job = IF c.at = "closing" THEN "eof" ELSE "line"]
    BY <1>1, <1>2, <1>3 DEF ReadLine
  <2>2. /\ q.read = p.read + 1 /\ q.queue = p.queue
        /\ q.job = IF c.at = "closing" THEN "eof" ELSE "line"
    BY <1>2, <2>1 DEF Pipes
  <2> QED
    BY <1>1, <1>2, <1>3, <2>2 DEF ReadLine, ThreadMoves
<1>4. CASE ReadEnds(r)
  <2>1. PICK job \in {"error", "eof"} : q = [p EXCEPT !.job = job]
    BY <1>1, <1>2, <1>4 DEF ReadEnds
  <2>2. q.read = p.read /\ q.queue = p.queue /\ q.job = job
    BY <1>2, <2>1 DEF Pipes
  <2> QED
    BY <1>1, <1>2, <1>4, <2>2 DEF ReadEnds, ThreadMoves
<1>5. CASE Put(r)
  <2>1. PICK queue, job : queue = Append(p.queue, p.job) /\ job = AfterPut(p.job)
    OBVIOUS
  <2>2. q = [p EXCEPT !.queue = queue, !.job = job]
    BY <1>1, <1>2, <1>5, <2>1 DEF Put
  <2>3. q.read = p.read /\ q.queue = queue /\ q.job = job
    BY <1>2, <2>2 DEF Pipes
  <2> QED
    BY <1>1, <1>2, <1>5, <2>1, <2>3 DEF Put, ThreadMoves
<1> QED
  BY <1>3, <1>4, <1>5 DEF Thread

(* A request whose job a thread takes. *)
LEMMA StartIsMove ==
    ASSUME TypeParts, Quiet, Queued, StartJob
    PROVE  LET r == Head(jobs)
           IN  /\ r \in Request /\ UNCHANGED call /\ jobs' = Tail(jobs)
               /\ pipe[r].job = "queued"
               /\ pipe'[r].job = IF call[r].at = "asking" THEN "asking" ELSE "read"
               /\ pipe'[r].queue = pipe[r].queue /\ pipe'[r].read = pipe[r].read
               /\ \A q \in Request \ {r} : pipe'[q] = pipe[q]
<1>1. PICK r, p : r = Head(jobs) /\ p = pipe[r]
  OBVIOUS
<1>2. /\ r \in Request /\ p.job = "queued"
      /\ \A q \in Request \ {r} : pipe'[q] = pipe[q]
  BY <1>1, QueuedStarts
<1>3. p \in Pipes /\ pipe'[r] = [p EXCEPT !.job = IF call[r].at = "asking" THEN "asking" ELSE "read"]
  BY <1>1, <1>2 DEF StartJob, TypeParts
<1>4. /\ pipe'[r].job = IF call[r].at = "asking" THEN "asking" ELSE "read"
      /\ pipe'[r].queue = p.queue /\ pipe'[r].read = p.read
  BY <1>3 DEF Pipes
<1> QED
  BY <1>1, <1>2, <1>4 DEF StartJob

-----------------------------------------------------------------------------
(* Where the proxy can stop. *)

(* What a job has come to at each stage of its request.  A stream that was *)
(* not taken to its end has the end mark in the queue, if not its reader.  *)
Staged(c, p) ==
    /\ c.at \notin Piped => p.job = "none"
    /\ c.at = "asking" => p.job \in {"queued", "asking"}
    /\ c.at = "taking" => p.job # "asking"
    /\ c.at \in {"draining", "closing", "joining"} => p.job \notin {"queued", "asking"}
    /\ p.job = "queued" => p.queue = <<>>
    /\ c.at \in {"taking", "draining"} /\ p.job = "none"
          => p.queue # <<>> /\ p.queue[Len(p.queue)] = "eof"

AllStaged == \A r \in Request : Staged(call[r], pipe[r])

(* A job that waits for a thread is in line for one.                       *)
InLine == \A r \in Request : pipe[r].job = "queued" => \E i \in 1 .. Len(jobs) : jobs[i] = r

LEMMA StagedHandler ==
    ASSUME NEW c \in Calls, NEW p \in Pipes, NEW d \in Calls, NEW q \in Pipes,
           Staged(c, p), HandlerMoves(c, p, d, q)
    PROVE  Staged(d, q)
<1>1. /\ Waiting.job = "queued" /\ Waiting.queue = <<>>
      /\ Idle.job = "none" /\ Idle.queue = <<>>
  BY DEF Waiting, Idle
<1>2. CASE q = p /\ c.at \notin Piped /\ d.at \notin Piped
  BY <1>2 DEF Staged, Piped
<1>3. CASE /\ q = p
           /\ \/ c.at = "draining" /\ d.at \in {"taking", "closing"}
              \/ c.at = "closing" /\ d.at = "joining"
  BY <1>3 DEF Staged, Piped
<1>4. CASE q = Waiting /\ d.at \in {"asking", "taking"}
  BY <1>1, <1>4 DEF Staged, Piped
<1>5. CASE q = Idle /\ d.at \in {"last", "over"}
  BY <1>1, <1>5 DEF Staged, Piped
<1>6. CASE /\ c.at = "taking" /\ p.queue # <<>>
           /\ q.job = p.job /\ q.read = p.read /\ q.queue = Tail(p.queue)
           /\ \/ d.at = "closing"
              \/ Head(p.queue) = "line" /\ d.at \in {"taking", "draining"}
  <2>1. p.job \notin {"queued", "asking"}
    BY <1>6 DEF Staged
  <2>2. CASE d.at = "closing" \/ p.job # "none"
    BY <1>6, <2>1, <2>2 DEF Staged, Piped
  <2>3. CASE d.at # "closing" /\ p.job = "none"
    <3>1. PICK s, n : s = p.queue /\ n = Len(s)
      OBVIOUS
    <3>2. s \in Seq({"line", "error", "eof"}) /\ n \in Nat /\ n >= 1
      BY <1>6, <3>1 DEF Pipes
    <3>3. s[n] = "eof" /\ s[1] = "line"
      BY <1>6, <2>3, <3>1, <3>2 DEF Staged
    <3>4. n >= 2
      BY <3>2, <3>3
    <3>5. PICK rest : rest = Tail(s)
      OBVIOUS
    <3>6. /\ rest \in Seq({"line", "error", "eof"}) /\ Len(rest) = n - 1
          /\ \A i \in 1 .. (n - 1) : rest[i] = s[i + 1]
      BY <3>1, <3>2, <3>5
    <3>7. n - 1 \in 1 .. (n - 1) /\ (n - 1) + 1 = n
      BY <3>2, <3>4
    <3>8. rest[n - 1] = s[n] /\ rest # <<>>
      BY <3>6, <3>7
    <3>9. q.queue # <<>> /\ q.queue[Len(q.queue)] = "eof"
      BY <1>6, <3>1, <3>3, <3>5, <3>6, <3>8
    <3> QED
      BY <1>6, <2>3, <3>9 DEF Staged, Piped
  <2> QED
    BY <2>2, <2>3
<1>7. \/ q = p /\ c.at \notin Piped /\ d.at \notin Piped
      \/ /\ q = p
         /\ \/ c.at = "draining" /\ d.at \in {"taking", "closing"}
            \/ c.at = "closing" /\ d.at = "joining"
      \/ q = Waiting /\ d.at \in {"asking", "taking"}
      \/ q = Idle /\ d.at \in {"last", "over"}
      \/ /\ c.at = "taking" /\ p.queue # <<>>
         /\ q.job = p.job /\ q.read = p.read /\ q.queue = Tail(p.queue)
         /\ \/ d.at = "closing"
            \/ Head(p.queue) = "line" /\ d.at \in {"taking", "draining"}
  BY DEF HandlerMoves, Piped
<1> QED
  BY <1>2, <1>4, <1>5, <1>6, <1>3, <1>7

LEMMA StagedThread ==
    ASSUME NEW c \in Calls, NEW p \in Pipes, NEW q \in Pipes,
           Staged(c, p), ThreadMoves(c, p, q)
    PROVE  Staged(c, q)
<1>1. p.job \in {"read", "line", "error", "eof"} /\ c.at \in Piped /\ c.at # "asking"
  BY DEF ThreadMoves, Staged, Piped
<1>2. q.job \notin {"none", "queued", "asking"} => Staged(c, q)
  BY <1>1 DEF Staged, Piped
<1>3. /\ AfterPut("line") = "read" /\ AfterPut("error") = "eof" /\ AfterPut("eof") = "none"
  BY DEF AfterPut
<1>4. CASE p.job = "eof" /\ q.job = "none"
  <2>1. q.queue = Append(p.queue, "eof")
    BY <1>4 DEF ThreadMoves
  <2>2. q.queue # <<>> /\ q.queue[Len(q.queue)] = "eof"
    BY <2>1 DEF Pipes
  <2> QED
    BY <1>1, <1>4, <2>2 DEF Staged, Piped
<1>5. p.job = "read" => q.job \notin {"none", "queued", "asking"}
  BY DEF ThreadMoves
<1>6. p.job \in {"line", "error"} => q.job \notin {"none", "queued", "asking"}
  BY <1>3 DEF ThreadMoves
<1>7. p.job = "eof" => q.job = "none"
  BY <1>3 DEF ThreadMoves
<1> QED
  BY <1>1, <1>2, <1>4, <1>5, <1>6, <1>7

(* A step by which a request only arrives or loses its client. *)
LEMMA ArrivalIsMove ==
    ASSUME TypeParts, NEW r \in Request,
           RouteToFleet(r) \/ RouteLocally(r) \/ Reject(r) \/ ClientLeaves(r)
    PROVE  /\ UNCHANGED <<pipe, jobs>>
           /\ \/ call[r].at = "new" /\ call'[r].at \in {"starting", "last"}
              \/ /\ call[r].at # "new" /\ call'[r].at = call[r].at
                 /\ call'[r].counted = call[r].counted
<1>1. UNCHANGED <<pipe, jobs>>
  BY DEF RouteToFleet, RouteLocally, Reject, ClientLeaves
<1>2. Reject(r) => call[r].at = "new" /\ call'[r].at = "last"
  BY StageOnly DEF Reject, Moved
<1>3. RouteToFleet(r) \/ RouteLocally(r) => call[r].at = "new" /\ call'[r].at = "starting"
  BY Routed DEF RouteToFleet, RouteLocally
<1>4. ASSUME ClientLeaves(r)
      PROVE  /\ call[r].at # "new" /\ call'[r].at = call[r].at
             /\ call'[r].counted = call[r].counted
  <2>1. PICK c : c = call[r]
    OBVIOUS
  <2>2. c \in Calls /\ c.at # "new" /\ call'[r] = [c EXCEPT !.client = "gone"]
    BY <1>4, <2>1 DEF ClientLeaves, TypeParts
  <2>3. call'[r].at = c.at /\ call'[r].counted = c.counted
    BY <2>2 DEF Calls
  <2> QED
    BY <2>1, <2>2, <2>3
<1> QED
  BY <1>1, <1>2, <1>3, <1>4

LEMMA StagedStep ==
    ASSUME TypeParts, TypeParts', Quiet, Queued, AllStaged, [Next]_vars
    PROVE  AllStaged'
<1>1. \A r \in Request : /\ call[r] \in Calls /\ pipe[r] \in Pipes /\ Staged(call[r], pipe[r])
                         /\ call'[r] \in Calls /\ pipe'[r] \in Pipes
  BY DEF TypeParts, AllStaged
<1>2. ASSUME NEW r \in Request, Foot(r), Staged(call'[r], pipe'[r]) PROVE AllStaged'
  BY <1>1, <1>2 DEF AllStaged, Foot
<1>3. ASSUME NEW r \in Request, Handler(r) PROVE AllStaged'
  BY <1>1, <1>2, <1>3, FootHandler, HandlerIsMove, StagedHandler
<1>4. ASSUME NEW r \in Request, Thread(r) PROVE AllStaged'
  BY <1>1, <1>2, <1>4, FootOther, ThreadIsMove, StagedThread
<1>5. ASSUME NEW r \in Request, RouteToFleet(r) \/ RouteLocally(r) \/ Reject(r) \/ ClientLeaves(r)
      PROVE  AllStaged'
  <2>1. Foot(r) /\ pipe'[r] = pipe[r]
    BY <1>5, FootOther, ArrivalIsMove
  <2>2. \/ call[r].at = "new" /\ call'[r].at \in {"starting", "last"}
        \/ call'[r].at = call[r].at
    BY <1>5, ArrivalIsMove
  <2>3. Staged(call'[r], pipe'[r])
    BY <1>1, <2>1, <2>2 DEF Staged, Piped
  <2> QED
    BY <1>2, <2>1, <2>3
<1>6. CASE StartJob
  <2>1. PICK r, c, p, q : r = Head(jobs) /\ c = call[r] /\ p = pipe[r] /\ q = pipe'[r]
    OBVIOUS
  <2>2. /\ r \in Request /\ call'[r] = c /\ p.job = "queued" /\ q.queue = p.queue
        /\ q.job = IF c.at = "asking" THEN "asking" ELSE "read"
        /\ \A o \in Request \ {r} : pipe'[o] = pipe[o]
        /\ UNCHANGED call
    BY <1>6, <2>1, StartIsMove
  <2>3. Staged(c, p)
    BY <1>1, <2>1, <2>2
  <2>4. Staged(c, q)
    BY <2>2, <2>3 DEF Staged, Piped
  <2>5. Foot(r)
    BY <2>2 DEF Foot
  <2> QED
    BY <1>2, <2>1, <2>2, <2>4, <2>5
<1>7. CASE UNCHANGED vars
  BY <1>1, <1>7 DEF AllStaged, vars
<1> QED
  BY <1>3, <1>4, <1>5, <1>6, <1>7 DEF Next

LEMMA InLineStep ==
    ASSUME TypeParts, Quiet, Queued, InLine, [Next]_vars
    PROVE  InLine'
<1>1. ASSUME NEW r \in Request, Foot(r), UNCHANGED jobs,
             pipe'[r].job = "queued" => pipe[r].job = "queued"
      PROVE  InLine'
  BY <1>1 DEF InLine, Foot
<1>2. ASSUME NEW r \in Request, Handler(r) PROVE InLine'
  <2>1. CASE UNCHANGED jobs
    <3>1. jobs' # Append(jobs, r)
      BY <2>1 DEF TypeParts
    <3>2. Foot(r) /\ (pipe'[r].job = "queued" => pipe[r].job = "queued")
      BY <1>2, <3>1, FootHandler, HandlerJobs
    <3> QED
      BY <1>1, <2>1, <3>2
  <2>2. CASE jobs' = Append(jobs, r)
    <3>1. /\ Len(jobs) \in Nat /\ Len(jobs') = Len(jobs) + 1 /\ jobs'[Len(jobs) + 1] = r
          /\ \A i \in 1 .. Len(jobs) : jobs'[i] = jobs[i]
      BY <2>2 DEF TypeParts
    <3>2. Foot(r)
      BY <1>2, FootHandler
    <3>3. \A i \in 1 .. Len(jobs) : i \in 1 .. Len(jobs')
      BY <3>1
    <3>4. Len(jobs) + 1 \in 1 .. Len(jobs')
      BY <3>1
    <3>5. ASSUME NEW o \in Request, pipe'[o].job = "queued"
          PROVE  \E i \in 1 .. Len(jobs') : jobs'[i] = o
      <4>1. CASE o = r
        BY <3>1, <3>4, <4>1
      <4>2. CASE o # r
        <5>1. PICK i \in 1 .. Len(jobs) : jobs[i] = o
          BY <3>2, <3>5, <4>2 DEF InLine, Foot
        <5> QED
          BY <3>1, <3>3, <5>1
      <4> QED
        BY <4>1, <4>2
    <3> QED
      BY <3>5 DEF InLine
  <2> QED
    BY <1>2, <2>1, <2>2, HandlerJobs
<1>3. ASSUME NEW r \in Request, Thread(r) PROVE InLine'
  <2>1. jobs' = jobs /\ ThreadMoves(call[r], pipe[r], pipe'[r]) /\ Foot(r)
    BY <1>3, FootOther, ThreadIsMove
  <2>2. pipe'[r].job # "queued"
    BY <2>1 DEF ThreadMoves, AfterPut
  <2> QED
    BY <1>1, <2>1, <2>2
<1>4. ASSUME NEW r \in Request, RouteToFleet(r) \/ RouteLocally(r) \/ Reject(r) \/ ClientLeaves(r)
      PROVE  InLine'
  BY <1>4, ArrivalIsMove DEF InLine
<1>5. CASE StartJob
  <2>1. PICK r : r = Head(jobs)
    OBVIOUS
  <2>2. /\ pipe'[r].job # "queued" /\ jobs' = Tail(jobs) /\ r \in Request
        /\ \A o \in Request \ {r} : pipe'[o] = pipe[o]
    BY <1>5, <2>1, StartIsMove
  <2>3. /\ jobs \in Seq(Request) /\ jobs # <<>> /\ r = jobs[1] /\ Len(jobs) \in Nat
        /\ Len(jobs') = Len(jobs) - 1 /\ \A i \in 1 .. Len(jobs') : jobs'[i] = jobs[i + 1]
    BY <1>5, <2>1, <2>2 DEF TypeParts, StartJob
  <2>4. ASSUME NEW o \in Request, pipe'[o].job = "queued"
        PROVE  \E i \in 1 .. Len(jobs') : jobs'[i] = o
    <3>1. o # r /\ pipe[o].job = "queued"
      BY <2>2, <2>4
    <3>2. PICK i \in 1 .. Len(jobs) : jobs[i] = o
      BY <3>1 DEF InLine
    <3>3. i # 1
      BY <2>3, <3>1, <3>2
    <3>4. i - 1 \in 1 .. Len(jobs') /\ (i - 1) + 1 = i
      BY <2>3, <3>2, <3>3
    <3> QED
      BY <2>3, <3>2, <3>4
  <2> QED
    BY <2>4 DEF InLine
<1>6. CASE UNCHANGED vars
  BY <1>6 DEF InLine, vars
<1> QED
  BY <1>2, <1>3, <1>4, <1>5, <1>6 DEF Next

(* What the next step of a handler, of a thread and of the executor waits  *)
(* for: the guards of their actions.                                       *)
HandlerReady(r) ==
    \/ call[r].at \in {"starting", "failing"}
    \/ call[r].at = "closing" /\ pipe[r].job # "read"
    \/ /\ LoopIdle
       /\ \/ call[r].at \in {"head", "draining", "last"}
          \/ call[r].at = "asking" /\ pipe[r].job = "asking"
          \/ call[r].at = "taking" /\ pipe[r].queue # <<>>
          \/ call[r].at = "joining" /\ pipe[r].job = "none"

ThreadReady(r) ==
    \/ pipe[r].job = "read"
    \/ pipe[r].job \in {"line", "error", "eof"} /\ LoopIdle /\ HasQueueRoom(r)

JobReady == jobs # <<>> /\ Cardinality(Busy) < Workers

(* As long as a request has not ended there is something to do, unless a   *)
(* request is stuck.                                                       *)
OnlyStuckStop ==
    (\E r \in Request : call[r].at \notin {"new", "over"})
        => \/ JobReady
           \/ \E q \in Request : HandlerReady(q) \/ ThreadReady(q) \/ Stuck(q)

(* A handler or a thread that moves was ready: the guards are no wider than *)
(* those of the actions.                                                   *)
LEMMA MovesAreReady ==
    ASSUME TypeParts, NEW r \in Request
    PROVE  /\ Handler(r) => HandlerReady(r)
           /\ Thread(r) => ThreadReady(r)
           /\ StartJob => JobReady
<1>1. Handler(r) => HandlerReady(r)
  BY DEF Handler, Begin, Untranslatable, HeadDrained, Answered, Take, LineDrained, DrainRaises,
         Close, Join, LastDrained, Fail, HandlerReady
<1>2. Thread(r) => ThreadReady(r)
  BY DEF Thread, ReadLine, ReadEnds, Put, ThreadReady
<1>3. StartJob => JobReady
  BY DEF StartJob, JobReady
<1> QED
  BY <1>1, <1>2, <1>3

(* A thread at work has something to do, or its handler has. *)
LEMMA BusyMoves ==
    ASSUME TypeParts, AllStaged, LoopIdle, NEW q \in Busy
    PROVE  HandlerReady(q) \/ ThreadReady(q) \/ Stuck(q)
<1>1. /\ q \in Request /\ pipe[q].job \notin {"none", "queued"} /\ Staged(call[q], pipe[q])
      /\ call[q] \in Calls /\ pipe[q] \in Pipes
  BY DEF Busy, AllStaged, TypeParts
<1>2. CASE pipe[q].job = "asking"
  <2>1. call[q].at = "asking"
    BY <1>1, <1>2 DEF Staged, Piped
  <2> QED
    BY <1>2, <2>1 DEF HandlerReady
<1>3. CASE pipe[q].job = "read" \/ (pipe[q].job \in {"line", "error", "eof"} /\ HasQueueRoom(q))
  BY <1>3 DEF ThreadReady
<1>4. CASE pipe[q].job \in {"line", "error", "eof"} /\ ~ HasQueueRoom(q)
  <2>1. pipe[q].queue # <<>>
    BY <1>4, ProxyAssumption DEF HasQueueRoom, ProxyAssumption
  <2>2. call[q].at \in {"taking", "draining", "joining"}
    BY <1>1, <1>4 DEF Staged, Piped, LoopIdle, Running
  <2> QED
    BY <1>4, <2>1, <2>2 DEF HandlerReady, Stuck
<1>5. pipe[q].job \in {"asking", "read", "line", "error", "eof"}
  BY <1>1 DEF Pipes
<1> QED
  BY <1>2, <1>3, <1>4, <1>5

(* A request waits for nothing, for its reader, for a thread, or for room. *)
LEMMA SomethingMoves ==
    ASSUME TypeParts, AllStaged, InLine
    PROVE  OnlyStuckStop
<1> SUFFICES ASSUME NEW r \in Request, call[r].at \notin {"new", "over"}
             PROVE  \/ JobReady
                    \/ \E q \in Request : HandlerReady(q) \/ ThreadReady(q) \/ Stuck(q)
  BY DEF OnlyStuckStop
<1>1. /\ call[r] \in Calls /\ pipe[r] \in Pipes /\ Staged(call[r], pipe[r])
      /\ Workers \in Nat \ {0}
  BY ProxyAssumption DEF TypeParts, AllStaged, ProxyAssumption
<1>2. CASE ~ LoopIdle
  <2>1. PICK q \in Request : call[q].at \in {"starting", "failing", "closing"}
    BY <1>2 DEF LoopIdle, Running
  <2> QED
    BY <2>1 DEF HandlerReady, ThreadReady
<1>3. CASE LoopIdle /\ Busy # {}
  <2>1. PICK q \in Busy : TRUE
    BY <1>3
  <2> QED
    BY <1>3, <2>1, BusyMoves DEF Busy
<1>4. CASE LoopIdle /\ Busy = {} /\ pipe[r].job = "queued"
  <2>1. jobs # <<>>
    <3>1. PICK i \in 1 .. Len(jobs) : jobs[i] = r
      BY <1>4 DEF InLine
    <3> QED
      BY <3>1
  <2>2. Cardinality(Busy) = 0
    BY <1>4, FS_EmptySet
  <2> QED
    BY <1>1, <2>1, <2>2 DEF JobReady
<1>5. CASE LoopIdle /\ Busy = {} /\ pipe[r].job # "queued"
  <2>1. pipe[r].job = "none"
    BY <1>5 DEF Busy
  <2>2. call[r].at \in {"head", "taking", "draining", "joining", "last"}
    BY <1>1, <1>5, <2>1 DEF Staged, Piped, LoopIdle, Running, Calls, Stages
  <2>3. call[r].at = "taking" => pipe[r].queue # <<>>
    BY <1>1, <2>1 DEF Staged
  <2> QED
    BY <1>5, <2>1, <2>2, <2>3 DEF HandlerReady
<1> QED
  BY <1>2, <1>3, <1>4, <1>5

LEMMA StagedInit == Init => AllStaged /\ InLine
<1>1. Idle.job = "none"
  BY DEF Idle
<1>2. New.at = "new"
  BY DEF New
<1> QED
  BY <1>1, <1>2 DEF Init, AllStaged, Staged, InLine, Piped

(* The proxy comes to a stop before its requests have ended only where one *)
(* is stuck: no other wait of handlers, readers and the thread pool for    *)
(* one another is circular, whatever the number of workers and the size of *)
(* the queues.                                                             *)
THEOREM OnlyStuckStops == Spec => []OnlyStuckStop
<1>1. Init => Quiet /\ Queued
  BY QueuedInit
<1>2. TypeParts /\ Quiet /\ Queued /\ [Next]_vars => (Quiet /\ Queued)'
  BY QueuedStep
<1>3. TypeParts /\ TypeParts' /\ Quiet /\ Queued /\ AllStaged /\ InLine /\ [Next]_vars
          => (AllStaged /\ InLine)'
  BY StagedStep, InLineStep
<1>4. TypeParts /\ AllStaged /\ InLine => OnlyStuckStop
  BY SomethingMoves
<1> QED
  BY <1>1, <1>2, <1>3, <1>4, StagedInit, Basics, PTL DEF Spec

-----------------------------------------------------------------------------
(* How long a request can take. *)

(* Steps a request has left at each of its stages, those of its pipe apart. *)
StageRank(at) ==
    CASE at \in {"new", "over"} -> 0
      [] at = "failing" -> 1
      [] at = "last" -> 2
      [] at = "joining" -> 3
      [] at = "closing" -> 4
      [] at = "taking" -> 5
      [] at = "draining" -> 6
      [] at = "asking" -> 14 + 4 * MaxLines
      [] at = "head" -> 16 + 4 * MaxLines
      [] at = "starting" -> 17 + 4 * MaxLines

(* Those of a reader from here to its end, and of what it puts.            *)
JobRank(job) ==
    CASE job \in {"none", "asking"} -> 0
      [] job = "eof" -> 3
      [] job = "error" -> 6
      [] job = "read" -> 7
      [] job = "queued" -> 8
      [] job = "line" -> 10

(* Of its pipe as a whole: a line may be read, put, taken and drained.     *)
PipeRank(p) == JobRank(p.job) + 2 * Len(p.queue) + 4 * (MaxLines - p.read)

(* Of the request: once, it may fall back on the configured backend.       *)
Rank(c, p) ==
    StageRank(c.at)
      + (IF c.counted # None THEN 17 + 4 * MaxLines ELSE 0)
      + (IF c.at \in {"taking", "draining", "closing", "joining"} THEN PipeRank(p)
         ELSE IF p.job = "queued" THEN 1 ELSE 0)

RankOf(r) == Rank(call[r], pipe[r])

(* No request takes more than so many steps from its arrival to its end,   *)
(* the line of jobs and the backend's stream included, whatever the order  *)
(* of the steps and of other requests'.                                    *)
RanksBounded == \A r \in Request : RankOf(r) \in 0 .. (34 + 8 * MaxLines)

StepsCountDown ==
    [][\A r \in Request : call[r].at # "new" =>
          /\ RankOf(r)' <= RankOf(r)
          /\ Handler(r) \/ Thread(r) \/ (StartJob /\ r = Head(jobs))
                => RankOf(r)' < RankOf(r)]_vars

LEMMA StageRanks ==
    /\ StageRank("new") = 0 /\ StageRank("over") = 0 /\ StageRank("failing") = 1
    /\ StageRank("last") = 2 /\ StageRank("joining") = 3 /\ StageRank("closing") = 4
    /\ StageRank("taking") = 5 /\ StageRank("draining") = 6
    /\ StageRank("asking") = 14 + 4 * MaxLines
    /\ StageRank("head") = 16 + 4 * MaxLines
    /\ StageRank("starting") = 17 + 4 * MaxLines
BY DEF StageRank

LEMMA JobRanks ==
    /\ JobRank("none") = 0 /\ JobRank("asking") = 0 /\ JobRank("eof") = 3
    /\ JobRank("error") = 6 /\ JobRank("read") = 7 /\ JobRank("queued") = 8
    /\ JobRank("line") = 10
BY DEF JobRank

InStream == {"taking", "draining", "closing", "joining"}

LEMMA PipeParts ==
    ASSUME NEW p \in Pipes
    PROVE  /\ MaxLines \in Nat /\ JobRank(p.job) \in Nat /\ Len(p.queue) \in Nat
           /\ p.read \in 0 .. MaxLines
<1>1. /\ p.job \in {"none", "queued", "asking", "read", "line", "error", "eof"}
      /\ p.queue \in Seq({"line", "error", "eof"}) /\ p.read \in 0 .. MaxLines
  BY DEF Pipes
<1> QED
  BY <1>1, JobRanks, ProxyAssumption DEF ProxyAssumption

(* The parts of a rank are numbers. *)
LEMMA RankParts ==
    ASSUME NEW c \in Calls, NEW p \in Pipes
    PROVE  /\ MaxLines \in Nat
           /\ StageRank(c.at) \in 0 .. (17 + 4 * MaxLines)
           /\ PipeRank(p) \in Nat
           /\ c.at \in InStream => Rank(c, p) = StageRank(c.at) + PipeRank(p)
                   + (IF c.counted # None THEN 17 + 4 * MaxLines ELSE 0)
           /\ c.at \notin InStream => Rank(c, p) = StageRank(c.at)
                   + (IF c.counted # None THEN 17 + 4 * MaxLines ELSE 0)
                   + (IF p.job = "queued" THEN 1 ELSE 0)
<1>1. MaxLines \in Nat
  BY ProxyAssumption DEF ProxyAssumption
<1>2. StageRank(c.at) \in 0 .. (17 + 4 * MaxLines)
  <2>1. c.at \in Stages
    BY DEF Calls
  <2> QED
    BY <1>1, <2>1, StageRanks DEF Stages
<1>3. JobRank(p.job) \in Nat /\ Len(p.queue) \in Nat /\ p.read \in 0 .. MaxLines
  BY PipeParts
<1>4. PipeRank(p) \in Nat
  <2>1. PICK j, n, m, i : j = JobRank(p.job) /\ n = Len(p.queue) /\ m = MaxLines /\ i = p.read
    OBVIOUS
  <2>2. PipeRank(p) = j + 2 * n + 4 * (m - i)
    BY <2>1 DEF PipeRank
  <2>3. j \in Nat /\ n \in Nat /\ m \in Nat /\ i \in 0 .. m
    BY <1>1, <1>3, <2>1
  <2> QED
    BY <2>2, <2>3
<1>5. PICK s, k, w : /\ s = StageRank(c.at) /\ k = PipeRank(p)
                     /\ w = IF c.counted # None THEN 17 + 4 * MaxLines ELSE 0
  OBVIOUS
<1>6. s \in Nat /\ k \in Nat /\ w \in Nat
  BY <1>1, <1>2, <1>4, <1>5
<1>7. c.at \in InStream => Rank(c, p) = s + k + w
  <2>1. c.at \in InStream => Rank(c, p) = s + w + k
    BY <1>5 DEF Rank, InStream
  <2> QED
    BY <1>6, <2>1
<1>8. c.at \notin InStream => Rank(c, p) = s + w + (IF p.job = "queued" THEN 1 ELSE 0)
  BY <1>5 DEF Rank, InStream
<1> QED
  BY <1>1, <1>2, <1>4, <1>5, <1>7, <1>8

(* A step that leaves the pipe as it is. *)
LEMMA RankStage ==
    ASSUME NEW c \in Calls, NEW p \in Pipes, NEW d \in Calls, Staged(c, p),
           d.counted = c.counted,
           \/ c.at = "starting" /\ d.at \in {"head", "last", "failing"}
           \/ c.at \in {"head", "last"} /\ d.at = "failing"
           \/ c.at = "draining" /\ d.at \in {"taking", "closing"}
           \/ c.at = "closing" /\ d.at = "joining"
    PROVE  Rank(d, p) < Rank(c, p)
<1>1. PICK w, k, m : /\ w = IF c.counted # None THEN 17 + 4 * MaxLines ELSE 0
                     /\ k = PipeRank(p) /\ m = MaxLines
  OBVIOUS
<1>2. w \in Nat /\ k \in Nat /\ m \in Nat
  BY <1>1, RankParts
<1>3. StageRank(d.at) < StageRank(c.at)
  BY <1>1, <1>2, StageRanks
<1>4. StageRank(d.at) \in Nat /\ StageRank(c.at) \in Nat
  BY RankParts
<1>5. CASE c.at \in InStream /\ d.at \in InStream
  <2>1. Rank(c, p) = StageRank(c.at) + k + w /\ Rank(d, p) = StageRank(d.at) + k + w
    BY <1>1, <1>5, RankParts
  <2> QED
    BY <1>2, <1>3, <1>4, <2>1
<1>6. CASE c.at \notin InStream /\ d.at \notin InStream
  <2>1. PICK j : j = IF p.job = "queued" THEN 1 ELSE 0
    OBVIOUS
  <2>2. Rank(c, p) = StageRank(c.at) + w + j /\ Rank(d, p) = StageRank(d.at) + w + j
    BY <1>1, <1>6, <2>1, RankParts
  <2> QED
    BY <1>2, <1>3, <1>4, <2>1, <2>2
<1> QED
  BY <1>5, <1>6 DEF InStream

LEMMA RankIsNumber ==
    ASSUME NEW c \in Calls, NEW p \in Pipes
    PROVE  Rank(c, p) \in Nat
<1>1. PICK s, k, w, j : /\ s = StageRank(c.at) /\ k = PipeRank(p)
                        /\ w = IF c.counted # None THEN 17 + 4 * MaxLines ELSE 0
                        /\ j = IF p.job = "queued" THEN 1 ELSE 0
  OBVIOUS
<1>2. s \in Nat /\ k \in Nat /\ w \in Nat /\ j \in Nat
  BY <1>1, RankParts
<1>3. Rank(c, p) = s + k + w \/ Rank(c, p) = s + w + j
  BY <1>1, RankParts
<1> QED
  BY <1>2, <1>3

(* A step into another pipe, or out of the stream. *)
LEMMA RankLeaps ==
    ASSUME NEW c \in Calls, NEW p \in Pipes, NEW d \in Calls, NEW q \in Pipes, Staged(c, p),
           \/ /\ d.counted = c.counted /\ q = Waiting
              /\ \/ c.at \in {"starting", "head"} /\ d.at = "asking"
                 \/ c.at = "asking" /\ d.at = "taking" /\ p.job = "asking"
           \/ /\ d.counted = c.counted /\ q = Idle /\ d.at = "last"
              /\ c.at \in {"asking", "joining"}
           \/ /\ c.at \in {"joining", "last", "failing"} /\ d.at = "over"
              /\ d.counted = None /\ q = Idle
           \/ /\ c.at = "failing" /\ d.at = "starting" /\ q = p
              /\ c.counted # None /\ d.counted = None
    PROVE  Rank(d, q) < Rank(c, p)
<1>1. PICK w, v, m : /\ w = IF c.counted # None THEN 17 + 4 * MaxLines ELSE 0
                     /\ v = IF d.counted # None THEN 17 + 4 * MaxLines ELSE 0
                     /\ m = MaxLines
  OBVIOUS
<1>2. w \in Nat /\ v \in Nat /\ m \in Nat /\ (d.counted = c.counted => v = w)
  BY <1>1, RankParts
<1>3. /\ Waiting.job = "queued" /\ Waiting.queue = <<>> /\ Waiting.read = 0
      /\ Idle.job = "none"
  BY DEF Waiting, Idle
<1>4. PipeRank(p) \in Nat
  BY RankParts
<1>5. CASE c.at \in {"starting", "head"} /\ d.at = "asking" /\ q = Waiting /\ d.counted = c.counted
  <2>1. p.job = "none"
    BY <1>5 DEF Staged, Piped
  <2>2. Rank(c, p) = StageRank(c.at) + w + 0 /\ Rank(d, q) = StageRank("asking") + w + 1
    BY <1>1, <1>2, <1>3, <1>5, <2>1, RankParts DEF InStream
  <2>3. StageRank("asking") = 14 + 4 * m /\ StageRank(c.at) \in {16 + 4 * m, 17 + 4 * m}
    BY <1>1, <1>5, StageRanks
  <2> QED
    BY <1>2, <2>2, <2>3
<1>6. CASE /\ c.at = "asking" /\ d.at = "taking" /\ q = Waiting /\ d.counted = c.counted
           /\ p.job = "asking"
  <2>1. PipeRank(q) = 8 + 4 * m
    <3>1. PipeRank(q) = 8 + 2 * 0 + 4 * (m - 0)
      BY <1>1, <1>3, <1>6, JobRanks DEF PipeRank
    <3> QED
      BY <1>2, <3>1
  <2>2. Rank(c, p) = StageRank("asking") + w + 0 /\ Rank(d, q) = StageRank("taking") + PipeRank(q) + w
    BY <1>1, <1>2, <1>6, RankParts DEF InStream
  <2>3. StageRank("asking") = 14 + 4 * m /\ StageRank("taking") = 5
    BY <1>1, StageRanks
  <2> QED
    BY <1>2, <2>1, <2>2, <2>3
<1>7. CASE /\ d.counted = c.counted /\ q = Idle /\ d.at = "last"
           /\ c.at \in {"asking", "joining"}
  <2>1. Rank(d, q) = StageRank("last") + w + 0
    BY <1>1, <1>2, <1>3, <1>7, RankParts DEF InStream
  <2>2. PICK k : k \in Nat /\ Rank(c, p) = StageRank(c.at) + k + w
    <3>1. CASE c.at = "joining"
      BY <1>1, <1>4, <3>1, RankParts DEF InStream
    <3>2. CASE c.at = "asking"
      <4>1. PICK j : j = IF p.job = "queued" THEN 1 ELSE 0
        OBVIOUS
      <4>2. Rank(c, p) = StageRank(c.at) + w + j
        BY <1>1, <3>2, <4>1, RankParts DEF InStream
      <4>3. StageRank(c.at) \in Nat /\ j \in Nat
        BY <4>1, RankParts
      <4>4. StageRank(c.at) + w + j = StageRank(c.at) + j + w
        BY <1>2, <4>3
      <4> QED
        BY <4>2, <4>3, <4>4
    <3> QED
      BY <1>7, <3>1, <3>2
  <2>3. StageRank("last") = 2 /\ StageRank(c.at) \in {3, 14 + 4 * m}
    BY <1>1, <1>7, StageRanks
  <2> QED
    BY <1>2, <2>1, <2>2, <2>3
<1>8. CASE /\ c.at \in {"joining", "last", "failing"} /\ d.at = "over"
           /\ d.counted = None /\ q = Idle
  <2>1. Rank(d, q) = 0 + 0 + 0
    BY <1>3, <1>8, RankParts, StageRanks DEF InStream
  <2>2. PICK k : k \in Nat /\ Rank(c, p) = StageRank(c.at) + k + w
    <3>1. CASE c.at = "joining"
      BY <1>1, <1>4, <3>1, RankParts DEF InStream
    <3>2. CASE c.at \in {"last", "failing"}
      <4>1. p.job = "none"
        BY <3>2 DEF Staged, Piped
      <4>2. Rank(c, p) = StageRank(c.at) + w + 0
        BY <1>1, <3>2, <4>1, RankParts DEF InStream
      <4>3. StageRank(c.at) + w + 0 = StageRank(c.at) + 0 + w
        BY <1>2, RankParts
      <4> QED
        BY <4>2, <4>3
    <3> QED
      BY <1>8, <3>1, <3>2
  <2>3. StageRank(c.at) \in {1, 2, 3}
    BY <1>8, StageRanks
  <2> QED
    BY <1>2, <2>1, <2>2, <2>3
<1>9. CASE /\ c.at = "failing" /\ d.at = "starting" /\ q = p
           /\ c.counted # None /\ d.counted = None
  <2>1. p.job = "none"
    BY <1>9 DEF Staged, Piped
  <2>2. Rank(c, p) = StageRank("failing") + w + 0 /\ Rank(d, q) = StageRank("starting") + 0 + 0
    BY <1>1, <1>9, <2>1, RankParts DEF InStream
  <2>3. StageRank("failing") = 1 /\ StageRank("starting") = 17 + 4 * m /\ w = 17 + 4 * m
    BY <1>1, <1>9, StageRanks
  <2> QED
    BY <1>2, <2>2, <2>3
<1> QED
  BY <1>5, <1>6, <1>7, <1>8, <1>9

(* The handler takes an item from the queue. *)
LEMMA RankTakes ==
    ASSUME NEW c \in Calls, NEW p \in Pipes, NEW d \in Calls, NEW q \in Pipes,
           d.counted = c.counted, c.at = "taking", p.queue # <<>>,
           q.job = p.job, q.read = p.read, q.queue = Tail(p.queue),
           d.at \in {"closing", "taking", "draining"}
    PROVE  Rank(d, q) < Rank(c, p)
<1>1. PICK w, m, j, n, i : /\ w = IF c.counted # None THEN 17 + 4 * MaxLines ELSE 0
                           /\ m = MaxLines /\ j = JobRank(p.job) /\ n = Len(p.queue) /\ i = p.read
  OBVIOUS
<1>2. w \in Nat /\ m \in Nat /\ j \in Nat /\ n \in Nat /\ i \in 0 .. m
  BY <1>1, PipeParts
<1>3. Len(q.queue) = n - 1
  BY <1>1 DEF Pipes
<1>4. PipeRank(p) = j + 2 * n + 4 * (m - i) /\ PipeRank(q) = j + 2 * (n - 1) + 4 * (m - i)
  BY <1>1, <1>3 DEF PipeRank
<1>5. /\ Rank(c, p) = StageRank("taking") + PipeRank(p) + w
      /\ Rank(d, q) = StageRank(d.at) + PipeRank(q) + w
  BY <1>1, RankParts DEF InStream
<1>6. StageRank("taking") = 5 /\ StageRank(d.at) \in {4, 5, 6}
  BY StageRanks
<1>7. PICK s, u, v, x, y : /\ s = StageRank("taking") /\ u = StageRank(d.at)
                           /\ v = PipeRank(p) /\ x = PipeRank(q) /\ y = 4 * (m - i)
  OBVIOUS
<1>8. /\ s = 5 /\ u \in {4, 5, 6} /\ y \in Int
      /\ v = j + 2 * n + y /\ x = j + 2 * (n - 1) + y
  BY <1>2, <1>4, <1>6, <1>7
<1>9. u + x + w < s + v + w
  BY <1>2, <1>8
<1> QED
  BY <1>5, <1>7, <1>9

(* A reader's step, or the start of its job. *)
LEMMA RankReads ==
    ASSUME NEW c \in Calls, NEW p \in Pipes, NEW q \in Pipes, Staged(c, p),
           \/ ThreadMoves(c, p, q)
           \/ /\ p.job = "queued" /\ q.queue = p.queue /\ q.read = p.read
              /\ q.job = IF c.at = "asking" THEN "asking" ELSE "read"
    PROVE  Rank(c, q) < Rank(c, p)
<1>1. PICK w, m, j, k, n, i, h, l :
          /\ w = IF c.counted # None THEN 17 + 4 * MaxLines ELSE 0
          /\ m = MaxLines /\ j = JobRank(p.job) /\ n = Len(p.queue) /\ i = p.read
          /\ k = JobRank(q.job) /\ l = Len(q.queue) /\ h = q.read
  OBVIOUS
<1>2. /\ w \in Nat /\ m \in Nat /\ j \in Nat /\ k \in Nat /\ n \in Nat /\ l \in Nat
      /\ i \in 0 .. m /\ h \in 0 .. m
  BY <1>1, PipeParts
<1>3. CASE c.at = "asking"
  <2>1. p.job = "queued" /\ q.job = "asking"
    BY <1>3 DEF Staged, ThreadMoves, Piped
  <2>2. Rank(c, p) = StageRank("asking") + w + 1 /\ Rank(c, q) = StageRank("asking") + w + 0
    BY <1>1, <1>3, <2>1, RankParts DEF InStream
  <2>3. StageRank("asking") \in Nat
    BY <1>3, RankParts
  <2> QED
    BY <1>2, <2>2, <2>3
<1>4. CASE c.at # "asking"
  <2>1. c.at \in InStream
    BY <1>4 DEF Staged, ThreadMoves, Piped, InStream
  <2>2. PipeRank(p) = j + 2 * n + 4 * (m - i) /\ PipeRank(q) = k + 2 * l + 4 * (m - h)
    BY <1>1 DEF PipeRank
  <2>3. \/ l = n /\ h = i + 1 /\ j = 7 /\ k \in {10, 3}
        \/ l = n /\ h = i /\ j = 7 /\ k \in {6, 3}
        \/ l = n /\ h = i /\ j = 8 /\ k = 7
        \/ l = n + 1 /\ h = i /\ \/ j = 10 /\ k = 7
                                 \/ j = 6 /\ k = 3
                                 \/ j = 3 /\ k = 0
    <3>1. CASE p.job = "queued"
      BY <1>1, <1>4, <3>1, JobRanks DEF ThreadMoves
    <3>2. CASE p.job = "read"
      BY <1>1, <3>2, JobRanks DEF ThreadMoves
    <3>3. CASE p.job \in {"line", "error", "eof"}
      <4>1. q.queue = Append(p.queue, p.job) /\ q.job = AfterPut(p.job) /\ q.read = p.read
        BY <3>3 DEF ThreadMoves
      <4>2. l = n + 1 /\ h = i
        BY <1>1, <4>1 DEF Pipes
      <4>3. /\ AfterPut("line") = "read" /\ AfterPut("error") = "eof" /\ AfterPut("eof") = "none"
        BY DEF AfterPut
      <4> QED
        BY <1>1, <3>3, <4>1, <4>2, <4>3, JobRanks
    <3> QED
      BY <3>1, <3>2, <3>3 DEF ThreadMoves
  <2>4. PipeRank(q) < PipeRank(p)
    BY <1>2, <2>2, <2>3
  <2>5. /\ Rank(c, p) = StageRank(c.at) + PipeRank(p) + w
        /\ Rank(c, q) = StageRank(c.at) + PipeRank(q) + w
    BY <1>1, <2>1, RankParts
  <2>6. StageRank(c.at) \in Nat /\ PipeRank(p) \in Nat /\ PipeRank(q) \in Nat
    BY RankParts
  <2> QED
    BY <1>2, <2>4, <2>5, <2>6
<1> QED
  BY <1>3, <1>4

LEMMA RankHandler ==
    ASSUME NEW c \in Calls, NEW p \in Pipes, NEW d \in Calls, NEW q \in Pipes,
           Staged(c, p), HandlerMoves(c, p, d, q)
    PROVE  Rank(d, q) < Rank(c, p)
<1>1. CASE /\ d.counted = c.counted /\ q = p
           /\ \/ c.at = "starting" /\ d.at \in {"head", "last", "failing"}
              \/ c.at \in {"head", "last"} /\ d.at = "failing"
              \/ c.at = "draining" /\ d.at \in {"taking", "closing"}
              \/ c.at = "closing" /\ d.at = "joining"
  BY <1>1, RankStage
<1>2. CASE /\ d.counted = c.counted /\ c.at = "taking" /\ p.queue # <<>>
           /\ q.job = p.job /\ q.read = p.read /\ q.queue = Tail(p.queue)
           /\ d.at \in {"closing", "taking", "draining"}
  BY <1>2, RankTakes
<1>3. CASE \/ /\ d.counted = c.counted /\ q = Waiting
              /\ \/ c.at \in {"starting", "head"} /\ d.at = "asking"
                 \/ c.at = "asking" /\ d.at = "taking" /\ p.job = "asking"
           \/ /\ d.counted = c.counted /\ q = Idle /\ d.at = "last"
              /\ c.at \in {"asking", "joining"}
           \/ /\ c.at \in {"joining", "last", "failing"} /\ d.at = "over"
              /\ d.counted = None /\ q = Idle
           \/ /\ c.at = "failing" /\ d.at = "starting" /\ q = p
              /\ c.counted # None /\ d.counted = None
  BY <1>3, RankLeaps
<1> QED
  BY <1>1, <1>2, <1>3 DEF HandlerMoves

(* What each step does to the rank of a request: its own take one step off *)
(* at least, and others leave it as it is.                                 *)
LEMMA RankStep ==
    ASSUME TypeParts, TypeParts', Quiet, Queued, AllStaged, [Next]_vars,
           NEW r \in Request, call[r].at # "new"
    PROVE  /\ RankOf(r)' <= RankOf(r)
           /\ Handler(r) \/ Thread(r) \/ (StartJob /\ r = Head(jobs)) => RankOf(r)' < RankOf(r)
<1>1. /\ call[r] \in Calls /\ pipe[r] \in Pipes /\ Staged(call[r], pipe[r])
      /\ call'[r] \in Calls /\ pipe'[r] \in Pipes
  BY DEF TypeParts, AllStaged
<1>2. RankOf(r) = Rank(call[r], pipe[r]) /\ RankOf(r)' = Rank(call'[r], pipe'[r])
  BY DEF RankOf, Rank, StageRank, PipeRank, JobRank
<1>3. RankOf(r) \in Int /\ RankOf(r)' \in Int
  BY <1>1, <1>2, RankIsNumber
<1>4. ASSUME RankOf(r)' < RankOf(r)
      PROVE  /\ RankOf(r)' <= RankOf(r)
             /\ Handler(r) \/ Thread(r) \/ (StartJob /\ r = Head(jobs)) => RankOf(r)' < RankOf(r)
  BY <1>3, <1>4
<1>5. CASE Handler(r)
  BY <1>1, <1>2, <1>4, <1>5, HandlerIsMove, RankHandler
<1>6. CASE Thread(r)
  <2>1. call'[r] = call[r] /\ ThreadMoves(call[r], pipe[r], pipe'[r])
    BY <1>6, ThreadIsMove
  <2> QED
    BY <1>1, <1>2, <1>4, <2>1, RankReads
<1>7. CASE StartJob /\ r = Head(jobs)
  <2>1. /\ call'[r] = call[r] /\ pipe[r].job = "queued"
        /\ pipe'[r].queue = pipe[r].queue /\ pipe'[r].read = pipe[r].read
        /\ pipe'[r].job = IF call[r].at = "asking" THEN "asking" ELSE "read"
    BY <1>7, StartIsMove
  <2> QED
    BY <1>1, <1>2, <1>4, <2>1, RankReads
<1>8. CASE ~ (Handler(r) \/ Thread(r) \/ (StartJob /\ r = Head(jobs)))
  <2>1. /\ call'[r].at = call[r].at /\ call'[r].counted = call[r].counted
        /\ pipe'[r] = pipe[r]
    <3>1. ASSUME NEW q \in Request, Handler(q) PROVE call'[r] = call[r] /\ pipe'[r] = pipe[r]
      <4>1. Foot(q) /\ q # r
        BY <1>8, <3>1, FootHandler
      <4> QED
        BY <4>1 DEF Foot
    <3>2. ASSUME NEW q \in Request, Thread(q) PROVE call'[r] = call[r] /\ pipe'[r] = pipe[r]
      <4>1. Foot(q) /\ q # r
        BY <1>8, <3>2, FootOther
      <4> QED
        BY <4>1 DEF Foot
    <3>3. ASSUME StartJob PROVE call'[r] = call[r] /\ pipe'[r] = pipe[r]
      <4>1. r # Head(jobs)
        BY <1>8, <3>3
      <4> QED
        BY <3>3, <4>1, StartIsMove
    <3>4. ASSUME NEW q \in Request,
                 RouteToFleet(q) \/ RouteLocally(q) \/ Reject(q) \/ ClientLeaves(q)
          PROVE  /\ call'[r].at = call[r].at /\ call'[r].counted = call[r].counted
                 /\ pipe'[r] = pipe[r]
      <4>1. CASE q = r
        BY <3>4, <4>1, ArrivalIsMove
      <4>2. CASE q # r
        BY <3>4, <4>2, FootOther DEF Foot
      <4> QED
        BY <4>1, <4>2
    <3>5. UNCHANGED vars => call'[r] = call[r] /\ pipe'[r] = pipe[r]
      BY DEF vars
    <3> QED
      BY <3>1, <3>2, <3>3, <3>4, <3>5 DEF Next
  <2>2. RankOf(r)' = RankOf(r)
    BY <1>2, <2>1 DEF Rank
  <2> QED
    BY <1>3, <1>8, <2>2
<1> QED
  BY <1>5, <1>6, <1>7, <1>8

(* A request that has just arrived has all its steps to go. *)
LEMMA RankArrives ==
    ASSUME NEW c \in Calls, NEW p \in Pipes, p.job = "none", c.at \in {"new", "starting", "last"}
    PROVE  Rank(c, p) <= 34 + 8 * MaxLines
<1>1. PICK m, s, w : /\ m = MaxLines /\ s = StageRank(c.at)
                     /\ w = IF c.counted # None THEN 17 + 4 * MaxLines ELSE 0
  OBVIOUS
<1>2. Rank(c, p) = s + w + 0
  BY <1>1, RankParts DEF InStream
<1>3. m \in Nat /\ s \in 0 .. (17 + 4 * m) /\ w \in {0, 17 + 4 * m}
  BY <1>1, RankParts
<1> QED
  BY <1>1, <1>2, <1>3

LEMMA BoundStep ==
    ASSUME TypeParts, TypeParts', Quiet, Queued, AllStaged, RanksBounded, [Next]_vars
    PROVE  RanksBounded'
<1> SUFFICES ASSUME NEW r \in Request PROVE RankOf(r)' \in 0 .. (34 + 8 * MaxLines)
  BY DEF RanksBounded, RankOf, Rank, StageRank, PipeRank, JobRank
<1>1. /\ call[r] \in Calls /\ pipe[r] \in Pipes /\ Staged(call[r], pipe[r])
      /\ call'[r] \in Calls /\ pipe'[r] \in Pipes
  BY DEF TypeParts, AllStaged
<1>2. RankOf(r)' = Rank(call'[r], pipe'[r])
  BY DEF RankOf, Rank, StageRank, PipeRank, JobRank
<1>3. RankOf(r)' \in Nat /\ RankOf(r) \in 0 .. (34 + 8 * MaxLines) /\ MaxLines \in Nat
  BY <1>1, <1>2, RankIsNumber, ProxyAssumption DEF RanksBounded, ProxyAssumption
<1>4. CASE call[r].at # "new"
  <2>1. RankOf(r)' <= RankOf(r)
    BY <1>4, RankStep
  <2> QED
    BY <1>3, <2>1
<1>5. CASE call[r].at = "new"
  <2>1. pipe[r].job = "none"
    BY <1>1, <1>5 DEF Staged, Piped
  <2>2. pipe'[r].job = "none" /\ call'[r].at \in {"new", "starting", "last"}
    <3>1. ASSUME NEW q \in Request, Handler(q) PROVE call'[r] = call[r] /\ pipe'[r] = pipe[r]
      <4>1. q # r
        BY <1>5, <3>1 DEF Handler, Begin, Untranslatable, HeadDrained, Answered, Take, LineDrained,
                          DrainRaises, Close, Join, LastDrained, Fail
      <4> QED
        BY <3>1, <4>1, FootHandler DEF Foot
    <3>2. ASSUME NEW q \in Request, Thread(q) PROVE call'[r] = call[r] /\ pipe'[r] = pipe[r]
      <4>1. q # r
        BY <2>1, <3>2 DEF Thread, ReadLine, ReadEnds, Put
      <4> QED
        BY <3>2, <4>1, FootOther DEF Foot
    <3>3. StartJob => call'[r] = call[r] /\ pipe'[r] = pipe[r]
      BY <2>1, StartIsMove
    <3>4. ASSUME NEW q \in Request,
                 RouteToFleet(q) \/ RouteLocally(q) \/ Reject(q) \/ ClientLeaves(q)
          PROVE  pipe'[r] = pipe[r] /\ call'[r].at \in {"new", "starting", "last"}
      <4>1. CASE q = r
        BY <1>5, <3>4, <4>1, ArrivalIsMove
      <4>2. CASE q # r
        BY <1>5, <3>4, <4>2, FootOther DEF Foot
      <4> QED
        BY <4>1, <4>2
    <3>5. UNCHANGED vars => call'[r] = call[r] /\ pipe'[r] = pipe[r]
      BY DEF vars
    <3> QED
      BY <1>5, <2>1, <3>1, <3>2, <3>3, <3>4, <3>5 DEF Next
  <2> QED
    BY <1>1, <1>2, <1>3, <2>2, RankArrives
<1> QED
  BY <1>4, <1>5

(* No request goes on for ever: from its arrival on it has at most so many *)
(* steps to take, each brings its end nearer, and no other step of the     *)
(* proxy adds one - a slow client, a fallback, a stream that fails and the *)
(* line for a thread included.                                             *)
THEOREM RequestsAreFinite == Spec => []RanksBounded /\ StepsCountDown
<1>1. Init => Quiet /\ Queued
  BY QueuedInit
<1>2. TypeParts /\ Quiet /\ Queued /\ [Next]_vars => (Quiet /\ Queued)'
  BY QueuedStep
<1>3. TypeParts /\ TypeParts' /\ Quiet /\ Queued /\ AllStaged /\ InLine /\ [Next]_vars
          => (AllStaged /\ InLine)'
  BY StagedStep, InLineStep
<1>4. Init => RanksBounded
  <2> SUFFICES ASSUME Init, NEW r \in Request PROVE RankOf(r) \in 0 .. (34 + 8 * MaxLines)
    BY DEF RanksBounded
  <2>1. call[r] \in Calls /\ pipe[r] \in Pipes
    BY TypeInit DEF TypeParts
  <2>2. pipe[r].job = "none" /\ call[r].at = "new"
    BY DEF Init, Idle, New
  <2>3. Rank(call[r], pipe[r]) \in Nat /\ MaxLines \in Nat
    BY <2>1, RankIsNumber, ProxyAssumption DEF ProxyAssumption
  <2>4. Rank(call[r], pipe[r]) <= 34 + 8 * MaxLines
    BY <2>1, <2>2, RankArrives
  <2> QED
    BY <2>3, <2>4 DEF RankOf
<1>5. TypeParts /\ TypeParts' /\ Quiet /\ Queued /\ AllStaged /\ RanksBounded /\ [Next]_vars
          => RanksBounded'
  BY BoundStep
<1>6. TypeParts /\ TypeParts' /\ Quiet /\ Queued /\ AllStaged /\ [Next]_vars
          => [\A r \in Request : call[r].at # "new" =>
                 /\ RankOf(r)' <= RankOf(r)
                 /\ Handler(r) \/ Thread(r) \/ (StartJob /\ r = Head(jobs))
                       => RankOf(r)' < RankOf(r)]_vars
  BY RankStep
<1> QED
  BY <1>1, <1>2, <1>3, <1>4, <1>5, <1>6, StagedInit, Basics, PTL DEF Spec, StepsCountDown
=============================================================================
