----------------------------- MODULE FleetProxy -----------------------------
(***************************************************************************)
(* The inference proxy (propagul/mesh/proxy.py) and the router that picks  *)
(* its backends (propagul/mesh/router.py): the coroutines that handle      *)
(* requests, the reader threads that feed them through bounded queues, and *)
(* the thread pool both depend on.                                         *)
(*                                                                         *)
(* Coroutines share one event loop: what lies between two awaits is one    *)
(* stretch, in which no other coroutine runs.  Threads run at any time.    *)
(* Ollama's translation and the passthrough are one protocol here, with    *)
(* the outcomes of both.                                                   *)
(***************************************************************************)
EXTENDS Integers, Sequences, FiniteSets

CONSTANTS
    Request,
    Node,               \* nodes of the fleet, each with one backend
    Self,               \* _local_node_id
    Own,                \* the backend the proxy is configured with
    None,               \* no backend
    QUEUE_MAX,          \* _STREAM_QUEUE_MAXSIZE
    MaxLines,           \* bound: lines in a backend's stream
    Workers             \* threads of the loop's default executor

ASSUME ProxyAssumption == /\ IsFiniteSet(Request)
                          /\ Own \notin Node
                          /\ None \notin Node \cup {Own}
                          /\ QUEUE_MAX \in Nat \ {0}
                          /\ MaxLines \in Nat
                          /\ Workers \in Nat \ {0}

VARIABLES
    usable,     \* the configured backend exists and is of a supported kind
    counts,     \* ActiveConnectionTracker._counts
    call,       \* call[r]: the coroutine that handles r
    pipe,       \* pipe[r]: its job in a thread, and the queue between them
    jobs,       \* requests whose job waits for a thread, first come first
    out         \* out[r]: what the client of r was sent while it was there

vars == <<usable, counts, call, pipe, jobs, out>>

Backend == Node \cup {Own}

(* What is written to a client: a whole response; or the head of a stream, *)
(* its lines, the error event, and the end mark after it. *)
Written == {"response", "head", "line", "error", "done"}

New == [at |-> "new", client |-> "here", stream |-> FALSE, backend |-> None,
        counted |-> None, asked |-> {}, failed |-> FALSE]

(* The job; lines read by the thread and taken by the handler; the queue. *)
Idle == [job |-> "none", read |-> 0, taken |-> 0, queue |-> <<>>]

Init ==
    /\ usable \in BOOLEAN
    /\ counts = [n \in Node |-> 0]
    /\ call = [r \in Request |-> New]
    /\ pipe = [r \in Request |-> Idle]
    /\ jobs = <<>>
    /\ out = [r \in Request |-> <<>>]

(* Stretches between two awaits that are more than one step here.  To     *)
(* close the response of a backend takes the lock that its reader holds in *)
(* readline(), and the whole loop waits for it.                            *)
Running == {"starting", "failing", "closing"}

LoopIdle == \A r \in Request : call[r].at \notin Running

Busy == {r \in Request : pipe[r].job \notin {"none", "queued"}}

Here(r) == call[r].client = "here"

(* What is written to a client that left goes nowhere. *)
Sends(r, items) == out' = IF Here(r) THEN [out EXCEPT ![r] = @ \o items] ELSE out

-----------------------------------------------------------------------------
(* Choice of a backend. *)

(* RequestRouter.select() for a fleet table that lists T, of which L have  *)
(* the model: the fewest active requests, the own node before others; if   *)
(* none has the model, the most free memory, which may be anyone's.        *)
Selected(T, L) ==
    LET Before(m, n) == \/ counts[m] < counts[n]
                        \/ counts[m] = counts[n] /\ m = Self
    IN  IF L # {} THEN {n \in L : \A m \in L \ {n} : ~ Before(m, n)}
        ELSE IF T # {} THEN T
        ELSE {None}

Acquired(n) == [counts EXCEPT ![n] = @ + 1]

(* Slip: the count is not given back. *)
ReleasedNever(n) == counts

Released(n) == IF n \in Node /\ counts[n] > 0 THEN [counts EXCEPT ![n] = @ - 1] ELSE counts

(* A chat request for a model, with what the fleet table holds by now.  The *)
(* table is replaced by the heartbeat at any time.                          *)
RouteToFleet(r) ==
    /\ call[r].at = "new"
    /\ LoopIdle
    /\ \E stream \in BOOLEAN, T \in SUBSET Node :
       \E L \in SUBSET T :
       \E n \in Selected(T, L) \ {None} :
          /\ counts' = Acquired(n)
          /\ call' = [call EXCEPT ![r].at = "starting", ![r].stream = stream,
                                 ![r].backend = n, ![r].counted = n]
    /\ UNCHANGED <<usable, pipe, jobs, out>>

(* A request that names no model, finds the table empty or stale or its    *)
(* target's address refused, or is none for chat.                          *)
RouteLocally(r) ==
    /\ call[r].at = "new"
    /\ LoopIdle
    /\ \E stream \in BOOLEAN :
          call' = [call EXCEPT ![r].at = "starting", ![r].stream = stream, ![r].backend = Own]
    /\ UNCHANGED <<usable, counts, pipe, jobs, out>>

(* A malformed request, a health check. *)
Reject(r) ==
    /\ call[r].at = "new"
    /\ LoopIdle
    /\ Sends(r, <<"response">>)
    /\ call' = [call EXCEPT ![r].at = "last"]
    /\ UNCHANGED <<usable, counts, pipe, jobs>>

-----------------------------------------------------------------------------
(* The handler of a request. *)

Moved(r, to) == [call EXCEPT ![r].at = to]

Submitted(r, j) == [pipe EXCEPT ![r] = [Idle EXCEPT !.job = j]]

(* The backend is asked in a thread: a job is put in line for one. *)
Ask(r) ==
    /\ call' = [call EXCEPT ![r].at = "asking", ![r].asked = @ \cup {call[r].backend}]
    /\ pipe' = Submitted(r, "queued")
    /\ jobs' = Append(jobs, r)

Begin(r) ==
    /\ call[r].at = "starting"
    /\ \/ /\ call[r].backend = Own /\ ~ usable
          /\ Sends(r, <<"response">>)
          /\ call' = Moved(r, "last")
          /\ UNCHANGED <<pipe, jobs>>
       \/ /\ call[r].backend = Own => usable
          /\ call[r].stream
          /\ Sends(r, <<"head">>)
          /\ call' = Moved(r, "head")
          /\ UNCHANGED <<pipe, jobs>>
       \/ /\ call[r].backend = Own => usable
          /\ ~ call[r].stream
          /\ Ask(r)
          /\ UNCHANGED out
    /\ UNCHANGED <<usable, counts>>

(* The body is none that Ollama's translation can handle. *)
Untranslatable(r) ==
    /\ call[r].at = "starting"
    /\ call[r].backend = Own => usable
    /\ call' = Moved(r, "failing")
    /\ UNCHANGED <<usable, counts, pipe, jobs, out>>

HeadDrained(r) ==
    /\ call[r].at = "head"
    /\ Here(r)
    /\ LoopIdle
    /\ Ask(r)
    /\ UNCHANGED <<usable, counts, out>>

(* Slip: a backend that fails raises an exception.                         *)
AnsweredRaising(r) ==
    /\ call[r].at = "asking"
    /\ pipe[r].job = "asking"
    /\ LoopIdle
    /\ call' = Moved(r, "failing")
    /\ pipe' = [pipe EXCEPT ![r] = Idle]
    /\ UNCHANGED <<usable, counts, jobs, out>>

(* The backend failed or answered as a whole, or its stream was opened.    *)
(* The failure is told to the client, and goes no further than that.       *)
Answered(r) ==
    /\ call[r].at = "asking"
    /\ pipe[r].job = "asking"
    /\ LoopIdle
    /\ \/ /\ Sends(r, IF call[r].stream THEN <<"error", "done">> ELSE <<"response">>)
          /\ call' = Moved(r, "last")
          /\ pipe' = [pipe EXCEPT ![r] = Idle]
          /\ UNCHANGED jobs
       \/ /\ call[r].stream
          /\ call' = Moved(r, "taking")
          /\ pipe' = Submitted(r, "queued")
          /\ jobs' = Append(jobs, r)
          /\ UNCHANGED out
    /\ UNCHANGED <<usable, counts>>

(* A line is forwarded, skipped because it is none of Ollama's, or fails   *)
(* to translate.  After it, the exception, or the end mark the handler is  *)
(* done with the stream.                                                   *)
Take(r) ==
    LET item == Head(pipe[r].queue)
        Done(failed) == call' = [call EXCEPT ![r].at = "closing", ![r].failed = failed]
        Line == item = "line"
    IN  /\ call[r].at = "taking"
        /\ pipe[r].queue # <<>>
        /\ LoopIdle
        /\ \/ Line /\ Sends(r, <<"line">>) /\ call' = Moved(r, "draining")
           \/ Line /\ UNCHANGED <<call, out>>
           \/ Line /\ Done(TRUE) /\ UNCHANGED out
           \/ item = "error" /\ Done(TRUE) /\ UNCHANGED out
           \/ item = "eof" /\ Done(FALSE) /\ UNCHANGED out
        /\ pipe' = [pipe EXCEPT ![r].queue = Tail(@), ![r].taken = IF Line THEN @ + 1 ELSE @]
        /\ UNCHANGED <<usable, counts, jobs>>

LineDrained(r) ==
    /\ call[r].at = "draining"
    /\ Here(r)
    /\ LoopIdle
    /\ call' = Moved(r, "taking")
    /\ UNCHANGED <<usable, counts, pipe, jobs, out>>

(* drain() raises once the connection of the client is lost. *)
DrainRaises(r) ==
    /\ ~ Here(r)
    /\ LoopIdle
    /\ \/ call[r].at \in {"head", "last"} /\ call' = Moved(r, "failing")
       \/ call[r].at = "draining"
          /\ call' = [call EXCEPT ![r].at = "closing", ![r].failed = TRUE]
    /\ UNCHANGED <<usable, counts, pipe, jobs, out>>

(* The reader was told to stop; the response is closed as soon as the      *)
(* reader is out of readline().                                            *)
Close(r) ==
    /\ call[r].at = "closing"
    /\ pipe[r].job # "read"
    /\ call' = Moved(r, "joining")
    /\ UNCHANGED <<usable, counts, pipe, jobs, out>>

(* The handler returns: the count is given back and the connection closed. *)
(* What it knew no longer matters.                                         *)
Returns(r) ==
    /\ call' = [call EXCEPT ![r] = [New EXCEPT !.at = "over"]]
    /\ counts' = Released(call[r].counted)
    /\ pipe' = [pipe EXCEPT ![r] = Idle]

(* Slip: the reader is not waited for. *)
JoinAtOnce(r) ==
    /\ call[r].at = "joining"
    /\ LoopIdle
    /\ Returns(r)
    /\ UNCHANGED <<usable, jobs, out>>

(* The reader has ended. *)
Join(r) ==
    /\ call[r].at = "joining"
    /\ pipe[r].job = "none"
    /\ LoopIdle
    /\ \/ /\ call[r].failed
          /\ Sends(r, <<"error", "done">>)
          /\ call' = Moved(r, "last")
          /\ pipe' = [pipe EXCEPT ![r] = Idle]
          /\ UNCHANGED counts
       \/ ~ call[r].failed /\ Returns(r) /\ UNCHANGED out
    /\ UNCHANGED <<usable, jobs>>

LastDrained(r) ==
    /\ call[r].at = "last"
    /\ Here(r)
    /\ LoopIdle
    /\ Returns(r)
    /\ UNCHANGED <<usable, jobs, out>>

(* An exception reaches _handle_chat_completions(): a request that was     *)
(* routed to the fleet falls back to the configured backend; any other     *)
(* gets a last response, if it still has a client.                         *)
Fail(r) ==
    /\ call[r].at = "failing"
    /\ \/ /\ call[r].counted # None
          /\ counts' = Released(call[r].counted)
          /\ call' = [call EXCEPT ![r].at = "starting", ![r].backend = Own,
                                 ![r].counted = None, ![r].failed = FALSE]
          /\ UNCHANGED <<pipe, out>>
       \/ call[r].counted = None /\ Returns(r) /\ Sends(r, <<"response">>)
    /\ UNCHANGED <<usable, jobs>>

-----------------------------------------------------------------------------
(* The threads. *)

(* A thread of the executor takes the oldest job. *)
StartJob ==
    /\ jobs # <<>>
    /\ Cardinality(Busy) < Workers
    /\ LET r == Head(jobs)
       IN  pipe' = [pipe EXCEPT ![r].job = IF call[r].at = "asking" THEN "asking" ELSE "read"]
    /\ jobs' = Tail(jobs)
    /\ UNCHANGED <<usable, counts, call, out>>

(* readline() returns a line.  A reader that was told to stop drops it. *)
ReadLine(r) ==
    /\ pipe[r].job = "read"
    /\ call[r].at # "joining"
    /\ pipe[r].read < MaxLines
    /\ pipe' = [pipe EXCEPT ![r].read = @ + 1,
                           ![r].job = IF call[r].at = "closing" THEN "eof" ELSE "line"]
    /\ UNCHANGED <<usable, counts, call, jobs, out>>

(* Slip: the end of the stream is not put into the queue. *)
ReadEndsSilently(r) ==
    /\ pipe[r].job = "read"
    /\ \E job \in {"error", "none"} : pipe' = [pipe EXCEPT ![r].job = job]
    /\ UNCHANGED <<usable, counts, call, jobs, out>>

(* The stream ends, or fails, times out or was closed. *)
ReadEnds(r) ==
    /\ pipe[r].job = "read"
    /\ \E job \in {"error", "eof"} : pipe' = [pipe EXCEPT ![r].job = job]
    /\ UNCHANGED <<usable, counts, call, jobs, out>>

(* Slip: a queue without a bound. *)
RoomAlways(r) == TRUE

HasQueueRoom(r) == Len(pipe[r].queue) < QUEUE_MAX

(* What the thread does after each put. *)
AfterPut(job) == CASE job = "line" -> "read" [] job = "error" -> "eof" [] job = "eof" -> "none"

(* Slip: what finds the queue full is dropped. *)
PutNoWait(r) ==
    /\ pipe[r].job \in {"line", "error", "eof"}
    /\ LoopIdle
    /\ pipe' = [pipe EXCEPT ![r].queue = IF HasQueueRoom(r) THEN Append(@, pipe[r].job) ELSE @,
                           ![r].job = AfterPut(@)]
    /\ UNCHANGED <<usable, counts, call, jobs, out>>

(* The loop runs the put() the thread waits for. *)
Put(r) ==
    /\ pipe[r].job \in {"line", "error", "eof"}
    /\ LoopIdle
    /\ HasQueueRoom(r)
    /\ pipe' = [pipe EXCEPT ![r].queue = Append(@, pipe[r].job), ![r].job = AfterPut(@)]
    /\ UNCHANGED <<usable, counts, call, jobs, out>>

-----------------------------------------------------------------------------

(* The connection of a client breaks. *)
ClientLeaves(r) ==
    /\ call[r].at \notin {"new", "over"}
    /\ Here(r)
    /\ call' = [call EXCEPT ![r].client = "gone"]
    /\ UNCHANGED <<usable, counts, pipe, jobs, out>>

Handler(r) == \/ Begin(r) \/ Untranslatable(r) \/ HeadDrained(r) \/ Answered(r) \/ Take(r)
              \/ LineDrained(r) \/ DrainRaises(r) \/ Close(r) \/ Join(r) \/ LastDrained(r)
              \/ Fail(r)

Thread(r) == ReadLine(r) \/ ReadEnds(r) \/ Put(r)

Next == \/ StartJob
        \/ \E r \in Request : \/ RouteToFleet(r) \/ RouteLocally(r) \/ Reject(r)
                              \/ Handler(r) \/ Thread(r) \/ ClientLeaves(r)

Spec == Init /\ [][Next]_vars

(* No await and no call in a thread lasts for ever: sockets time out, and  *)
(* a client reads what it is sent or leaves.                               *)
FairSpec == /\ Spec
            /\ WF_vars(StartJob)
            /\ \A r \in Request : WF_vars(Handler(r)) /\ WF_vars(Thread(r))

-----------------------------------------------------------------------------
(* Properties. *)

Stages == {"new", "starting", "head", "asking", "taking", "draining", "closing", "joining",
           "last", "failing", "over"}

(* Types; a queue keeps within its limit. *)
TypeOK ==
    /\ usable \in BOOLEAN
    /\ counts \in [Node -> Nat]
    /\ call \in [Request -> [at : Stages, client : {"here", "gone"}, stream : BOOLEAN,
                            backend : Backend \cup {None}, counted : Node \cup {None},
                            asked : SUBSET Backend, failed : BOOLEAN]]
    /\ pipe \in [Request -> [job : {"none", "queued", "asking", "read", "line", "error", "eof"},
                            read : 0 .. MaxLines, taken : Nat,
                            queue : Seq({"line", "error", "eof"})]]
    /\ \A r \in Request : Len(pipe[r].queue) <= QUEUE_MAX
    /\ jobs \in Seq(Request)
    /\ out \in [Request -> Seq(Written)]

(* The count of a node is the number of requests being served by it: none  *)
(* is counted twice, and none stays counted on any way out of the handler. *)
CountsMatch ==
    \A n \in Node : counts[n] = Cardinality({r \in Request : call[r].counted = n})

(* A client gets one answer: a response, or a stream whose head comes      *)
(* first and whose error event, if any, is last.  No fallback starts a     *)
(* second answer on top of the first.                                      *)
OneAnswer ==
    \A r \in Request : \A i \in 1 .. Len(out[r]) :
        /\ out[r][i] \in {"head", "response"} <=> i = 1
        /\ out[r][i] = "response" => Len(out[r]) = 1
        /\ out[r][i] \in {"error", "done"} => i >= Len(out[r]) - 1

(* A stream whose end mark was taken is complete: every line its reader    *)
(* got was taken, the queue is empty and the thread is free.               *)
EndIsLast ==
    \A r \in Request :
        call[r].at \in {"closing", "joining"} /\ ~ call[r].failed =>
            /\ pipe[r].taken = pipe[r].read
            /\ pipe[r].queue = <<>>
            /\ pipe[r].job = "none"

(* "Automatic failover: if the selected backend fails, the caller retries  *)
(* with the next candidate from the ordered list" (router.py:211), and     *)
(* "Local fallback: use the configured local backend" (proxy.py:701): no   *)
(* client whose request went to another node is told of a failure before   *)
(* its first line, while the configured backend was never asked.           *)
FleetFailsOver ==
    \A r \in Request :
        /\ usable
        /\ call[r].counted \notin {None, Self}
        /\ out[r] = <<"head", "error", "done">>
        => Cardinality(call[r].asked) > 1

(* The handler waits for its reader, and the reader for room in a queue    *)
(* that only the handler would empty.                                      *)
Stuck(r) ==
    /\ call[r].at = "joining"
    /\ pipe[r].job \in {"line", "error", "eof"}
    /\ ~ HasQueueRoom(r)

(* Nothing frees a stuck request, nor the thread it occupies. *)
StuckForGood == [][\A r \in Request : Stuck(r) => Stuck(r)']_vars

(* A request ends, unless it, or one before it that holds a thread it      *)
(* needs, is stuck.                                                        *)
EndsUnlessStuck ==
    \A r \in Request : call[r].at = "starting" ~> call[r].at = "over" \/ \E q \in Request : Stuck(q)

=============================================================================
