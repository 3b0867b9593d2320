------------------------------ MODULE MeshAgent ------------------------------
(* The threads of a mesh agent (mesh/agent.py): the heartbeat, which        *)
(* detects engines and reports routing events, the command loop, which      *)
(* works through what the dashboard asks for, and one thread for each pull  *)
(* of a model, over the client of mesh/backends/ollama.py.  The exchange of *)
(* settings at the end of a heartbeat is FleetConfig.                       *)
(*                                                                          *)
(* The agent has no --ollama override and finds its engines by itself; an   *)
(* engine that does not support a request answers it with an error.         *)
EXTENDS Integers, Sequences, FiniteSets

CONSTANTS
    Model,          \* the models Ollama may hold in the memory of the GPU
    Wanted,         \* bound: the models that commands name
    MAXLEN,         \* capacity of the log of routing events
    MaxEvents,      \* bound: routing events ever recorded
    MaxCommands,    \* bound: commands ever issued
    MaxBatch        \* bound: commands in one answer of the dashboard

ASSUME AgentAssumption ==
    /\ IsFiniteSet(Model)
    /\ Wanted \subseteq Model
    /\ MAXLEN \in Nat \ {0}
    /\ MaxEvents \in Nat
    /\ MaxCommands \in Nat
    /\ MaxBatch \in Nat \ {0}

VARIABLES
    engine,     \* the first of _detected_backends, or "none"
    beat,       \* where the heartbeat is, and the events it carries
    log,        \* the router's event log
    recorded,   \* how many events there were, numbered in their order
    told,       \* history: the last event the dashboard was told of
    cmd,        \* the command loop
    issued,     \* history: how many commands were fetched
    cancels,    \* _cancel_pulls
    asked,      \* history: how often each pull was cancelled by command
    crowded,    \* history: the models two pulls worked on at once
    pulls,      \* the pull threads, in the order they were started
    ejection    \* eject_all(), and what the GPU holds, while it runs

heartbeat == <<beat, log, recorded, told>>
commands == <<cmd, issued>>
threads == <<cancels, asked, crowded, pulls>>
vars == <<engine, heartbeat, commands, threads, ejection>>

(* Ollama, and one of the engines the agent only reads from.  detect()     *)
(* lists in a fixed order what it finds, and only the first is used.       *)
Backend == {"ollama", "vllm"}

Command == [op : {"pull", "cancel_pull", "delete"}, model : Wanted] \cup [op : {"eject"}]

Idle == [at |-> "idle", batch |-> <<>>, url |-> "none"]

NoEjection == [todo |-> {}, failed |-> {}, arrived |-> {}, loaded |-> {}]

Init ==
    /\ engine \in Backend \cup {"none"}
    /\ beat = [at |-> "collecting", batch |-> <<>>]
    /\ log = <<>>
    /\ recorded = 0
    /\ told = 0
    /\ cmd = Idle
    /\ issued = 0
    /\ cancels = {}
    /\ asked = [m \in Wanted |-> 0]
    /\ crowded = {}
    /\ pulls = <<>>
    /\ ejection = NoEjection

Pull == DOMAIN pulls

ActiveOn(t, m) ==
    /\ t \in Pull
    /\ pulls[t].model = m
    /\ pulls[t].at \in {"reading", "cancelling"}

-----------------------------------------------------------------------------
(* The heartbeat: _poll_loop(). *)

(* _collect_telemetry(): a rescan, due at every sixth poll or when nothing *)
(* is known, replaces the list as a whole.  A probe may miss an engine     *)
(* that runs, or have met one that has stopped since.  (An unchanged list  *)
(* stands for the polls in between, too.)                                  *)
Collect ==
    /\ beat.at = "collecting"
    /\ beat' = [beat EXCEPT !.at = "collected"]
    /\ engine' \in Backend \cup {"none"}
    /\ UNCHANGED <<log, recorded, told, commands, threads, ejection>>

(* Slip: the log is read and left as it is. *)
DrainedKept == log

Drained == <<>>

(* _push_telemetry() takes the events before it posts. *)
Drain ==
    /\ beat.at = "collected"
    /\ beat' = [at |-> "posting", batch |-> log]
    /\ log' = Drained
    /\ UNCHANGED <<engine, recorded, told, commands, threads, ejection>>

(* Slip: an exception leaves the loop. *)
AfterBeatDead == "dead"

(* Settings are synchronised (FleetConfig).  With auto-pull on,            *)
(* create_task() is then called in a worker thread without a loop and      *)
(* raises: no reconciliation starts, the loop logs the error and goes on.  *)
AfterBeat == "collecting"

(* The dashboard takes the heartbeat.  Its answer, the routing table for   *)
(* the proxy (FleetProxy), may be lost and does not matter to the events.  *)
PostArrives ==
    /\ beat.at = "posting"
    /\ beat' = [at |-> AfterBeat, batch |-> <<>>]
    /\ told' = IF beat.batch = <<>> THEN told ELSE beat.batch[Len(beat.batch)]
    /\ UNCHANGED <<engine, log, recorded, commands, threads, ejection>>

PostFails ==
    /\ beat.at = "posting"
    /\ beat' = [at |-> AfterBeat, batch |-> <<>>]
    /\ UNCHANGED <<engine, log, recorded, told, commands, threads, ejection>>

(* Slip: one event too many is kept. *)
KeptOneMore(events) ==
    IF Len(events) > MAXLEN
    THEN SubSeq(events, Len(events) - MAXLEN, Len(events))
    ELSE events

(* Slip: one event too few is kept, and a log that is just full overflows. *)
KeptOneLess(events) ==
    IF Len(events) >= MAXLEN
    THEN SubSeq(events, Len(events) - MAXLEN + 2, Len(events))
    ELSE events

(* The newest MAXLEN events. *)
Kept(events) ==
    IF Len(events) > MAXLEN
    THEN SubSeq(events, Len(events) - MAXLEN + 1, Len(events))
    ELSE events

(* RoutingEventLog.record(), called by the proxy on the event loop.        *)
Record ==
    LET events == Append(log, recorded + 1)
    IN  /\ recorded < MaxEvents
        /\ recorded' = recorded + 1
        /\ log' = Kept(events)
        /\ UNCHANGED <<engine, beat, told, commands, threads, ejection>>

-----------------------------------------------------------------------------
(* The command loop: _fetch_and_execute_commands(). *)

(* Inference commands are skipped, and are left out. *)
Fetch(batch) ==
    /\ cmd.at = "idle"
    /\ issued + Len(batch) <= MaxCommands
    /\ issued' = issued + Len(batch)
    /\ cmd' = [cmd EXCEPT !.at = "choosing", !.batch = batch]
    /\ UNCHANGED <<engine, heartbeat, threads, ejection>>

(* The loop after the first command of its batch. *)
After(rest) == IF rest = <<>> THEN Idle ELSE [at |-> "choosing", batch |-> rest, url |-> "none"]
Done == After(Tail(cmd.batch))

(* Without a backend the command is passed over. *)
NoBackend ==
    /\ cmd.at = "choosing"
    /\ engine = "none"
    /\ cmd' = Done
    /\ UNCHANGED <<engine, heartbeat, issued, threads, ejection>>

(* The URL is read from the list, and the name after it: the heartbeat's   *)
(* thread may replace the list in between.                                 *)
ChooseUrl ==
    /\ cmd.at = "choosing"
    /\ engine # "none"
    /\ cmd' = [cmd EXCEPT !.at = "naming", !.url = engine]
    /\ UNCHANGED <<engine, heartbeat, issued, threads, ejection>>

(* By an empty one, which has no first element: the exception ends the     *)
(* batch, and with it every command that has not been executed.            *)
NameMissing ==
    /\ cmd.at = "naming"
    /\ engine = "none"
    /\ cmd' = Idle
    /\ UNCHANGED <<engine, heartbeat, issued, threads, ejection>>

Executes(op) ==
    /\ cmd.at = "naming"
    /\ engine # "none"
    /\ Head(cmd.batch).op = op

Managed == engine = "ollama"

(* Engines other than Ollama are read-only. *)
Reject ==
    /\ \E op \in {"pull", "delete", "eject"} : Executes(op)
    /\ ~ Managed
    /\ cmd' = Done
    /\ UNCHANGED <<engine, heartbeat, issued, threads, ejection>>

StartPull ==
    /\ Executes("pull")
    /\ Managed
    /\ pulls' = Append(pulls, [model |-> Head(cmd.batch).model, url |-> cmd.url,
                               at |-> "reading"])
    /\ crowded' = IF \E t \in Pull : ActiveOn(t, Head(cmd.batch).model)
                  THEN crowded \cup {Head(cmd.batch).model}
                  ELSE crowded
    /\ cmd' = Done
    /\ UNCHANGED <<engine, heartbeat, issued, cancels, asked, ejection>>

(* A cancel is a flag, whether a pull is running or not. *)
CancelPull ==
    LET m == Head(cmd.batch).model
    IN  /\ Executes("cancel_pull")
        /\ cancels' = cancels \cup {m}
        /\ asked' = [asked EXCEPT ![m] = @ + 1]
        /\ cmd' = Done
        /\ UNCHANGED <<engine, heartbeat, issued, crowded, pulls, ejection>>

(* execute_command() has an answer for every outcome.                      *)
Delete ==
    /\ Executes("delete")
    /\ Managed
    /\ cmd' = Done
    /\ UNCHANGED <<engine, heartbeat, issued, threads, ejection>>

-----------------------------------------------------------------------------
(* eject_all(), in the command loop's thread. *)

(* The list cannot be had, or is empty. *)
EjectsNothing ==
    /\ Executes("eject")
    /\ Managed
    /\ cmd' = Done
    /\ UNCHANGED <<engine, heartbeat, issued, threads, ejection>>

(* /api/ps lists what is loaded.                                           *)
EjectLists(listed) ==
    /\ Executes("eject")
    /\ Managed
    /\ cmd.url = "ollama"
    /\ listed # {}
    /\ ejection' = [NoEjection EXCEPT !.todo = listed, !.loaded = listed]
    /\ cmd' = [cmd EXCEPT !.at = "ejecting"]
    /\ UNCHANGED <<engine, heartbeat, issued, threads>>

Unload(m) ==
    /\ cmd.at = "ejecting"
    /\ m \in ejection.todo
    /\ ejection' = [ejection EXCEPT !.todo = @ \ {m}, !.arrived = @ \ {m}, !.loaded = @ \ {m}]
    /\ UNCHANGED <<engine, heartbeat, commands, threads>>

(* Slip: a model whose request failed counts as ejected. *)
FailedForgotten(m) == ejection.failed

Failed(m) == ejection.failed \cup {m}

(* One model's failure does not keep the others from being unloaded.  An   *)
(* answer that is lost leaves open whether Ollama did as it was told.      *)
UnloadFails(m) ==
    /\ cmd.at = "ejecting"
    /\ m \in ejection.todo
    /\ \E left \in {ejection.loaded, ejection.loaded \ {m}} :
          ejection' = [ejection EXCEPT !.todo = @ \ {m}, !.failed = Failed(m), !.loaded = left]
    /\ UNCHANGED <<engine, heartbeat, commands, threads>>

(* Told apart from "partial" and "error". *)
EjectedAll == ejection.failed = {}

(* The second /api/ps only counts for the log what is left.                *)
EjectReports ==
    /\ cmd.at = "ejecting"
    /\ ejection.todo = {}
    /\ ejection' = NoEjection
    /\ cmd' = Done
    /\ UNCHANGED <<engine, heartbeat, issued, threads>>

(* Meanwhile Ollama loads a model for a request of the proxy.  (That it    *)
(* unloads one that was idle for long is left out: the GPU only holds less.) *)
Load(m) ==
    /\ cmd.at = "ejecting"
    /\ m \notin ejection.loaded
    /\ ejection' = [ejection EXCEPT !.arrived = @ \cup {m}, !.loaded = @ \cup {m}]
    /\ UNCHANGED <<engine, heartbeat, commands, threads>>

-----------------------------------------------------------------------------
(* A pull thread: _handle_pull_with_progress() over                        *)
(* execute_pull_streaming().                                               *)

(* Slip: the clock of the throttle is set by every event, and the events   *)
(* of a pull come more often than the throttle lets them through.          *)
PassesThrottleNever(t) == FALSE

(* An event, the result or one that comes half a second after the last     *)
(* report.                                                                 *)
PassesThrottle(t) == pulls[t].at = "reading"

(* Past the throttle the flag comes before the report, and before a        *)
(* success or an error too.                                                *)
SeeCancel(t) ==
    /\ PassesThrottle(t)
    /\ pulls[t].model \in cancels
    /\ pulls' = [pulls EXCEPT ![t].at = "cancelling"]
    /\ UNCHANGED <<engine, heartbeat, commands, cancels, asked, crowded, ejection>>

(* The stream ends, with a result that is reported or without one.  An     *)
(* engine other than Ollama answers with an error, which is an event.      *)
StreamEnds(t) ==
    /\ pulls[t].at = "reading"
    /\ pulls[t].url = "ollama" \/ pulls[t].model \notin cancels
    /\ pulls' = [pulls EXCEPT ![t].at = "ended"]
    /\ UNCHANGED <<engine, heartbeat, commands, cancels, asked, crowded, ejection>>

(* Slip: the flag stays. *)
ClearedNever(m) == cancels

Cleared(m) == cancels \ {m}

(* The flag is taken down in a step of its own, "cancelled" reported and   *)
(* the stream dropped.                                                     *)
Cancel(t) ==
    /\ pulls[t].at = "cancelling"
    /\ cancels' = Cleared(pulls[t].model)
    /\ pulls' = [pulls EXCEPT ![t].at = "cancelled"]
    /\ UNCHANGED <<engine, heartbeat, commands, asked, crowded, ejection>>

-----------------------------------------------------------------------------

Beat == Collect \/ Drain \/ PostArrives \/ PostFails

Next ==
    \/ Beat
    \/ Record
    \/ \E n \in 1..MaxBatch : \E batch \in [1..n -> Command] : Fetch(batch)
    \/ NoBackend
    \/ ChooseUrl
    \/ NameMissing
    \/ Reject
    \/ StartPull
    \/ CancelPull
    \/ Delete
    \/ \E listed \in SUBSET Model : EjectLists(listed)
    \/ EjectsNothing
    \/ \E m \in Model : Unload(m) \/ UnloadFails(m)
    \/ EjectReports
    \/ \E m \in Model : Load(m)
    \/ \E t \in Pull : SeeCancel(t)
    \/ \E t \in Pull : StreamEnds(t)
    \/ \E t \in Pull : Cancel(t)

Spec == Init /\ [][Next]_vars

(* The heartbeat goes on for as long as the agent runs; and as long as a   *)
(* stream lasts, one of its events at last falls outside the half second   *)
(* that the last report closed.                                            *)
FairSpec ==
    /\ Spec
    /\ WF_vars(Beat)
    /\ \A t \in 1..MaxCommands : WF_vars(t \in Pull /\ (SeeCancel(t) \/ Cancel(t)))

-----------------------------------------------------------------------------

HeartbeatTypeOK ==
    /\ engine \in Backend \cup {"none"}
    /\ beat \in [at : {"collecting", "collected", "posting"}, batch : Seq(1..recorded)]
    /\ log \in Seq(1..recorded)
    /\ Len(log) <= MAXLEN
    /\ recorded \in 0..MaxEvents
    /\ told \in 0..recorded

CommandTypeOK ==
    /\ cmd \in [at : {"idle", "choosing", "naming", "ejecting"}, batch : Seq(Command),
               url : Backend \cup {"none"}]
    /\ (cmd.at = "idle") <=> (cmd.batch = <<>>)
    /\ (cmd.at = "naming") => (cmd.url \in Backend)
    /\ issued \in 0..MaxCommands

PullTypeOK ==
    /\ cancels \subseteq Wanted
    /\ asked \in [Wanted -> Nat]
    /\ crowded \subseteq Wanted
    /\ pulls \in Seq([model : Wanted, url : Backend,
                      at : {"reading", "cancelling", "cancelled", "ended"}])

EjectionTypeOK ==
    ejection \in [todo : SUBSET Model, failed : SUBSET Model, arrived : SUBSET Model,
                  loaded : SUBSET Model]

TypeOK ==
    /\ HeartbeatTypeOK
    /\ CommandTypeOK
    /\ PullTypeOK
    /\ EjectionTypeOK

(* The dashboard is told of each routing event at most once and in order:  *)
(* what it knows, what is being posted and what is in the log follow one   *)
(* another, although the proxy records on another thread, the log          *)
(* overflows and posts fail.                                               *)
EventsOnce ==
    LET way == <<told>> \o beat.batch \o log
    IN  \A i, j \in DOMAIN way : i < j => way[i] < way[j]

(* Every event after the last one told is on its way, and no other.        *)
EventsIn(s) == {s[i] : i \in 1..Len(s)}
NothingMissing == EventsIn(beat.batch) \cup EventsIn(log) = (told + 1)..recorded

(* The dashboard comes to miss an event only where the code gives one up:  *)
(* with the batch of a post that fails, which drain() has taken out of the *)
(* log, or in record() when the log is full.                               *)
LossExplained ==
    [][NothingMissing => \/ NothingMissing'
                         \/ PostFails /\ beat.batch # <<>>
                         \/ Record /\ Len(log) = MAXLEN]_vars

CancelledOf(m) == {t \in Pull : pulls[t].model = m /\ pulls[t].at = "cancelled"}
Flag(m) == IF m \in cancels THEN 1 ELSE 0

(* A command to cancel stops at most one pull: as long as no two pulls of  *)
(* a model run at once, each cancelled pull has a command of its own.      *)
CancelsSpent ==
    \A m \in Wanted \ crowded : Cardinality(CancelledOf(m)) + Flag(m) <= asked[m]

(* What the GPU still holds when eject_all() returns is what it reports as *)
(* failed, and what was loaded while it ran; after an "ok" only the latter. *)
EjectAccounted ==
    [][cmd.at = "ejecting" /\ cmd'.at # "ejecting"
         => ejection.loaded \subseteq ejection.arrived
                                      \cup (IF EjectedAll THEN {} ELSE ejection.failed)]_vars

(* The heartbeat empties the log again and again, whatever becomes of its  *)
(* posts: an event that the log still has is on its way.                   *)
LogDrained == []<>(log = <<>>)

(* A cancel flag with a pull to stop does not stay up: a pull takes it, or *)
(* all pulls of the model end by themselves, even if the flag went up      *)
(* while the throttle was closed.                                          *)
CancelHeeded ==
    \A m \in Wanted :
        m \in cancels /\ (\E t \in Pull : ActiveOn(t, m))
            ~> m \notin cancels \/ (\A t \in Pull : ~ ActiveOn(t, m))
=============================================================================
