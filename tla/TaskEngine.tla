----------------------------- MODULE TaskEngine -----------------------------
(***************************************************************************)
(* The task engine of unihelm-agentd: a request becomes a row in `tasks`,  *)
(* a worker runs the operation, a pump persists its output line by line,   *)
(* and every change is published on a bounded broadcast bus that each      *)
(* client connection forwards to its viewer.  The row and the log live in  *)
(* SQLite and survive a crash; workers, sinks, the bus and the connections *)
(* live in the agent's memory and do not.                                  *)
(*                                                                         *)
(* Every `.await` on the database or on a channel separates two actions;   *)
(* code between two awaits is one action.                                  *)
(***************************************************************************)
EXTENDS Naturals, Sequences

CONSTANTS
  Tasks,        \* the task ids that requests may draw
  Conns,        \* client connections to the agent's socket
  Ops,          \* operations declared Execution::Task
  Cancellable,  \* those declared `cancellable: true`
  MtaInstall,   \* the operation `mail.mta.install`
  None,         \* absence of a task, an operation or a connection
  BusCapacity,  \* BUS_CAPACITY, events a lagging consumer may fall behind
  MaxLines,     \* bound: lines one run of an operation writes
  MaxCrashes,   \* bound: agent crashes
  MaxFaults     \* bound: database writes that fail

ASSUME TaskEngineAssumption ==
  /\ Cancellable \subseteq Ops
  /\ MtaInstall \in Ops \ Cancellable
  /\ None \notin Tasks \cup Ops \cup Conns
  /\ BusCapacity \in Nat \ {0}
  /\ MaxLines \in Nat /\ MaxCrashes \in Nat /\ MaxFaults \in Nat

VARIABLES
  \* --- SQLite ---------------------------------------------------------
  status,       \* tasks.status, or "none" while the id has no row
  op,           \* tasks.op
  log,          \* task_logs: position is `seq`, value is the line
  relayLive,    \* mail_relay: is a relay configured and enabled
  \* --- agent memory ---------------------------------------------------
  agent,        \* "down", "reconciled" (starting) or "serving"
  worker,       \* where the request handler or the worker of a task is
  requester,    \* the connection whose handler is about to spawn the task
  outcome,      \* what dispatch returned, once it has
  sink,         \* lines queued on the task's unbounded channel
  pump,         \* seq the pump has persisted and not yet published, else 0
  canceller,    \* is a CancelTask handler between its UPDATE and publish
  bus,          \* events the forwarder of a connection has not read yet
  interest,     \* tasks a connection watches
  connected,
  \* --- the client, and what the properties observe --------------------
  view,         \* last state and last log seq a connection delivered
  sent,         \* lines the operation has written
  origin,       \* the task a retry was made from
  auto,         \* was the task queued by the agent's own start
  mtaOurs,      \* is main.cf the panel's (Layout::state().is_ours())
  lost,         \* a database write for this task failed
  crashes, faults

dbVars   == <<status, op, log, relayLive>>
memVars  == <<agent, worker, requester, outcome, sink, pump, canceller, bus, interest, connected>>
obsVars  == <<view, sent, origin, auto, mtaOurs, lost, crashes, faults>>
vars     == <<dbVars, memVars, obsVars>>

\* The socket is accepting requests.
up == agent = "serving"

Active       == {"queued", "running"}
Terminal     == {"ok", "failed", "cancelled"}
TaskStatus   == Active \cup Terminal
Stages       == {"none", "accepted", "spawned", "starting", "running", "draining",
                 "failing", "closing", "announcing", "done"}

\* The line record_failure writes; the operation's own lines are 1, 2, ...
FailureLine == 0

\* EventKind::TaskState and EventKind::TaskLog.
StateEvent(t, s) == [task |-> t, status |-> s, seq |-> 0]
LineEvent(t, n)  == [task |-> t, status |-> "line", seq |-> n]
Events == [task : Tasks, status : TaskStatus \cup {"line"}, seq : Nat]

NoView == [t \in Tasks |-> [status |-> "none", seq |-> 0]]

TypeOK ==
  /\ status \in [Tasks -> TaskStatus \cup {"none"}]
  /\ op \in [Tasks -> Ops \cup {None}]
  /\ log \in [Tasks -> Seq(Nat)]
  /\ relayLive \in BOOLEAN /\ mtaOurs \in BOOLEAN
  /\ agent \in {"down", "reconciled", "serving"}
  /\ worker \in [Tasks -> Stages]
  /\ requester \in [Tasks -> Conns \cup {None}]
  /\ outcome \in [Tasks -> {"none", "ok", "err"}]
  /\ sink \in [Tasks -> Seq(Nat)]
  /\ pump \in [Tasks -> Nat]
  /\ canceller \in [Tasks -> BOOLEAN]
  /\ bus \in [Conns -> Seq(Events)]
  /\ interest \in [Conns -> SUBSET Tasks]
  /\ connected \in [Conns -> BOOLEAN]
  /\ view \in [Conns -> [Tasks -> [status : TaskStatus \cup {"none"}, seq : Nat]]]
  /\ sent \in [Tasks -> Nat]
  /\ origin \in [Tasks -> Tasks \cup {None}]
  /\ auto \in [Tasks -> BOOLEAN]
  /\ lost \in [Tasks -> BOOLEAN]
  /\ crashes \in Nat /\ faults \in Nat

\* The first start of this agent on a machine that may already have a relay.
Init ==
  /\ status = [t \in Tasks |-> "none"]
  /\ op = [t \in Tasks |-> None]
  /\ log = [t \in Tasks |-> <<>>]
  /\ relayLive \in BOOLEAN
  /\ agent = "down"
  /\ worker = [t \in Tasks |-> "none"]
  /\ requester = [t \in Tasks |-> None]
  /\ outcome = [t \in Tasks |-> "none"]
  /\ sink = [t \in Tasks |-> <<>>]
  /\ pump = [t \in Tasks |-> 0]
  /\ canceller = [t \in Tasks |-> FALSE]
  /\ bus = [c \in Conns |-> <<>>]
  /\ interest = [c \in Conns |-> {}]
  /\ connected = [c \in Conns |-> FALSE]
  /\ view = [c \in Conns |-> NoView]
  /\ sent = [t \in Tasks |-> 0]
  /\ origin = [t \in Tasks |-> None]
  /\ auto = [t \in Tasks |-> FALSE]
  /\ mtaOurs = FALSE
  /\ lost = [t \in Tasks |-> FALSE]
  /\ crashes = 0 /\ faults = 0

-----------------------------------------------------------------------------
(* The bus.  A tokio broadcast channel overwrites its oldest event; the    *)
(* receiver that fell behind reads Lagged and goes on with what is left.   *)

Overwrite(q, e) ==
  IF Len(q) < BusCapacity THEN Append(q, e) ELSE Append(Tail(q), e)

Publish(e) ==
  bus' = [c \in Conns |-> IF connected[c] THEN Overwrite(bus[c], e) ELSE bus[c]]

Delivered(v, e) ==
  IF e.status = "line" THEN [v EXCEPT !.seq = e.seq] ELSE [v EXCEPT !.status = e.status]

\* spawn_event_forwarder: deliver the next event if the connection watches it.
Forward(c) ==
  /\ up /\ bus[c] # <<>>
  /\ LET e == Head(bus[c]) IN
       view' = IF e.task \in interest[c] THEN [view EXCEPT ![c][e.task] = Delivered(@, e)] ELSE view
  /\ bus' = [bus EXCEPT ![c] = Tail(@)]
  /\ UNCHANGED <<dbVars, agent, worker, requester, outcome, sink, pump, canceller, interest, connected,
                 sent, origin, auto, mtaOurs, lost, crashes, faults>>

\* serve accepts a peer and hands it a handler and a forwarder of its own.
Connect(c) ==
  /\ up /\ ~connected[c]
  /\ connected' = [connected EXCEPT ![c] = TRUE]
  /\ view' = [view EXCEPT ![c] = NoView]
  /\ UNCHANGED <<dbVars, agent, worker, requester, outcome, sink, pump, canceller, bus, interest,
                 sent, origin, auto, mtaOurs, lost, crashes, faults>>

\* The peer went away: nothing more reaches it, its interests go with it.
Disconnect(c) ==
  /\ up /\ connected[c]
  /\ connected' = [connected EXCEPT ![c] = FALSE]
  /\ bus' = [bus EXCEPT ![c] = <<>>]
  /\ interest' = [interest EXCEPT ![c] = {}]
  /\ requester' = [t \in Tasks |-> IF requester[t] = c THEN None ELSE requester[t]]
  /\ UNCHANGED <<dbVars, agent, worker, outcome, sink, pump, canceller, obsVars>>

\* ControlKind::Subscribe and ControlKind::Unsubscribe.
Subscribe(c, t) ==
  /\ up /\ connected[c] /\ status[t] # "none" /\ t \notin interest[c]
  /\ interest' = [interest EXCEPT ![c] = @ \cup {t}]
  /\ UNCHANGED <<dbVars, agent, worker, requester, outcome, sink, pump, canceller, bus, connected, obsVars>>

Unsubscribe(c, t) ==
  /\ up /\ connected[c] /\ t \in interest[c]
  /\ interest' = [interest EXCEPT ![c] = @ \ {t}]
  /\ UNCHANGED <<dbVars, agent, worker, requester, outcome, sink, pump, canceller, bus, connected, obsVars>>

-----------------------------------------------------------------------------
(* Accepting work.                                                         *)

\* create_task: a row with a fresh id, queued.
InsertRow(t, o) ==
  /\ status[t] = "none"
  /\ status' = [status EXCEPT ![t] = "queued"]
  /\ op' = [op EXCEPT ![t] = o]

\* A database write for task t fails: the code logs it and goes on.
WriteFails(t) ==
  /\ faults < MaxFaults
  /\ faults' = faults + 1
  /\ lost' = [lost EXCEPT ![t] = TRUE]

NoFault == UNCHANGED <<faults, lost>>

\* handle_request up to create_task.  If the insert fails the caller gets the
\* error and nothing has changed.
AcceptRequest(c, t, o) ==
  /\ up /\ connected[c]
  /\ InsertRow(t, o)
  /\ worker' = [worker EXCEPT ![t] = "accepted"]
  /\ requester' = [requester EXCEPT ![t] = c]
  /\ UNCHANGED <<log, relayLive, agent, outcome, sink, pump, canceller, bus, interest,
                 connected, view, sent, auto, mtaOurs, lost, crashes, faults>>

HandleRequest(c, t, o) == AcceptRequest(c, t, o) /\ UNCHANGED origin

\* The panel's retry: a finished task's operation and input, as a new request.
Retry(c, old, t) ==
  /\ status[old] \in Terminal
  /\ AcceptRequest(c, t, op[old])
  /\ origin' = [origin EXCEPT ![t] = old]

\* The rest of handle_request: watch the task, then spawn_task.
SpawnTask(t) ==
  /\ worker[t] = "accepted"
  /\ worker' = [worker EXCEPT ![t] = "spawned"]
  /\ interest' = [c \in Conns |-> IF requester[t] = c THEN interest[c] \cup {t} ELSE interest[c]]
  /\ requester' = [requester EXCEPT ![t] = None]
  /\ UNCHANGED <<dbVars, agent, outcome, sink, pump, canceller, bus, connected, obsVars>>

\* ControlKind::CancelTask.  A task that did not opt in, has finished or does
\* not exist is refused without a change, and so is one whose UPDATE fails.
CancelTask(t) ==
  /\ up /\ \E c \in Conns : connected[c]
  /\ op[t] \in Cancellable /\ status[t] \in Active /\ ~canceller[t]
  /\ status' = [status EXCEPT ![t] = "cancelled"]
  /\ canceller' = [canceller EXCEPT ![t] = TRUE]
  /\ UNCHANGED <<op, log, relayLive, agent, worker, requester, outcome, sink, pump, bus,
                 interest, connected, obsVars>>

AnnounceCancel(t) ==
  /\ canceller[t]
  /\ canceller' = [canceller EXCEPT ![t] = FALSE]
  /\ Publish(StateEvent(t, "cancelled"))
  /\ UNCHANGED <<dbVars, agent, worker, requester, outcome, sink, pump, interest, connected, obsVars>>

-----------------------------------------------------------------------------
(* spawn_task: the worker and the pump of one task.                        *)

\* Mutant: a claim that fails is logged and the operation runs all the same.
StartTaskRegardless(t) ==
  /\ worker[t] = "spawned"
  /\ worker' = [worker EXCEPT ![t] = "starting"]
  /\ \/ /\ status' = IF status[t] = "queued" THEN [status EXCEPT ![t] = "running"] ELSE status
        /\ NoFault
     \/ WriteFails(t) /\ UNCHANGED status
  /\ UNCHANGED <<op, log, relayLive, agent, requester, outcome, sink, pump, canceller, bus,
                 interest, connected, view, sent, origin, auto, mtaOurs, crashes>>

\* start_task claims the row; a row that is no longer queued, or an UPDATE
\* that fails, ends the worker.
StartTask(t) ==
  /\ worker[t] = "spawned"
  /\ \/ /\ status[t] = "queued"
        /\ status' = [status EXCEPT ![t] = "running"]
        /\ worker' = [worker EXCEPT ![t] = "starting"]
        /\ NoFault
     \/ /\ status[t] # "queued"
        /\ worker' = [worker EXCEPT ![t] = "done"]
        /\ UNCHANGED status /\ NoFault
     \/ /\ WriteFails(t)
        /\ worker' = [worker EXCEPT ![t] = "done"]
        /\ UNCHANGED status
  /\ UNCHANGED <<op, log, relayLive, agent, requester, outcome, sink, pump, canceller, bus,
                 interest, connected, view, sent, origin, auto, mtaOurs, crashes>>

AnnounceRunning(t) ==
  /\ worker[t] = "starting"
  /\ worker' = [worker EXCEPT ![t] = "running"]
  /\ Publish(StateEvent(t, "running"))
  /\ UNCHANGED <<dbVars, agent, requester, outcome, sink, pump, canceller, interest, connected, obsVars>>

\* The operation writes a line: TaskLog::line queues it and never blocks.
WriteLine(t) ==
  /\ worker[t] = "running" /\ sent[t] < MaxLines
  /\ sent' = [sent EXCEPT ![t] = @ + 1]
  /\ sink' = [sink EXCEPT ![t] = Append(@, sent[t] + 1)]
  /\ UNCHANGED <<dbVars, agent, worker, requester, outcome, pump, canceller, bus, interest,
                 connected, view, origin, auto, mtaOurs, lost, crashes, faults>>

\* dispatch returns and the worker drops its end of the sink.  A finished
\* mail.mta.install has made main.cf the panel's; a failed one may have.
Return(t, r) ==
  /\ worker[t] = "running"
  /\ worker' = [worker EXCEPT ![t] = "draining"]
  /\ outcome' = [outcome EXCEPT ![t] = r]
  /\ mtaOurs' \in IF op[t] # MtaInstall THEN {mtaOurs}
                  ELSE IF r = "ok" THEN {TRUE} ELSE {mtaOurs, TRUE}
  /\ UNCHANGED <<dbVars, agent, requester, sink, pump, canceller, bus, interest, connected,
                 view, sent, origin, auto, lost, crashes, faults>>

\* The pump takes the oldest line and appends it to task_logs; a line that
\* cannot be written is dropped from the record and from the stream.
PumpPersist(t) ==
  /\ worker[t] \in {"running", "draining"} /\ pump[t] = 0 /\ sink[t] # <<>>
  /\ sink' = [sink EXCEPT ![t] = Tail(@)]
  /\ \/ /\ log' = [log EXCEPT ![t] = Append(@, Head(sink[t]))]
        /\ pump' = [pump EXCEPT ![t] = Len(log[t]) + 1]
        /\ NoFault
     \/ WriteFails(t) /\ UNCHANGED <<log, pump>>
  /\ UNCHANGED <<status, op, relayLive, agent, worker, requester, outcome, canceller, bus,
                 interest, connected, view, sent, origin, auto, mtaOurs, crashes>>

PumpPublish(t) ==
  /\ pump[t] # 0
  /\ pump' = [pump EXCEPT ![t] = 0]
  /\ Publish(LineEvent(t, pump[t]))
  /\ UNCHANGED <<dbVars, agent, worker, requester, outcome, sink, canceller, interest, connected, obsVars>>

\* Mutant: the worker does not await the pump.
DrainedWithoutAwait(t) ==
  /\ worker[t] = "draining"
  /\ worker' = [worker EXCEPT ![t] = IF outcome[t] = "ok" THEN "closing" ELSE "failing"]
  /\ UNCHANGED <<dbVars, agent, requester, outcome, sink, pump, canceller, bus, interest,
                 connected, obsVars>>

\* Mutant: the verdict is published before it is written.
DrainedAnnounceFirst(t) ==
  /\ worker[t] = "draining" /\ sink[t] = <<>> /\ pump[t] = 0
  /\ worker' = [worker EXCEPT ![t] = "announcing"]
  /\ UNCHANGED <<dbVars, agent, requester, outcome, sink, pump, canceller, bus, interest,
                 connected, obsVars>>

\* Mutant: the row is closed before record_failure logs the reason.
DrainedRowFirst(t) ==
  /\ worker[t] = "draining" /\ sink[t] = <<>> /\ pump[t] = 0
  /\ status' = [status EXCEPT ![t] = IF @ = "running" THEN (IF outcome[t] = "ok" THEN "ok" ELSE "failed") ELSE @]
  /\ worker' = [worker EXCEPT ![t] = IF outcome[t] = "ok" THEN "closing" ELSE "failing"]
  /\ UNCHANGED <<op, log, relayLive, agent, requester, outcome, sink, pump, canceller, bus,
                 interest, connected, obsVars>>

\* `pump.await`: every queued line has landed.
Drained(t) ==
  /\ worker[t] = "draining" /\ sink[t] = <<>> /\ pump[t] = 0
  /\ worker' = [worker EXCEPT ![t] = IF outcome[t] = "ok" THEN "closing" ELSE "failing"]
  /\ UNCHANGED <<dbVars, agent, requester, outcome, sink, pump, canceller, bus, interest,
                 connected, obsVars>>

\* record_failure puts the reason in the log before it goes on the row.
RecordReason(t) ==
  /\ worker[t] = "failing"
  /\ worker' = [worker EXCEPT ![t] = "closing"]
  /\ \/ log' = [log EXCEPT ![t] = Append(@, FailureLine)] /\ NoFault
     \/ WriteFails(t) /\ UNCHANGED log
  /\ UNCHANGED <<status, op, relayLive, agent, requester, outcome, sink, pump, canceller, bus,
                 interest, connected, view, sent, origin, auto, mtaOurs, crashes>>

Verdict(t) == IF outcome[t] = "ok" THEN "ok" ELSE "failed"

\* Mutant: the terminal UPDATE forgets `status IN ('queued', 'running')`.
CloseRowUnguarded(t) ==
  /\ worker[t] = "closing"
  /\ worker' = [worker EXCEPT ![t] = "announcing"]
  /\ status' = [status EXCEPT ![t] = Verdict(t)]
  /\ NoFault
  /\ UNCHANGED <<op, log, relayLive, agent, requester, outcome, sink, pump, canceller, bus,
                 interest, connected, view, sent, origin, auto, mtaOurs, crashes>>

\* finish_task_ok or finish_task_failed: only an active row takes the verdict.
CloseRow(t) ==
  /\ worker[t] = "closing"
  /\ worker' = [worker EXCEPT ![t] = "announcing"]
  /\ \/ /\ status' = IF status[t] \in Active THEN [status EXCEPT ![t] = Verdict(t)] ELSE status
        /\ NoFault
     \/ WriteFails(t) /\ UNCHANGED status
  /\ UNCHANGED <<op, log, relayLive, agent, requester, outcome, sink, pump, canceller, bus,
                 interest, connected, view, sent, origin, auto, mtaOurs, crashes>>

\* publish_state with the verdict, whatever the row says by now.
AnnounceVerdict(t) ==
  /\ worker[t] = "announcing"
  /\ worker' = [worker EXCEPT ![t] = "done"]
  /\ Publish(StateEvent(t, Verdict(t)))
  /\ UNCHANGED <<dbVars, agent, requester, outcome, sink, pump, canceller, interest, connected, obsVars>>


-----------------------------------------------------------------------------
(* The machine: an operator who changes mail, crashes, and agent starts.   *)

\* mail.relay.set stores the relay and, if it is live, makes main.cf the panel's; that may
\* fail with the row stored.  Or a human replaces main.cf.
OperatorMail ==
  /\ up
  /\ \/ /\ relayLive' \in BOOLEAN
        /\ mtaOurs' \in {mtaOurs, mtaOurs \/ relayLive'}
     \/ mtaOurs /\ mtaOurs' = FALSE /\ UNCHANGED relayLive
  /\ UNCHANGED <<status, op, log, memVars, view, sent, origin, auto, lost, crashes, faults>>

\* The process ends, by a signal or by a crash: nothing waits for a worker.
Crash ==
  /\ agent # "down" /\ crashes < MaxCrashes
  /\ crashes' = crashes + 1
  /\ agent' = "down"
  /\ worker' = [t \in Tasks |-> "none"]
  /\ requester' = [t \in Tasks |-> None]
  /\ outcome' = [t \in Tasks |-> "none"]
  /\ sink' = [t \in Tasks |-> <<>>]
  /\ pump' = [t \in Tasks |-> 0]
  /\ canceller' = [t \in Tasks |-> FALSE]
  /\ bus' = [c \in Conns |-> <<>>]
  /\ interest' = [c \in Conns |-> {}]
  /\ connected' = [c \in Conns |-> FALSE]
  /\ UNCHANGED <<dbVars, view, sent, origin, auto, mtaOurs, lost, faults>>

\* Mutant: only running rows are failed, a queued one waits for a worker pool.
ReconcileRunningOnly ==
  /\ agent = "down"
  /\ agent' = "reconciled"
  /\ status' = [t \in Tasks |-> IF status[t] = "running" THEN "failed" ELSE status[t]]
  /\ NoFault
  /\ UNCHANGED <<op, log, relayLive, worker, requester, outcome, sink, pump, canceller, bus,
                 interest, connected, view, sent, origin, auto, mtaOurs, crashes>>

\* reconcile_on_start fails every active row; if the UPDATE fails the start
\* goes on and the rows stay as they were.
Reconcile ==
  /\ agent = "down"
  /\ agent' = "reconciled"
  /\ \/ /\ status' = [t \in Tasks |-> IF status[t] \in Active THEN "failed" ELSE status[t]]
        /\ NoFault
     \/ /\ faults < MaxFaults
        /\ faults' = faults + 1
        /\ lost' = [t \in Tasks |-> lost[t] \/ status[t] \in Active]
        /\ UNCHANGED status
  /\ UNCHANGED <<op, log, relayLive, worker, requester, outcome, sink, pump, canceller, bus,
                 interest, connected, view, sent, origin, auto, mtaOurs, crashes>>

\* Mutant: only what is pending blocks another migration.
BlockingPending == {"queued", "running"}

Blocking == {"queued", "running", "failed"}

MtaMigrationDue ==
  /\ relayLive /\ ~mtaOurs
  /\ \A t \in Tasks : op[t] = MtaInstall => status[t] \notin Blocking

\* queue_mta_migration, then the socket serves.  A read or the insert may fail;
\* `\A t : status[t] # "none"` is the model running out of ids.
Serve ==
  /\ agent = "reconciled"
  /\ agent' = "serving"
  /\ \/ /\ MtaMigrationDue
        /\ \E t \in Tasks :
             /\ InsertRow(t, MtaInstall)
             /\ worker' = [worker EXCEPT ![t] = "spawned"]
             /\ auto' = [auto EXCEPT ![t] = TRUE]
        /\ UNCHANGED faults
     \/ /\ ~MtaMigrationDue \/ \A t \in Tasks : status[t] # "none"
        /\ UNCHANGED <<status, op, worker, auto, faults>>
     \/ /\ MtaMigrationDue /\ faults < MaxFaults
        /\ faults' = faults + 1
        /\ UNCHANGED <<status, op, worker, auto>>
  /\ UNCHANGED <<log, relayLive, requester, outcome, sink, pump, canceller, bus, interest,
                 connected, view, sent, origin, mtaOurs, lost, crashes>>

-----------------------------------------------------------------------------
\* The steps the agent takes by itself for task t.
WorkerStep(t) ==
  \/ SpawnTask(t) \/ StartTask(t) \/ AnnounceRunning(t)
  \/ \E r \in {"ok", "err"} : Return(t, r)
  \/ Drained(t) \/ RecordReason(t) \/ CloseRow(t) \/ AnnounceVerdict(t)

PumpStep(t) == PumpPersist(t) \/ PumpPublish(t)

ClientStep(c) ==
  \/ Connect(c) \/ Disconnect(c) \/ Forward(c)
  \/ \E t \in Tasks : Subscribe(c, t) \/ Unsubscribe(c, t)
  \/ \E t \in Tasks, o \in Ops : HandleRequest(c, t, o)
  \/ \E t, old \in Tasks : Retry(c, old, t)

Next ==
  \/ \E t \in Tasks : WorkerStep(t) \/ PumpStep(t) \/ WriteLine(t) \/ CancelTask(t)
                      \/ AnnounceCancel(t)
  \/ \E c \in Conns : ClientStep(c)
  \/ OperatorMail \/ Crash \/ Reconcile \/ Serve

Spec == Init /\ [][Next]_vars

\* tokio polls every ready task; every command an operation runs has a timeout
\* (unihelm-distro exec.rs), so dispatch returns; systemd restarts the agent.
\* Nothing is assumed of clients, of operators, or of crashes.
Fairness ==
  /\ \A t \in Tasks : WF_vars(WorkerStep(t)) /\ WF_vars(PumpStep(t)) /\ WF_vars(AnnounceCancel(t))
  /\ WF_vars(Reconcile) /\ WF_vars(Serve)

FairSpec == Spec /\ Fairness

-----------------------------------------------------------------------------
(* Properties.                                                             *)

\* No row is left claiming to be active without a worker that will close it:
\* what reconcile_interrupted_tasks calls making "the crash-only design honest".
\* Only a failed database write (logged by the code, `lost` here) excuses it.
NoOrphanRow ==
  up => \A t \in Tasks : status[t] \in Active /\ ~lost[t] => worker[t] \notin {"none", "done"}

\* TaskStatus::is_terminal, "No further transitions are possible from here":
\* cancel, verdict and reconciliation race for a row and one of them wins.
TerminalIsFinal ==
  [][\A t \in Tasks : status[t] \in Terminal => status'[t] = status[t]]_vars

\* A row that says ok or failed has a finished log: pump.await and record_failure
\* come before the terminal UPDATE, also across crashes and late cancels.
LogSealed ==
  [][\A t \in Tasks : status[t] \in {"ok", "failed"} => log'[t] = log[t]]_vars

Written(t) == [i \in 1..sent[t] |-> i]

\* The persisted copy is authoritative: it is a prefix of what the operation
\* wrote, in order, the failure line last, and it is all of it once the row is ok.
RecordComplete ==
  \A t \in Tasks : ~lost[t] =>
    /\ \E n \in 0..(sent[t] + 1) : log[t] = SubSeq(Append(Written(t), FailureLine), 1, n)
    /\ status[t] = "ok" => log[t] = Written(t)
    /\ status[t] = "failed" /\ outcome[t] = "err" => log[t] = Append(Written(t), FailureLine)

\* What a viewer was shown is in the database already: a delivered line is
\* persisted, a delivered verdict is the row's, unless a cancel won the row.
StreamBehindRecord ==
  \A c \in Conns, t \in Tasks :
    /\ view[c][t].seq <= Len(log[t])
    /\ view[c][t].status \in {"ok", "failed"} /\ ~lost[t]
         => status[t] \in {view[c][t].status, "cancelled"}
    /\ view[c][t].status = "cancelled" => status[t] = "cancelled"

\* However often the agent restarts, it queues a second migration of its own only
\* after the first succeeded: "a decision that only looked at what is pending would
\* queue a package install every few seconds".
OneAutoMigration ==
  \A t, u \in Tasks : auto[t] /\ auto[u] /\ status[t] # "ok" /\ status[u] # "ok" => t = u

\* Every accepted request reaches a terminal row, through crashes and restarts, unless a
\* write to the row failed.
TaskTerminates ==
  \A t \in Tasks : (status[t] = "queued") ~> (status[t] \in Terminal \/ lost[t])

Ledger == INSTANCE TaskLedger WITH Lines <- 0..MaxLines

\* The engine implements TaskLedger: whatever workers, cancels, crashes and failed writes
\* do, the tables go from one promised state to the next, one promise at a time.  A verdict
\* never lands on a row that did not run, and nothing speaks into a row that is ok or failed.
ImplementsLedger == Ledger!Spec

-----------------------------------------------------------------------------
(* What the code says of itself and TLC refutes.                           *)

\* unihelm-web retry refuses an unfinished task because "Retrying something still
\* in flight would run it twice concurrently": a retry and its origin never both run.
RetryAfterWorkerStopped ==
  \A t \in Tasks : origin[t] # None /\ worker[t] = "running" => worker[origin[t]] # "running"
=============================================================================
