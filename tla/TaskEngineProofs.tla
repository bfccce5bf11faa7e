-------------------------- MODULE TaskEngineProofs --------------------------
(***************************************************************************)
(* TLAPS proofs about the task engine, for any sets of tasks, connections  *)
(* and operations and any bounds.                                          *)
(***************************************************************************)
EXTENDS TaskEngine, SequenceTheorems, TLAPS

-----------------------------------------------------------------------------
(* Inductive invariants.                                                   *)

\* Who may still write to the row of t: before the claim it is queued, until the
\* verdict it is running, and a cancel may have taken it at any point.
WorkerOwnsRow ==
  \A t \in Tasks :
    /\ ~up => worker[t] = "none"
    /\ worker[t] \in {"accepted", "spawned"} => status[t] \in {"queued", "cancelled"}
    /\ worker[t] \in {"starting", "running", "draining", "failing", "closing"}
         => status[t] \in {"running", "cancelled"}
    /\ agent # "down" /\ worker[t] \in {"none", "done", "announcing"} /\ ~lost[t]
         => status[t] \notin Active

\* A migration the agent queued itself keeps its operation and is never cancelled.
AutoIsMigration ==
  \A t \in Tasks : auto[t] => op[t] = MtaInstall /\ status[t] \in Blocking \cup {"ok"}

-----------------------------------------------------------------------------
(* Type correctness.                                                       *)

\* The bus of every connection stays a sequence of events.
LEMMA PublishType ==
  ASSUME TypeOK, NEW e \in Events, Publish(e)
  PROVE  bus' \in [Conns -> Seq(Events)]
<1>1. \A q \in Seq(Events) : Overwrite(q, e) \in Seq(Events)
  BY TaskEngineAssumption DEF Overwrite
<1> QED
  BY <1>1 DEF Publish, TypeOK

\* A delivered event updates the viewer's status or its position.
LEMMA DeliveredType ==
  ASSUME NEW v \in [status : TaskStatus \cup {"none"}, seq : Nat], NEW e \in Events
  PROVE  Delivered(v, e) \in [status : TaskStatus \cup {"none"}, seq : Nat]
BY DEF Delivered, Events

\* A database write succeeds or fails; its bookkeeping keeps its type.
LEMMA FaultType ==
  ASSUME TypeOK, NEW t \in Tasks, WriteFails(t) \/ NoFault
  PROVE  lost' \in [Tasks -> BOOLEAN] /\ faults' \in Nat
<1>1. CASE WriteFails(t)
  BY <1>1 DEF TypeOK, WriteFails
<1>2. CASE NoFault
  BY <1>2 DEF TypeOK, NoFault
<1> QED
  BY <1>1, <1>2

\* Every variable keeps its type: rows have a known status, log positions are
\* numbers, a worker is in one of the stages of spawn_task.
THEOREM TypeCorrect == Spec => []TypeOK
<1>1. Init => TypeOK
  <2> SUFFICES ASSUME Init PROVE TypeOK
    OBVIOUS
  <2>1. view \in [Conns -> [Tasks -> [status : TaskStatus \cup {"none"}, seq : Nat]]]
    BY DEF Init, NoView
  <2>2. bus \in [Conns -> Seq(Events)] /\ log \in [Tasks -> Seq(Nat)] /\ sink \in [Tasks -> Seq(Nat)]
    BY DEF Init
  <2>3. /\ canceller \in [Tasks -> BOOLEAN] /\ connected \in [Conns -> BOOLEAN]
        /\ auto \in [Tasks -> BOOLEAN] /\ lost \in [Tasks -> BOOLEAN]
    BY DEF Init
  <2> QED
    BY <2>1, <2>2, <2>3 DEF Init, TypeOK, Stages, TaskStatus
<1>2. TypeOK /\ [Next]_vars => TypeOK'
  <2> SUFFICES ASSUME TypeOK, [Next]_vars PROVE TypeOK'
    OBVIOUS
  <2> USE TaskEngineAssumption DEF Stages, TaskStatus, Active, Terminal
  <2>1. ASSUME NEW t \in Tasks, SpawnTask(t) PROVE TypeOK'
    BY <2>1 DEF TypeOK, SpawnTask, dbVars, obsVars
  <2>2. ASSUME NEW t \in Tasks, StartTask(t) PROVE TypeOK'
    <3>1. lost' \in [Tasks -> BOOLEAN] /\ faults' \in Nat
      BY <2>2, FaultType DEF StartTask
    <3>2. status' \in [Tasks -> TaskStatus \cup {"none"}] /\ worker' \in [Tasks -> Stages]
      <4>1. CASE status' = [status EXCEPT ![t] = "running"] /\ worker' = [worker EXCEPT ![t] = "starting"]
        BY <4>1 DEF TypeOK
      <4>2. CASE status' = status /\ worker' = [worker EXCEPT ![t] = "done"]
        BY <4>2 DEF TypeOK
      <4> QED
        BY <2>2, <4>1, <4>2 DEF StartTask
    <3> QED
      BY <2>2, <3>1, <3>2 DEF TypeOK, StartTask
  <2>3. ASSUME NEW t \in Tasks, AnnounceRunning(t) PROVE TypeOK'
    <3>1. StateEvent(t, "running") \in Events
      BY <2>3 DEF TypeOK, Events, StateEvent, LineEvent, Verdict
    <3>2. bus' \in [Conns -> Seq(Events)]
      BY <2>3, <3>1, PublishType DEF AnnounceRunning
    <3> QED
      BY <2>3, <3>2 DEF TypeOK, AnnounceRunning, dbVars, obsVars
  <2>4. ASSUME NEW t \in Tasks, Drained(t) PROVE TypeOK'
    BY <2>4 DEF TypeOK, Drained, dbVars, obsVars
  <2>5. ASSUME NEW t \in Tasks, RecordReason(t) PROVE TypeOK'
    <3>1. lost' \in [Tasks -> BOOLEAN] /\ faults' \in Nat
      BY <2>5, FaultType DEF RecordReason
    <3>2. log' \in [Tasks -> Seq(Nat)]
      <4>1. CASE log' = [log EXCEPT ![t] = Append(@, FailureLine)]
        BY <4>1 DEF TypeOK, FailureLine
      <4>2. CASE log' = log
        BY <4>2 DEF TypeOK
      <4> QED
        BY <2>5, <4>1, <4>2 DEF RecordReason
    <3> QED
      BY <2>5, <3>1, <3>2 DEF TypeOK, RecordReason
  <2>6. ASSUME NEW t \in Tasks, CloseRow(t) PROVE TypeOK'
    <3>1. lost' \in [Tasks -> BOOLEAN] /\ faults' \in Nat
      BY <2>6, FaultType DEF CloseRow
    <3>2. status' \in [Tasks -> TaskStatus \cup {"none"}]
      BY <2>6 DEF CloseRow, TypeOK, Verdict, WriteFails, NoFault
    <3> QED
      BY <2>6, <3>1, <3>2 DEF TypeOK, CloseRow
  <2>7. ASSUME NEW t \in Tasks, AnnounceVerdict(t) PROVE TypeOK'
    <3>1. StateEvent(t, Verdict(t)) \in Events
      BY <2>7 DEF TypeOK, Events, StateEvent, LineEvent, Verdict
    <3>2. bus' \in [Conns -> Seq(Events)]
      BY <2>7, <3>1, PublishType DEF AnnounceVerdict
    <3> QED
      BY <2>7, <3>2 DEF TypeOK, AnnounceVerdict, dbVars, obsVars
  <2>8. ASSUME NEW t \in Tasks, PumpPersist(t) PROVE TypeOK'
    <3>1. lost' \in [Tasks -> BOOLEAN] /\ faults' \in Nat
      BY <2>8, FaultType DEF PumpPersist
    <3>2. sink' \in [Tasks -> Seq(Nat)]
      BY <2>8 DEF PumpPersist, TypeOK
    <3>3. log' \in [Tasks -> Seq(Nat)] /\ pump' \in [Tasks -> Nat]
      <4>1. CASE /\ log' = [log EXCEPT ![t] = Append(@, Head(sink[t]))]
                 /\ pump' = [pump EXCEPT ![t] = Len(log[t]) + 1]
        BY <2>8, <4>1 DEF TypeOK, PumpPersist
      <4>2. CASE log' = log /\ pump' = pump
        BY <4>2 DEF TypeOK
      <4> QED
        BY <2>8, <4>1, <4>2 DEF PumpPersist
    <3> QED
      BY <2>8, <3>1, <3>2, <3>3 DEF TypeOK, PumpPersist
  <2>9. ASSUME NEW t \in Tasks, PumpPublish(t) PROVE TypeOK'
    <3>1. LineEvent(t, pump[t]) \in Events
      BY <2>9 DEF TypeOK, Events, StateEvent, LineEvent, Verdict
    <3>2. bus' \in [Conns -> Seq(Events)]
      BY <2>9, <3>1, PublishType DEF PumpPublish
    <3> QED
      BY <2>9, <3>2 DEF TypeOK, PumpPublish, dbVars, obsVars
  <2>10. ASSUME NEW t \in Tasks, WriteLine(t) PROVE TypeOK'
    BY <2>10 DEF TypeOK, WriteLine, dbVars, obsVars
  <2>11. ASSUME NEW t \in Tasks, CancelTask(t) PROVE TypeOK'
    BY <2>11 DEF TypeOK, CancelTask, dbVars, obsVars
  <2>12. ASSUME NEW t \in Tasks, AnnounceCancel(t) PROVE TypeOK'
    <3>1. StateEvent(t, "cancelled") \in Events
      BY <2>12 DEF TypeOK, Events, StateEvent, LineEvent, Verdict
    <3>2. bus' \in [Conns -> Seq(Events)]
      BY <2>12, <3>1, PublishType DEF AnnounceCancel
    <3> QED
      BY <2>12, <3>2 DEF TypeOK, AnnounceCancel, dbVars, obsVars
  <2>13. ASSUME NEW t \in Tasks, NEW r \in {"ok", "err"}, Return(t, r) PROVE TypeOK'
    BY <2>13 DEF TypeOK, Return, dbVars
  <2>14. ASSUME NEW c \in Conns, Connect(c) PROVE TypeOK'
    BY <2>14 DEF TypeOK, Connect, NoView, dbVars, obsVars
  <2>15. ASSUME NEW c \in Conns, Disconnect(c) PROVE TypeOK'
    BY <2>15 DEF TypeOK, Disconnect, dbVars, obsVars
  <2>16. ASSUME NEW c \in Conns, Forward(c) PROVE TypeOK'
    <3>1. bus' \in [Conns -> Seq(Events)]
      BY <2>16 DEF Forward, TypeOK
    <3>2. Head(bus[c]) \in Events
      BY <2>16 DEF Forward, TypeOK
    <3>3. view' \in [Conns -> [Tasks -> [status : TaskStatus \cup {"none"}, seq : Nat]]]
      <4>1. CASE Head(bus[c]).task \notin interest[c]
        BY <2>16, <4>1 DEF Forward, TypeOK
      <4>2. CASE Head(bus[c]).task \in interest[c]
        <5>1. PICK e \in Events : e = Head(bus[c])
          BY <3>2
        <5>2. view' = [view EXCEPT ![c] = [view[c] EXCEPT ![e.task] = Delivered(view[c][e.task], e)]]
          BY <2>16, <4>2, <5>1 DEF Forward, TypeOK
        <5>3. e.task \in Tasks
          BY DEF Events
        <5>4. Delivered(view[c][e.task], e) \in [status : TaskStatus \cup {"none"}, seq : Nat]
          BY <5>3, DeliveredType DEF TypeOK
        <5> HIDE DEF TaskStatus, Terminal, Active
        <5>5. [view[c] EXCEPT ![e.task] = Delivered(view[c][e.task], e)]
                \in [Tasks -> [status : TaskStatus \cup {"none"}, seq : Nat]]
          BY <5>3, <5>4 DEF TypeOK
        <5> QED
          BY <5>2, <5>5 DEF TypeOK
      <4> QED
        BY <4>1, <4>2
    <3> QED
      BY <2>16, <3>1, <3>2, <3>3 DEF TypeOK, Forward, dbVars
  <2>17. ASSUME NEW c \in Conns, NEW t \in Tasks, Subscribe(c, t) PROVE TypeOK'
    BY <2>17 DEF TypeOK, Subscribe, dbVars, obsVars
  <2>18. ASSUME NEW c \in Conns, NEW t \in Tasks, Unsubscribe(c, t) PROVE TypeOK'
    BY <2>18 DEF TypeOK, Unsubscribe, dbVars, obsVars
  <2>19. ASSUME NEW c \in Conns, NEW t \in Tasks, NEW o \in Ops, HandleRequest(c, t, o) PROVE TypeOK'
    BY <2>19 DEF TypeOK, HandleRequest, AcceptRequest, InsertRow
  <2>20. ASSUME NEW c \in Conns, NEW t \in Tasks, NEW old \in Tasks, Retry(c, old, t) PROVE TypeOK'
    BY <2>20 DEF TypeOK, Retry, AcceptRequest, InsertRow
  <2>21. CASE OperatorMail
    BY <2>21 DEF TypeOK, OperatorMail, memVars
  <2>22. CASE Crash
    BY <2>22 DEF TypeOK, Crash, dbVars
  <2>23. CASE Reconcile
    <3>1. lost' \in [Tasks -> BOOLEAN]
      BY <2>23 DEF Reconcile, TypeOK, NoFault
    <3>2. status' \in [Tasks -> TaskStatus \cup {"none"}] /\ faults' \in Nat
      BY <2>23 DEF Reconcile, TypeOK, NoFault
    <3> QED
      BY <2>23, <3>1, <3>2 DEF TypeOK, Reconcile
  <2>24. CASE Serve
    <3>1. /\ status' \in [Tasks -> TaskStatus \cup {"none"}] /\ op' \in [Tasks -> Ops \cup {None}]
          /\ worker' \in [Tasks -> Stages] /\ faults' \in Nat
      <4>1. ASSUME NEW t \in Tasks, InsertRow(t, MtaInstall),
                   worker' = [worker EXCEPT ![t] = "spawned"], UNCHANGED faults
            PROVE  /\ status' \in [Tasks -> TaskStatus \cup {"none"}] /\ op' \in [Tasks -> Ops \cup {None}]
                   /\ worker' \in [Tasks -> Stages] /\ faults' \in Nat
        BY <4>1 DEF TypeOK, InsertRow
      <4>2. CASE UNCHANGED <<status, op, worker>> /\ (UNCHANGED faults \/ faults' = faults + 1)
        BY <4>2 DEF TypeOK
      <4> QED
        BY <2>24, <4>1, <4>2 DEF Serve
    <3>2. auto' \in [Tasks -> BOOLEAN]
      BY <2>24 DEF Serve, TypeOK
    <3> QED
      BY <2>24, <3>1, <3>2 DEF TypeOK, Serve
  <2>25. CASE UNCHANGED vars
    BY <2>25 DEF TypeOK, vars, dbVars, memVars, obsVars
  <2> QED
    BY <2>1, <2>2, <2>3, <2>4, <2>5, <2>6, <2>7, <2>8, <2>9, <2>10, <2>11, <2>12, <2>13, <2>14, <2>15, <2>16, <2>17, <2>18, <2>19, <2>20, <2>21, <2>22, <2>23, <2>24, <2>25
       DEF Next, WorkerStep, PumpStep, ClientStep
<1> QED
  BY <1>1, <1>2, PTL DEF Spec
-----------------------------------------------------------------------------
(* Who owns a row.                                                        *)

\* The invariant that makes the others hold: every writer of a row checks the
\* status its predecessor left, so a row is never taken from its worker except
\* by a cancel, and a worker never ends with an active row behind it.
THEOREM WorkerOwnsRowInv == Spec => []WorkerOwnsRow
<1>1. Init => WorkerOwnsRow
  BY DEF Init, WorkerOwnsRow, up, Active
<1>2. TypeOK /\ WorkerOwnsRow /\ [Next]_vars => WorkerOwnsRow'
  <2> SUFFICES ASSUME TypeOK, WorkerOwnsRow, [Next]_vars PROVE WorkerOwnsRow'
    OBVIOUS
  <2> USE DEF Active, Terminal, up
  <2>1. ASSUME NEW t \in Tasks, SpawnTask(t) PROVE WorkerOwnsRow'
    BY <2>1 DEF WorkerOwnsRow, TypeOK, SpawnTask, dbVars, obsVars
  <2>2. ASSUME NEW t \in Tasks, StartTask(t) PROVE WorkerOwnsRow'
    BY <2>2 DEF WorkerOwnsRow, TypeOK, StartTask, WriteFails, NoFault
  <2>3. ASSUME NEW t \in Tasks, AnnounceRunning(t) PROVE WorkerOwnsRow'
    BY <2>3 DEF WorkerOwnsRow, TypeOK, AnnounceRunning, dbVars, obsVars
  <2>4. ASSUME NEW t \in Tasks, Drained(t) PROVE WorkerOwnsRow'
    BY <2>4 DEF WorkerOwnsRow, TypeOK, Drained, dbVars, obsVars
  <2>5. ASSUME NEW t \in Tasks, RecordReason(t) PROVE WorkerOwnsRow'
    BY <2>5 DEF WorkerOwnsRow, TypeOK, RecordReason, WriteFails, NoFault
  <2>6. ASSUME NEW t \in Tasks, CloseRow(t) PROVE WorkerOwnsRow'
    BY <2>6 DEF WorkerOwnsRow, TypeOK, CloseRow, Verdict, WriteFails, NoFault
  <2>7. ASSUME NEW t \in Tasks, AnnounceVerdict(t) PROVE WorkerOwnsRow'
    BY <2>7 DEF WorkerOwnsRow, TypeOK, AnnounceVerdict, dbVars, obsVars
  <2>8. ASSUME NEW t \in Tasks, PumpPersist(t) PROVE WorkerOwnsRow'
    BY <2>8 DEF WorkerOwnsRow, TypeOK, PumpPersist, WriteFails, NoFault
  <2>9. ASSUME NEW t \in Tasks, PumpPublish(t) PROVE WorkerOwnsRow'
    BY <2>9 DEF WorkerOwnsRow, TypeOK, PumpPublish, dbVars, obsVars
  <2>10. ASSUME NEW t \in Tasks, WriteLine(t) PROVE WorkerOwnsRow'
    BY <2>10 DEF WorkerOwnsRow, TypeOK, WriteLine, dbVars, obsVars
  <2>11. ASSUME NEW t \in Tasks, CancelTask(t) PROVE WorkerOwnsRow'
    BY <2>11 DEF WorkerOwnsRow, TypeOK, CancelTask, obsVars
  <2>12. ASSUME NEW t \in Tasks, AnnounceCancel(t) PROVE WorkerOwnsRow'
    BY <2>12 DEF WorkerOwnsRow, TypeOK, AnnounceCancel, dbVars, obsVars
  <2>13. ASSUME NEW t \in Tasks, NEW r \in {"ok", "err"}, Return(t, r) PROVE WorkerOwnsRow'
    BY <2>13 DEF WorkerOwnsRow, TypeOK, Return, dbVars
  <2>14. ASSUME NEW c \in Conns, Connect(c) PROVE WorkerOwnsRow'
    BY <2>14 DEF WorkerOwnsRow, TypeOK, Connect, dbVars
  <2>15. ASSUME NEW c \in Conns, Disconnect(c) PROVE WorkerOwnsRow'
    BY <2>15 DEF WorkerOwnsRow, TypeOK, Disconnect, dbVars, obsVars
  <2>16. ASSUME NEW c \in Conns, Forward(c) PROVE WorkerOwnsRow'
    BY <2>16 DEF WorkerOwnsRow, TypeOK, Forward, dbVars
  <2>17. ASSUME NEW c \in Conns, NEW t \in Tasks, Subscribe(c, t) PROVE WorkerOwnsRow'
    BY <2>17 DEF WorkerOwnsRow, TypeOK, Subscribe, dbVars, obsVars
  <2>18. ASSUME NEW c \in Conns, NEW t \in Tasks, Unsubscribe(c, t) PROVE WorkerOwnsRow'
    BY <2>18 DEF WorkerOwnsRow, TypeOK, Unsubscribe, dbVars, obsVars
  <2>19. ASSUME NEW c \in Conns, NEW t \in Tasks, NEW o \in Ops, HandleRequest(c, t, o) PROVE WorkerOwnsRow'
    BY <2>19 DEF WorkerOwnsRow, TypeOK, HandleRequest, AcceptRequest, InsertRow
  <2>20. ASSUME NEW c \in Conns, NEW t \in Tasks, NEW old \in Tasks, Retry(c, old, t) PROVE WorkerOwnsRow'
    BY <2>20 DEF WorkerOwnsRow, TypeOK, Retry, AcceptRequest, InsertRow
  <2>21. CASE OperatorMail
    BY <2>21 DEF WorkerOwnsRow, TypeOK, OperatorMail, memVars
  <2>22. CASE Crash
    BY <2>22 DEF WorkerOwnsRow, TypeOK, Crash, dbVars
  <2>23. CASE Reconcile
    BY <2>23 DEF WorkerOwnsRow, TypeOK, Reconcile, NoFault
  <2>24. CASE Serve
    BY <2>24 DEF WorkerOwnsRow, TypeOK, Serve, InsertRow
  <2>25. CASE UNCHANGED vars
    BY <2>25 DEF WorkerOwnsRow, TypeOK, vars, dbVars, memVars, obsVars
  <2> QED
    BY <2>1, <2>2, <2>3, <2>4, <2>5, <2>6, <2>7, <2>8, <2>9, <2>10, <2>11, <2>12, <2>13, <2>14, <2>15, <2>16, <2>17, <2>18, <2>19, <2>20, <2>21, <2>22, <2>23, <2>24, <2>25
       DEF Next, WorkerStep, PumpStep, ClientStep
<1> QED
  BY <1>1, <1>2, TypeCorrect, PTL DEF Spec

\* No row claims to be active without a worker that will close it.
THEOREM NoOrphan == Spec => []NoOrphanRow
<1>1. WorkerOwnsRow => NoOrphanRow
  BY DEF WorkerOwnsRow, NoOrphanRow, up
<1> QED
  BY <1>1, WorkerOwnsRowInv, PTL

\* A terminal status never changes, whichever of cancel, verdict and
\* reconciliation set it.
LEMMA TerminalStep ==
  ASSUME TypeOK, [Next]_vars, NEW u \in Tasks, status[u] \in Terminal
  PROVE  status'[u] = status[u]
<1> USE DEF Active, Terminal
<1>1. ASSUME NEW t \in Tasks, SpawnTask(t) PROVE status'[u] = status[u]
  BY <1>1 DEF TypeOK, SpawnTask, dbVars, obsVars
<1>2. ASSUME NEW t \in Tasks, StartTask(t) PROVE status'[u] = status[u]
  BY <1>2 DEF TypeOK, StartTask, WriteFails, NoFault
<1>3. ASSUME NEW t \in Tasks, AnnounceRunning(t) PROVE status'[u] = status[u]
  BY <1>3 DEF TypeOK, AnnounceRunning, dbVars, obsVars
<1>4. ASSUME NEW t \in Tasks, Drained(t) PROVE status'[u] = status[u]
  BY <1>4 DEF TypeOK, Drained, dbVars, obsVars
<1>5. ASSUME NEW t \in Tasks, RecordReason(t) PROVE status'[u] = status[u]
  BY <1>5 DEF TypeOK, RecordReason, WriteFails, NoFault
<1>6. ASSUME NEW t \in Tasks, CloseRow(t) PROVE status'[u] = status[u]
  BY <1>6 DEF TypeOK, CloseRow, Verdict, WriteFails, NoFault
<1>7. ASSUME NEW t \in Tasks, AnnounceVerdict(t) PROVE status'[u] = status[u]
  BY <1>7 DEF TypeOK, AnnounceVerdict, dbVars, obsVars
<1>8. ASSUME NEW t \in Tasks, PumpPersist(t) PROVE status'[u] = status[u]
  BY <1>8 DEF TypeOK, PumpPersist, WriteFails, NoFault
<1>9. ASSUME NEW t \in Tasks, PumpPublish(t) PROVE status'[u] = status[u]
  BY <1>9 DEF TypeOK, PumpPublish, dbVars, obsVars
<1>10. ASSUME NEW t \in Tasks, WriteLine(t) PROVE status'[u] = status[u]
  BY <1>10 DEF TypeOK, WriteLine, dbVars, obsVars
<1>11. ASSUME NEW t \in Tasks, CancelTask(t) PROVE status'[u] = status[u]
  BY <1>11 DEF TypeOK, CancelTask, obsVars
<1>12. ASSUME NEW t \in Tasks, AnnounceCancel(t) PROVE status'[u] = status[u]
  BY <1>12 DEF TypeOK, AnnounceCancel, dbVars, obsVars
<1>13. ASSUME NEW t \in Tasks, NEW r \in {"ok", "err"}, Return(t, r) PROVE status'[u] = status[u]
  BY <1>13 DEF TypeOK, Return, dbVars
<1>14. ASSUME NEW c \in Conns, Connect(c) PROVE status'[u] = status[u]
  BY <1>14 DEF TypeOK, Connect, dbVars
<1>15. ASSUME NEW c \in Conns, Disconnect(c) PROVE status'[u] = status[u]
  BY <1>15 DEF TypeOK, Disconnect, dbVars, obsVars
<1>16. ASSUME NEW c \in Conns, Forward(c) PROVE status'[u] = status[u]
  BY <1>16 DEF TypeOK, Forward, dbVars
<1>17. ASSUME NEW c \in Conns, NEW t \in Tasks, Subscribe(c, t) PROVE status'[u] = status[u]
  BY <1>17 DEF TypeOK, Subscribe, dbVars, obsVars
<1>18. ASSUME NEW c \in Conns, NEW t \in Tasks, Unsubscribe(c, t) PROVE status'[u] = status[u]
  BY <1>18 DEF TypeOK, Unsubscribe, dbVars, obsVars
<1>19. ASSUME NEW c \in Conns, NEW t \in Tasks, NEW o \in Ops, HandleRequest(c, t, o) PROVE status'[u] = status[u]
  BY <1>19 DEF TypeOK, HandleRequest, AcceptRequest, InsertRow
<1>20. ASSUME NEW c \in Conns, NEW t \in Tasks, NEW old \in Tasks, Retry(c, old, t) PROVE status'[u] = status[u]
  BY <1>20 DEF TypeOK, Retry, AcceptRequest, InsertRow
<1>21. CASE OperatorMail
  BY <1>21 DEF TypeOK, OperatorMail, memVars
<1>22. CASE Crash
  BY <1>22 DEF TypeOK, Crash, dbVars
<1>23. CASE Reconcile
  BY <1>23 DEF TypeOK, Reconcile, NoFault
<1>24. CASE Serve
  BY <1>24 DEF TypeOK, Serve, InsertRow
<1>25. CASE UNCHANGED vars
  BY <1>25 DEF TypeOK, vars, dbVars, memVars, obsVars
<1> QED
  BY <1>1, <1>2, <1>3, <1>4, <1>5, <1>6, <1>7, <1>8, <1>9, <1>10, <1>11, <1>12, <1>13, <1>14, <1>15, <1>16, <1>17, <1>18, <1>19, <1>20, <1>21, <1>22, <1>23, <1>24, <1>25
     DEF Next, WorkerStep, PumpStep, ClientStep

\* finish_task and cancel_task are guarded UPDATEs, so a terminal status never changes: no
\* late verdict, cancel or restart moves such a row, for any tasks and bounds.
THEOREM TerminalFinal == Spec => TerminalIsFinal
<1>1. TypeOK /\ [Next]_vars => [\A t \in Tasks : status[t] \in Terminal => status'[t] = status[t]]_vars
  BY TerminalStep
<1> QED
  BY <1>1, TypeCorrect, PTL DEF Spec, TerminalIsFinal

\* Once a row says ok or failed nothing is appended to its log.
THEOREM LogIsSealed == Spec => LogSealed
<1>1. TypeOK /\ WorkerOwnsRow /\ [Next]_vars
        => [\A t \in Tasks : status[t] \in {"ok", "failed"} => log'[t] = log[t]]_vars
  <2> SUFFICES ASSUME TypeOK, WorkerOwnsRow, [Next]_vars, NEW u \in Tasks, status[u] \in {"ok", "failed"}
               PROVE  log'[u] = log[u]
    OBVIOUS
  <2>1. ASSUME NEW t \in Tasks, SpawnTask(t) PROVE log'[u] = log[u]
    BY <2>1 DEF TypeOK, WorkerOwnsRow, SpawnTask, dbVars, obsVars
  <2>2. ASSUME NEW t \in Tasks, StartTask(t) PROVE log'[u] = log[u]
    BY <2>2 DEF TypeOK, WorkerOwnsRow, StartTask, WriteFails, NoFault
  <2>3. ASSUME NEW t \in Tasks, AnnounceRunning(t) PROVE log'[u] = log[u]
    BY <2>3 DEF TypeOK, WorkerOwnsRow, AnnounceRunning, dbVars, obsVars
  <2>4. ASSUME NEW t \in Tasks, Drained(t) PROVE log'[u] = log[u]
    BY <2>4 DEF TypeOK, WorkerOwnsRow, Drained, dbVars, obsVars
  <2>5. ASSUME NEW t \in Tasks, RecordReason(t) PROVE log'[u] = log[u]
    BY <2>5 DEF TypeOK, WorkerOwnsRow, RecordReason, WriteFails, NoFault
  <2>6. ASSUME NEW t \in Tasks, CloseRow(t) PROVE log'[u] = log[u]
    BY <2>6 DEF TypeOK, WorkerOwnsRow, CloseRow, Verdict, WriteFails, NoFault
  <2>7. ASSUME NEW t \in Tasks, AnnounceVerdict(t) PROVE log'[u] = log[u]
    BY <2>7 DEF TypeOK, WorkerOwnsRow, AnnounceVerdict, dbVars, obsVars
  <2>8. ASSUME NEW t \in Tasks, PumpPersist(t) PROVE log'[u] = log[u]
    BY <2>8 DEF TypeOK, WorkerOwnsRow, PumpPersist, WriteFails, NoFault
  <2>9. ASSUME NEW t \in Tasks, PumpPublish(t) PROVE log'[u] = log[u]
    BY <2>9 DEF TypeOK, WorkerOwnsRow, PumpPublish, dbVars, obsVars
  <2>10. ASSUME NEW t \in Tasks, WriteLine(t) PROVE log'[u] = log[u]
    BY <2>10 DEF TypeOK, WorkerOwnsRow, WriteLine, dbVars, obsVars
  <2>11. ASSUME NEW t \in Tasks, CancelTask(t) PROVE log'[u] = log[u]
    BY <2>11 DEF TypeOK, WorkerOwnsRow, CancelTask, obsVars
  <2>12. ASSUME NEW t \in Tasks, AnnounceCancel(t) PROVE log'[u] = log[u]
    BY <2>12 DEF TypeOK, WorkerOwnsRow, AnnounceCancel, dbVars, obsVars
  <2>13. ASSUME NEW t \in Tasks, NEW r \in {"ok", "err"}, Return(t, r) PROVE log'[u] = log[u]
    BY <2>13 DEF TypeOK, WorkerOwnsRow, Return, dbVars
  <2>14. ASSUME NEW c \in Conns, Connect(c) PROVE log'[u] = log[u]
    BY <2>14 DEF TypeOK, WorkerOwnsRow, Connect, dbVars
  <2>15. ASSUME NEW c \in Conns, Disconnect(c) PROVE log'[u] = log[u]
    BY <2>15 DEF TypeOK, WorkerOwnsRow, Disconnect, dbVars, obsVars
  <2>16. ASSUME NEW c \in Conns, Forward(c) PROVE log'[u] = log[u]
    BY <2>16 DEF TypeOK, WorkerOwnsRow, Forward, dbVars
  <2>17. ASSUME NEW c \in Conns, NEW t \in Tasks, Subscribe(c, t) PROVE log'[u] = log[u]
    BY <2>17 DEF TypeOK, WorkerOwnsRow, Subscribe, dbVars, obsVars
  <2>18. ASSUME NEW c \in Conns, NEW t \in Tasks, Unsubscribe(c, t) PROVE log'[u] = log[u]
    BY <2>18 DEF TypeOK, WorkerOwnsRow, Unsubscribe, dbVars, obsVars
  <2>19. ASSUME NEW c \in Conns, NEW t \in Tasks, NEW o \in Ops, HandleRequest(c, t, o) PROVE log'[u] = log[u]
    BY <2>19 DEF TypeOK, WorkerOwnsRow, HandleRequest, AcceptRequest, InsertRow
  <2>20. ASSUME NEW c \in Conns, NEW t \in Tasks, NEW old \in Tasks, Retry(c, old, t) PROVE log'[u] = log[u]
    BY <2>20 DEF TypeOK, WorkerOwnsRow, Retry, AcceptRequest, InsertRow
  <2>21. CASE OperatorMail
    BY <2>21 DEF TypeOK, WorkerOwnsRow, OperatorMail, memVars
  <2>22. CASE Crash
    BY <2>22 DEF TypeOK, WorkerOwnsRow, Crash, dbVars
  <2>23. CASE Reconcile
    BY <2>23 DEF TypeOK, WorkerOwnsRow, Reconcile, NoFault
  <2>24. CASE Serve
    BY <2>24 DEF TypeOK, WorkerOwnsRow, Serve, InsertRow
  <2>25. CASE UNCHANGED vars
    BY <2>25 DEF TypeOK, WorkerOwnsRow, vars, dbVars, memVars, obsVars
  <2> QED
    BY <2>1, <2>2, <2>3, <2>4, <2>5, <2>6, <2>7, <2>8, <2>9, <2>10, <2>11, <2>12, <2>13, <2>14, <2>15, <2>16, <2>17, <2>18, <2>19, <2>20, <2>21, <2>22, <2>23, <2>24, <2>25
       DEF Next, WorkerStep, PumpStep, ClientStep
<1> QED
  BY <1>1, TypeCorrect, WorkerOwnsRowInv, PTL DEF Spec, LogSealed

-----------------------------------------------------------------------------
(* The migration an upgraded machine runs for itself.                      *)

\* Only the agent's start sets `auto`, mail.mta.install cannot be cancelled, and
\* a row keeps its operation.
LEMMA AutoStep == TypeOK /\ AutoIsMigration /\ [Next]_vars => AutoIsMigration'
<1> SUFFICES ASSUME TypeOK, AutoIsMigration, [Next]_vars PROVE AutoIsMigration'
  OBVIOUS
<1> USE TaskEngineAssumption DEF Blocking, Active, Terminal
<1>1. ASSUME NEW t \in Tasks, SpawnTask(t) PROVE AutoIsMigration'
  BY <1>1 DEF AutoIsMigration, TypeOK, SpawnTask, dbVars, obsVars
<1>2. ASSUME NEW t \in Tasks, StartTask(t) PROVE AutoIsMigration'
  BY <1>2 DEF AutoIsMigration, TypeOK, StartTask, WriteFails, NoFault
<1>3. ASSUME NEW t \in Tasks, AnnounceRunning(t) PROVE AutoIsMigration'
  BY <1>3 DEF AutoIsMigration, TypeOK, AnnounceRunning, dbVars, obsVars
<1>4. ASSUME NEW t \in Tasks, Drained(t) PROVE AutoIsMigration'
  BY <1>4 DEF AutoIsMigration, TypeOK, Drained, dbVars, obsVars
<1>5. ASSUME NEW t \in Tasks, RecordReason(t) PROVE AutoIsMigration'
  BY <1>5 DEF AutoIsMigration, TypeOK, RecordReason, WriteFails, NoFault
<1>6. ASSUME NEW t \in Tasks, CloseRow(t) PROVE AutoIsMigration'
  BY <1>6 DEF AutoIsMigration, TypeOK, CloseRow, Verdict, WriteFails, NoFault
<1>7. ASSUME NEW t \in Tasks, AnnounceVerdict(t) PROVE AutoIsMigration'
  BY <1>7 DEF AutoIsMigration, TypeOK, AnnounceVerdict, dbVars, obsVars
<1>8. ASSUME NEW t \in Tasks, PumpPersist(t) PROVE AutoIsMigration'
  BY <1>8 DEF AutoIsMigration, TypeOK, PumpPersist, WriteFails, NoFault
<1>9. ASSUME NEW t \in Tasks, PumpPublish(t) PROVE AutoIsMigration'
  BY <1>9 DEF AutoIsMigration, TypeOK, PumpPublish, dbVars, obsVars
<1>10. ASSUME NEW t \in Tasks, WriteLine(t) PROVE AutoIsMigration'
  BY <1>10 DEF AutoIsMigration, TypeOK, WriteLine, dbVars, obsVars
<1>11. ASSUME NEW t \in Tasks, CancelTask(t) PROVE AutoIsMigration'
  BY <1>11 DEF AutoIsMigration, TypeOK, CancelTask, obsVars
<1>12. ASSUME NEW t \in Tasks, AnnounceCancel(t) PROVE AutoIsMigration'
  BY <1>12 DEF AutoIsMigration, TypeOK, AnnounceCancel, dbVars, obsVars
<1>13. ASSUME NEW t \in Tasks, NEW r \in {"ok", "err"}, Return(t, r) PROVE AutoIsMigration'
  BY <1>13 DEF AutoIsMigration, TypeOK, Return, dbVars
<1>14. ASSUME NEW c \in Conns, Connect(c) PROVE AutoIsMigration'
  BY <1>14 DEF AutoIsMigration, TypeOK, Connect, dbVars
<1>15. ASSUME NEW c \in Conns, Disconnect(c) PROVE AutoIsMigration'
  BY <1>15 DEF AutoIsMigration, TypeOK, Disconnect, dbVars, obsVars
<1>16. ASSUME NEW c \in Conns, Forward(c) PROVE AutoIsMigration'
  BY <1>16 DEF AutoIsMigration, TypeOK, Forward, dbVars
<1>17. ASSUME NEW c \in Conns, NEW t \in Tasks, Subscribe(c, t) PROVE AutoIsMigration'
  BY <1>17 DEF AutoIsMigration, TypeOK, Subscribe, dbVars, obsVars
<1>18. ASSUME NEW c \in Conns, NEW t \in Tasks, Unsubscribe(c, t) PROVE AutoIsMigration'
  BY <1>18 DEF AutoIsMigration, TypeOK, Unsubscribe, dbVars, obsVars
<1>19. ASSUME NEW c \in Conns, NEW t \in Tasks, NEW o \in Ops, HandleRequest(c, t, o) PROVE AutoIsMigration'
  BY <1>19 DEF AutoIsMigration, TypeOK, HandleRequest, AcceptRequest, InsertRow
<1>20. ASSUME NEW c \in Conns, NEW t \in Tasks, NEW old \in Tasks, Retry(c, old, t) PROVE AutoIsMigration'
  BY <1>20 DEF AutoIsMigration, TypeOK, Retry, AcceptRequest, InsertRow
<1>21. CASE OperatorMail
  BY <1>21 DEF AutoIsMigration, TypeOK, OperatorMail, memVars
<1>22. CASE Crash
  BY <1>22 DEF AutoIsMigration, TypeOK, Crash, dbVars
<1>23. CASE Reconcile
  BY <1>23 DEF AutoIsMigration, TypeOK, Reconcile, NoFault
<1>24. CASE Serve
  <2> SUFFICES ASSUME NEW u \in Tasks, auto'[u]
               PROVE  op'[u] = MtaInstall /\ status'[u] \in Blocking \cup {"ok"}
    BY DEF AutoIsMigration
  <2>1. ASSUME NEW t \in Tasks, InsertRow(t, MtaInstall), auto' = [auto EXCEPT ![t] = TRUE]
        PROVE  op'[u] = MtaInstall /\ status'[u] \in Blocking \cup {"ok"}
    BY <2>1 DEF InsertRow, AutoIsMigration, TypeOK
  <2>2. CASE UNCHANGED <<status, op, auto>>
    BY <2>2 DEF AutoIsMigration
  <2> QED
    BY <1>24, <2>1, <2>2 DEF Serve
<1>25. CASE UNCHANGED vars
  BY <1>25 DEF AutoIsMigration, TypeOK, vars, dbVars, memVars, obsVars
<1> QED
  BY <1>1, <1>2, <1>3, <1>4, <1>5, <1>6, <1>7, <1>8, <1>9, <1>10, <1>11, <1>12, <1>13, <1>14, <1>15, <1>16, <1>17, <1>18, <1>19, <1>20, <1>21, <1>22, <1>23, <1>24, <1>25
     DEF Next, WorkerStep, PumpStep, ClientStep

\* Of a second migration there is never any while the first is not ok.
THEOREM OneAuto == Spec => []OneAutoMigration
<1>1. Init => AutoIsMigration /\ OneAutoMigration
  BY DEF Init, AutoIsMigration, OneAutoMigration
<1>2. TypeOK /\ AutoIsMigration /\ OneAutoMigration /\ [Next]_vars => OneAutoMigration'
  <2> SUFFICES ASSUME TypeOK, AutoIsMigration, OneAutoMigration, [Next]_vars,
                      NEW x \in Tasks, NEW y \in Tasks,
                      auto'[x], auto'[y], status'[x] # "ok", status'[y] # "ok"
               PROVE  x = y
    BY DEF OneAutoMigration
  <2>1. status[x] # "ok" /\ status[y] # "ok"
    BY TerminalStep DEF Terminal
  <2>2. CASE UNCHANGED auto
    BY <2>1, <2>2 DEF OneAutoMigration
  <2>3. CASE Serve /\ auto' # auto
    <3>1. PICK t \in Tasks : auto' = [auto EXCEPT ![t] = TRUE]
      BY <2>3 DEF Serve
    <3>2. \A u \in Tasks : auto[u] => status[u] = "ok"
      BY <2>3 DEF Serve, MtaMigrationDue, AutoIsMigration
    <3> QED
      BY <2>1, <3>1, <3>2 DEF TypeOK
  <2>4. Serve \/ UNCHANGED auto
    BY DEF Next, WorkerStep, PumpStep, ClientStep, SpawnTask, StartTask, AnnounceRunning, Return,
       Drained, RecordReason, CloseRow, AnnounceVerdict, PumpPersist, PumpPublish, WriteLine,
       CancelTask, AnnounceCancel, Connect, Disconnect, Forward, Subscribe, Unsubscribe,
       HandleRequest, Retry, AcceptRequest, OperatorMail, Crash, Reconcile, vars, obsVars
  <2> QED
    BY <2>2, <2>3, <2>4
<1> QED
  BY <1>1, <1>2, AutoStep, TypeCorrect, PTL DEF Spec

-----------------------------------------------------------------------------
(* The log is what the operation wrote.                                    *)

\* The log holds the first lines the operation wrote, in order.
Plain(t) ==
  Len(log[t]) <= sent[t] /\ \A i \in 1..Len(log[t]) : log[t][i] = i

\* ... all of them, ...
Full(t) == Plain(t) /\ Len(log[t]) = sent[t]

\* ... and the reason of the failure.
Closed(t) ==
  /\ Len(log[t]) = sent[t] + 1 /\ \A i \in 1..sent[t] : log[t][i] = i
  /\ log[t][sent[t] + 1] = FailureLine

\* What is not in the log yet waits in the sink, in order.
Queued(t) ==
  /\ Len(log[t]) + Len(sink[t]) = sent[t]
  /\ \A i \in 1..Len(sink[t]) : sink[t][i] = Len(log[t]) + i

\* Nothing is written before the operation runs, dispatch returns once, and only an error
\* gets as far as record_failure.
StageOf(t) ==
  /\ status[t] = "none" \/ worker[t] \in {"accepted", "spawned", "starting"}
       => log[t] = <<>> /\ sink[t] = <<>> /\ sent[t] = 0 /\ outcome[t] = "none"
  /\ worker[t] \in {"none", "running"} => outcome[t] = "none"
  /\ worker[t] = "draining" => outcome[t] \in {"ok", "err"}
  /\ worker[t] = "failing" => outcome[t] = "err"

\* How far the log is, by where the worker is and by what the row says.
LogOf(t) ==
  /\ Plain(t) \/ Closed(t)
  /\ worker[t] \in {"running", "draining"} => Plain(t) /\ Queued(t)
  /\ worker[t] = "failing" => Full(t)
  /\ worker[t] = "closing" => IF outcome[t] = "ok" THEN Full(t) ELSE Closed(t)
  /\ status[t] = "ok" => Full(t)
  /\ status[t] = "failed" /\ outcome[t] = "err" => Closed(t)

RecordInv == \A t \in Tasks : StageOf(t) /\ (~lost[t] => LogOf(t))

\* The same of one task.
Rec(t) == StageOf(t) /\ (~lost[t] => LogOf(t))

\* What an appended line does to a log or a sink.
LEMMA AppendFacts ==
  ASSUME NEW q \in Seq(Nat), NEW n \in Nat
  PROVE  /\ Append(q, n) \in Seq(Nat) /\ Len(Append(q, n)) = Len(q) + 1
         /\ \A i \in 1..Len(q) : Append(q, n)[i] = q[i]
         /\ Append(q, n)[Len(q) + 1] = n
OBVIOUS

\* A line that moves from the sink to the log, or that is added to the sink.
LEMMA Counting ==
  ASSUME NEW a \in Nat, NEW b \in Nat
  PROVE  /\ b # 0 => a + 1 <= a + b /\ (a + 1) + (b - 1) = a + b
         /\ a + (b + 1) = (a + b) + 1
OBVIOUS

\* What taking the oldest line does to a sink.
LEMMA TailFacts ==
  ASSUME NEW q \in Seq(Nat), q # <<>>
  PROVE  /\ Tail(q) \in Seq(Nat) /\ Len(q) \in Nat \ {0} /\ Len(Tail(q)) = Len(q) - 1
         /\ Head(q) = q[1] /\ Head(q) \in Nat
         /\ \A i \in 1..(Len(q) - 1) : Tail(q)[i] = q[i + 1]
OBVIOUS

\* A task that a step does not touch keeps its record, whatever else fails.
LEMMA RecordFrame ==
  ASSUME NEW u \in Tasks, Rec(u), lost'[u] = lost[u],
         status'[u] = status[u], worker'[u] = worker[u], outcome'[u] = outcome[u],
         log'[u] = log[u], sink'[u] = sink[u], sent'[u] = sent[u]
  PROVE  Rec(u)'
BY DEF Rec, StageOf, LogOf, Plain, Full, Closed, Queued

\* A worker, a pump or a cancel works on its own task.
LEMMA OwnTask ==
  ASSUME TypeOK, NEW t \in Tasks, NEW u \in Tasks, u # t,
         \/ WorkerStep(t) \/ PumpStep(t) \/ WriteLine(t) \/ CancelTask(t) \/ AnnounceCancel(t)
  PROVE  /\ lost'[u] = lost[u] /\ status'[u] = status[u] /\ worker'[u] = worker[u]
         /\ outcome'[u] = outcome[u] /\ log'[u] = log[u] /\ sink'[u] = sink[u] /\ sent'[u] = sent[u]
         /\ pump'[u] = pump[u] /\ canceller'[u] = canceller[u]
<1>1. CASE SpawnTask(t) \/ AnnounceRunning(t) \/ Drained(t) \/ AnnounceVerdict(t)
  BY <1>1 DEF TypeOK, SpawnTask, AnnounceRunning, Drained, AnnounceVerdict, dbVars, obsVars
<1>2. CASE StartTask(t)
  BY <1>2 DEF TypeOK, StartTask, WriteFails, NoFault
<1>3. CASE RecordReason(t)
  BY <1>3 DEF TypeOK, RecordReason, WriteFails, NoFault
<1>4. CASE CloseRow(t)
  BY <1>4 DEF TypeOK, CloseRow, WriteFails, NoFault
<1>5. ASSUME NEW r \in {"ok", "err"}, Return(t, r)
      PROVE  /\ lost'[u] = lost[u] /\ status'[u] = status[u] /\ worker'[u] = worker[u]
             /\ outcome'[u] = outcome[u] /\ log'[u] = log[u] /\ sink'[u] = sink[u] /\ sent'[u] = sent[u]
             /\ pump'[u] = pump[u] /\ canceller'[u] = canceller[u]
  BY <1>5 DEF TypeOK, Return, dbVars
<1>6. CASE PumpPersist(t)
  BY <1>6 DEF TypeOK, PumpPersist, WriteFails, NoFault
<1>7. CASE PumpPublish(t) \/ AnnounceCancel(t)
  BY <1>7 DEF TypeOK, PumpPublish, AnnounceCancel, dbVars, obsVars
<1>8. CASE WriteLine(t) \/ CancelTask(t)
  BY <1>8 DEF TypeOK, WriteLine, CancelTask, dbVars, obsVars
<1> QED
  BY <1>1, <1>2, <1>3, <1>4, <1>5, <1>6, <1>7, <1>8 DEF WorkerStep, PumpStep

\* The steps of a task's worker and pump keep its record: lines move from the sink to the
\* log in order, pump.await ends with an empty sink, and the reason comes before the row.
LEMMA WorkerRecord ==
  ASSUME TypeOK, WorkerOwnsRow, NEW t \in Tasks, Rec(t),
         \/ WorkerStep(t) \/ PumpStep(t) \/ WriteLine(t) \/ CancelTask(t) \/ AnnounceCancel(t)
  PROVE  Rec(t)'
<1>t. /\ status \in [Tasks -> TaskStatus \cup {"none"}] /\ worker \in [Tasks -> Stages]
      /\ log \in [Tasks -> Seq(Nat)] /\ sink \in [Tasks -> Seq(Nat)] /\ sent \in [Tasks -> Nat]
      /\ outcome \in [Tasks -> {"none", "ok", "err"}] /\ lost \in [Tasks -> BOOLEAN]
  BY DEF TypeOK
<1>w. /\ worker[t] \in {"accepted", "spawned"} => status[t] \in {"queued", "cancelled"}
      /\ worker[t] \in {"starting", "running", "draining", "failing", "closing"}
           => status[t] \in {"running", "cancelled"}
  BY DEF WorkerOwnsRow
<1>l. Len(log[t]) \in Nat /\ Len(sink[t]) \in Nat /\ sent[t] \in Nat
  BY <1>t
<1>1. CASE SpawnTask(t)
  BY <1>1, <1>t DEF Rec, StageOf, LogOf, Plain, Full, Closed, Queued, SpawnTask, dbVars, obsVars
<1>2. CASE StartTask(t)
  BY <1>2, <1>t, <1>w DEF Rec, StageOf, LogOf, Plain, Full, Closed, Queued, StartTask, WriteFails, NoFault
<1>3. CASE AnnounceRunning(t)
  <2>1. log[t] = <<>> /\ sink[t] = <<>> /\ sent[t] = 0 /\ outcome[t] = "none"
    BY <1>3 DEF AnnounceRunning, Rec, StageOf
  <2>2. /\ log' = log /\ sink' = sink /\ sent' = sent /\ outcome' = outcome /\ status' = status
        /\ lost' = lost /\ worker'[t] = "running" /\ status[t] \in {"running", "cancelled"}
    BY <1>3, <1>t, <1>w DEF AnnounceRunning, dbVars, obsVars
  <2>0. Len(log'[t]) = 0 /\ Len(sink'[t]) = 0 /\ sent'[t] = 0
    BY <2>1, <2>2
  <2>3. Plain(t)' /\ Queued(t)'
    BY <2>0 DEF Plain, Queued
  <2>4. StageOf(t)'
    BY <2>1, <2>2 DEF StageOf
  <2> QED BY <2>2, <2>3, <2>4 DEF Rec, LogOf
<1>4. CASE Drained(t)
  <2>1. /\ sink[t] = <<>> /\ worker[t] = "draining" /\ UNCHANGED <<log, sink, sent, outcome, status, lost>>
        /\ worker'[t] = IF outcome[t] = "ok" THEN "closing" ELSE "failing"
    BY <1>4, <1>t DEF Drained, dbVars, obsVars
  <2>2. ~lost[t] => Full(t)'
    BY <1>l, <2>1 DEF Rec, LogOf, Queued, Plain, Full
  <2>3. status[t] \in {"running", "cancelled"} /\ outcome[t] \in {"ok", "err"}
    BY <1>w, <2>1 DEF Rec, StageOf
  <2>4. StageOf(t)'
    BY <2>1, <2>3 DEF StageOf
  <2> QED BY <2>1, <2>2, <2>3, <2>4 DEF Rec, LogOf, Full
<1>5. CASE RecordReason(t)
  <2>1. /\ worker[t] = "failing" /\ worker'[t] = "closing" /\ UNCHANGED <<sink, sent, outcome, status>>
        /\ \/ log' = [log EXCEPT ![t] = Append(@, FailureLine)] /\ lost' = lost
           \/ lost'[t] = TRUE
    BY <1>5, <1>t DEF RecordReason, WriteFails, NoFault
  <2>2. status[t] \in {"running", "cancelled"} /\ outcome[t] = "err"
    BY <1>w, <2>1 DEF Rec, StageOf
  <2>3. StageOf(t)'
    BY <2>1, <2>2 DEF StageOf
  <2>4. ~lost'[t] => Closed(t)'
    <3> SUFFICES ASSUME ~lost'[t] PROVE Closed(t)'
      OBVIOUS
    <3>1. log'[t] = Append(log[t], FailureLine) /\ ~lost[t]
      BY <1>t, <2>1
    <3>2. Full(t)
      BY <2>1, <3>1 DEF Rec, LogOf
    <3>3. log[t] \in Seq(Nat) /\ FailureLine \in Nat
      BY <1>t DEF FailureLine
    <3> QED BY <1>l, <2>1, <3>1, <3>2, <3>3, AppendFacts DEF Full, Plain, Closed
  <2> QED BY <2>1, <2>2, <2>3, <2>4 DEF Rec, LogOf
<1>6. CASE CloseRow(t)
  <2>1. /\ worker[t] = "closing" /\ worker'[t] = "announcing" /\ UNCHANGED <<log, sink, sent, outcome>>
        /\ lost'[t] = lost[t] \/ lost'[t] = TRUE
        /\ status'[t] \in {Verdict(t), "cancelled", "running"}
    BY <1>6, <1>t, <1>w DEF CloseRow, WriteFails, NoFault, Active
  <2>2. StageOf(t)'
    BY <2>1 DEF StageOf, Verdict
  <2>3. ~lost[t] => IF outcome[t] = "ok" THEN Full(t)' ELSE Closed(t)'
    BY <2>1 DEF Rec, LogOf, Full, Plain, Closed
  <2> QED BY <2>1, <2>2, <2>3 DEF Rec, LogOf, Verdict, Full
<1>7. CASE AnnounceVerdict(t)
  BY <1>7, <1>t DEF Rec, StageOf, LogOf, Plain, Full, Closed, Queued, AnnounceVerdict, dbVars, obsVars
<1>8. CASE PumpPersist(t)
  <2>1. /\ worker[t] \in {"running", "draining"} /\ sink[t] # <<>> /\ sink'[t] = Tail(sink[t])
        /\ UNCHANGED <<worker, sent, outcome, status>>
        /\ \/ log' = [log EXCEPT ![t] = Append(@, Head(sink[t]))] /\ lost' = lost
           \/ lost'[t] = TRUE
    BY <1>8, <1>t DEF PumpPersist, WriteFails, NoFault
  <2>2. status[t] \in {"running", "cancelled"}
    BY <1>w, <2>1
  <2>3. StageOf(t)'
    BY <2>1, <2>2 DEF Rec, StageOf
  <2>4. ~lost'[t] => Plain(t)' /\ Queued(t)'
    <3> SUFFICES ASSUME ~lost'[t] PROVE Plain(t)' /\ Queued(t)'
      OBVIOUS
    <3> DEFINE q == log[t]  s == sink[t]
    <3>1. log'[t] = Append(q, Head(s)) /\ ~lost[t] /\ q \in Seq(Nat) /\ s \in Seq(Nat)
      BY <1>t, <2>1
    <3>2. Plain(t) /\ Queued(t)
      BY <2>1, <3>1 DEF Rec, LogOf
    <3>3. /\ Len(s) \in Nat \ {0} /\ Len(Tail(s)) = Len(s) - 1 /\ Head(s) = s[1] /\ Head(s) \in Nat
          /\ \A i \in 1..(Len(s) - 1) : Tail(s)[i] = s[i + 1]
      BY <2>1, <3>1, TailFacts
    <3>4. s[1] = Len(q) + 1
      BY <3>2, <3>3 DEF Queued
    <3>5. /\ Len(log'[t]) = Len(q) + 1 /\ log'[t][Len(q) + 1] = Len(q) + 1
          /\ \A i \in 1..Len(q) : log'[t][i] = q[i]
      BY <3>1, <3>3, <3>4, AppendFacts
    <3>n. /\ Len(q) \in Nat /\ Len(s) \in Nat \ {0} /\ Len(q) + Len(s) = sent'[t]
          /\ Len(log'[t]) = Len(q) + 1 /\ Len(sink'[t]) = Len(s) - 1
      <4>1. Len(q) + Len(s) = sent[t]
        BY <3>2 DEF Queued
      <4> QED BY <1>l, <2>1, <3>3, <3>5, <4>1
    <3>6. Plain(t)'
      <4>1. Len(log'[t]) <= sent'[t]
        BY <3>n, Counting
      <4>2. \A i \in 1..Len(log'[t]) : log'[t][i] = i
        BY <1>l, <3>2, <3>5 DEF Plain
      <4> QED BY <4>1, <4>2 DEF Plain
    <3>7. Queued(t)'
      <4>1. Len(log'[t]) + Len(sink'[t]) = sent'[t]
        BY <3>n, Counting
      <4>2. \A i \in 1..Len(sink'[t]) : sink'[t][i] = Len(log'[t]) + i
        <5> SUFFICES ASSUME NEW i \in 1..(Len(s) - 1) PROVE Tail(s)[i] = Len(q) + 1 + i
          BY <2>1, <3>n
        <5>1. i + 1 \in 1..Len(s) /\ i \in Nat
          BY <3>n
        <5>2. s[i + 1] = Len(q) + (i + 1)
          BY <3>2, <5>1 DEF Queued
        <5>3. Tail(s)[i] = s[i + 1]
          BY <3>3
        <5>4. Len(q) + (i + 1) = Len(q) + 1 + i
          BY <3>n, <5>1
        <5> QED BY <5>2, <5>3, <5>4
      <4> QED BY <4>1, <4>2 DEF Queued
    <3> QED BY <3>6, <3>7
  <2> QED BY <2>1, <2>2, <2>3, <2>4 DEF Rec, LogOf
<1>9. CASE WriteLine(t)
  <2>1. /\ worker[t] = "running" /\ sent'[t] = sent[t] + 1 /\ sink'[t] = Append(sink[t], sent[t] + 1)
        /\ UNCHANGED <<log, worker, outcome, status, lost>>
    BY <1>9, <1>t DEF WriteLine, dbVars
  <2>2. status[t] \in {"running", "cancelled"}
    BY <1>w, <2>1
  <2>3. StageOf(t)'
    BY <2>1, <2>2 DEF Rec, StageOf
  <2>4. ~lost[t] => Plain(t)' /\ Queued(t)'
    <3> SUFFICES ASSUME ~lost[t] PROVE Plain(t)' /\ Queued(t)'
      OBVIOUS
    <3>1. Plain(t) /\ Queued(t)
      BY <2>1 DEF Rec, LogOf
    <3>2. /\ Len(sink'[t]) = Len(sink[t]) + 1 /\ sink'[t][Len(sink[t]) + 1] = sent[t] + 1
          /\ \A i \in 1..Len(sink[t]) : sink'[t][i] = sink[t][i]
      BY <1>t, <1>l, <2>1, AppendFacts
    <3>3. Plain(t)'
      BY <1>l, <2>1, <3>1 DEF Plain
    <3>4. Queued(t)'
      <4> DEFINE n == Len(sink[t])
      <4>1. Len(log[t]) + n = sent[t] /\ n \in Nat /\ log'[t] = log[t]
        BY <1>l, <2>1, <3>1 DEF Queued
      <4>2. Len(log'[t]) + Len(sink'[t]) = sent'[t]
        BY <1>l, <2>1, <3>2, <4>1, Counting
      <4>3. ASSUME NEW i \in 1..(n + 1)
            PROVE  sink'[t][i] = Len(log'[t]) + i
        <5>1. CASE i \in 1..n
          BY <3>1, <3>2, <4>1, <5>1 DEF Queued
        <5>2. CASE i = n + 1
          BY <1>l, <3>2, <4>1, <5>2, Counting
        <5> QED BY <4>1, <5>1, <5>2
      <4> QED BY <3>2, <4>2, <4>3 DEF Queued
    <3> QED BY <3>3, <3>4
  <2> QED BY <2>1, <2>2, <2>3, <2>4 DEF Rec, LogOf
<1>10. ASSUME NEW r \in {"ok", "err"}, Return(t, r)
       PROVE  Rec(t)'
  <2>1. /\ worker[t] = "running" /\ worker'[t] = "draining" /\ outcome'[t] = r
        /\ UNCHANGED <<log, sink, sent, status, lost>> /\ status[t] \in {"running", "cancelled"}
    BY <1>10, <1>t, <1>w DEF Return, dbVars
  <2> QED BY <2>1 DEF Rec, StageOf, LogOf, Plain, Queued
<1>11. CASE CancelTask(t)
  <2>1. /\ status[t] \in Active /\ status'[t] = "cancelled"
        /\ UNCHANGED <<log, sink, sent, worker, outcome, lost>>
    BY <1>11, <1>t DEF CancelTask, obsVars
  <2> QED BY <2>1 DEF Rec, StageOf, LogOf, Plain, Full, Closed, Queued
<1>12. CASE PumpPublish(t) \/ AnnounceCancel(t)
  BY <1>12, RecordFrame DEF PumpPublish, AnnounceCancel, dbVars, obsVars
<1> QED
  BY <1>1, <1>2, <1>3, <1>4, <1>5, <1>6, <1>7, <1>8, <1>9, <1>10, <1>11, <1>12
     DEF WorkerStep, PumpStep

\* A new row starts with an empty record.
LEMMA InsertRecord ==
  ASSUME TypeOK, NEW t \in Tasks, NEW o, Rec(t), InsertRow(t, o),
         worker'[t] \in {"accepted", "spawned"},
         UNCHANGED <<outcome, log, sink, sent, lost>>
  PROVE  Rec(t)'
<1>1. log[t] = <<>> /\ sink[t] = <<>> /\ sent[t] = 0 /\ outcome[t] = "none"
  BY DEF InsertRow, Rec, StageOf
<1>2. status'[t] = "queued"
  BY DEF InsertRow, TypeOK
<1>3. Plain(t)'
  BY <1>1 DEF Plain
<1> QED BY <1>1, <1>2, <1>3 DEF Rec, StageOf, LogOf

\* Every step keeps the record of every task.
LEMMA NextRecord ==
  ASSUME TypeOK, WorkerOwnsRow, RecordInv, [Next]_vars
  PROVE  RecordInv'
<1> SUFFICES ASSUME NEW u \in Tasks PROVE Rec(u)'
  BY DEF RecordInv, Rec
<1>r. \A t \in Tasks : Rec(t)
  BY DEF RecordInv, Rec
<1>1. ASSUME NEW t \in Tasks,
             \/ WorkerStep(t) \/ PumpStep(t) \/ WriteLine(t) \/ CancelTask(t) \/ AnnounceCancel(t)
      PROVE  Rec(u)'
  <2>1. CASE t = u
    BY <1>1, <1>r, <2>1, WorkerRecord
  <2>2. CASE t # u
    BY <1>1, <1>r, <2>2, OwnTask, RecordFrame
  <2> QED BY <2>1, <2>2
<1>2. ASSUME NEW t \in Tasks, NEW o, InsertRow(t, o), NEW st \in {"accepted", "spawned"},
             worker' = [worker EXCEPT ![t] = st], UNCHANGED <<outcome, log, sink, sent, lost>>
      PROVE  Rec(u)'
  <2>1. CASE t = u
    <3>1. worker'[t] \in {"accepted", "spawned"}
      BY <1>2 DEF TypeOK
    <3> QED BY <1>2, <1>r, <2>1, <3>1, InsertRecord
  <2>2. CASE t # u
    <3>1. worker'[u] = worker[u] /\ status'[u] = status[u]
      BY <1>2, <2>2 DEF TypeOK, InsertRow
    <3> QED BY <1>2, <1>r, <3>1, RecordFrame
  <2> QED BY <2>1, <2>2
<1>3. ASSUME NEW c \in Conns, NEW t \in Tasks, NEW o, AcceptRequest(c, t, o)
      PROVE  Rec(u)'
  BY <1>2, <1>3 DEF AcceptRequest
<1>4. CASE UNCHANGED <<lost, status, worker, outcome, log, sink, sent>>
  BY <1>4, <1>r, RecordFrame
<1>5. CASE Crash
  <2>1. /\ worker'[u] = "none" /\ outcome'[u] = "none" /\ sink'[u] = <<>>
        /\ UNCHANGED <<status, log, sent, lost>>
    BY <1>5 DEF Crash, dbVars
  <2> QED BY <1>r, <2>1 DEF Rec, StageOf, LogOf, Plain, Full, Closed
<1>6. CASE Reconcile
  <2>0. UNCHANGED <<worker, outcome, log, sink, sent>> /\ worker[u] = "none"
    BY <1>6 DEF Reconcile, WorkerOwnsRow, up
  <2>s. status'[u] = status[u] \/ (status'[u] = "failed" /\ status[u] # "none")
    BY <1>6 DEF Reconcile, Active
  <2>l. ~lost'[u] => ~lost[u]
    <3>1. CASE NoFault
      BY <3>1 DEF NoFault
    <3>2. CASE lost' = [t \in Tasks |-> lost[t] \/ status[t] \in Active]
      BY <3>2
    <3> QED BY <1>6, <3>1, <3>2 DEF Reconcile
  <2>1. /\ UNCHANGED <<worker, outcome, log, sink, sent>> /\ worker[u] = "none"
        /\ status'[u] = status[u] \/ (status'[u] = "failed" /\ status[u] # "none")
        /\ ~lost'[u] => ~lost[u]
    BY <2>0, <2>s, <2>l
  <2>2. outcome[u] = "none"
    BY <1>r, <2>1 DEF Rec, StageOf
  <2> QED BY <1>r, <2>1, <2>2 DEF Rec, StageOf, LogOf, Plain, Full, Closed
<1>7. CASE Serve
  BY <1>2, <1>4, <1>7 DEF Serve
<1>8. CASE OperatorMail
  BY <1>4, <1>8 DEF OperatorMail, memVars
<1>9. ASSUME NEW c \in Conns, ClientStep(c)
      PROVE  Rec(u)'
  BY <1>3, <1>4, <1>9 DEF ClientStep, Connect, Disconnect, Forward, Subscribe, Unsubscribe,
     HandleRequest, Retry, dbVars, obsVars
<1>10. CASE UNCHANGED vars
  BY <1>4, <1>10 DEF vars, dbVars, memVars, obsVars
<1> QED
  BY <1>1, <1>5, <1>6, <1>7, <1>8, <1>9, <1>10 DEF Next

\* A log that holds the first lines is a prefix of what was written.
LEMMA PrefixFacts ==
  ASSUME NEW q \in Seq(Nat), NEW n \in Nat, NEW m \in 0..(n + 1), Len(q) = m,
         \A i \in 1..m : q[i] = IF i <= n THEN i ELSE FailureLine
  PROVE  q = SubSeq(Append([i \in 1..n |-> i], FailureLine), 1, m)
<1> DEFINE w == [i \in 1..n |-> i]
           a == Append(w, FailureLine)
           p == SubSeq(a, 1, m)
<1>1. w \in Seq(Nat) /\ Len(w) = n /\ FailureLine \in Nat
  BY DEF FailureLine
<1>2. \A i \in 1..n : w[i] = i
  OBVIOUS
<1> HIDE DEF w
<1>3. a \in Seq(Nat) /\ Len(a) = n + 1 /\ (\A i \in 1..n : a[i] = w[i]) /\ a[n + 1] = FailureLine
  BY <1>1, AppendFacts
<1> HIDE DEF a
<1>4. p \in Seq(Nat) /\ Len(p) = m /\ \A i \in 1..m : p[i] = a[i]
  BY <1>3
<1> HIDE DEF p
<1>5. \A i \in 1..m : p[i] = q[i]
  BY <1>2, <1>3, <1>4
<1>6. q = p
  BY <1>4, <1>5, SeqEqual
<1> QED BY <1>6 DEF p, a, w

\* The three shapes of a log, as the property says them.
LEMMA ShapesOfLog ==
  ASSUME TypeOK, NEW t \in Tasks
  PROVE  /\ Plain(t) \/ Closed(t) => \E n \in 0..(sent[t] + 1) : log[t] = SubSeq(Append(Written(t), FailureLine), 1, n)
         /\ Full(t) => log[t] = Written(t)
         /\ Closed(t) => log[t] = Append(Written(t), FailureLine)
<1>1. log[t] \in Seq(Nat) /\ sent[t] \in Nat /\ Len(log[t]) \in Nat /\ FailureLine \in Nat
  BY DEF TypeOK, FailureLine
<1>2. Written(t) \in Seq(Nat) /\ Len(Written(t)) = sent[t] /\ \A i \in 1..sent[t] : Written(t)[i] = i
  BY <1>1 DEF Written
<1>3. ASSUME Plain(t) \/ Closed(t)
      PROVE  log[t] = SubSeq(Append(Written(t), FailureLine), 1, Len(log[t])) /\ Len(log[t]) \in 0..(sent[t] + 1)
  <2>1. Len(log[t]) \in 0..(sent[t] + 1)
    BY <1>1, <1>3 DEF Plain, Closed
  <2>2. \A i \in 1..Len(log[t]) : log[t][i] = IF i <= sent[t] THEN i ELSE FailureLine
    BY <1>1, <1>3 DEF Plain, Closed
  <2> QED BY <1>1, <2>1, <2>2, PrefixFacts DEF Written
<1>4. ASSUME Full(t)
      PROVE  log[t] = Written(t)
  BY <1>1, <1>2, <1>4, SeqEqual DEF Full, Plain
<1>5. ASSUME Closed(t)
      PROVE  log[t] = Append(Written(t), FailureLine)
  <2> DEFINE w == Written(t)
  <2>1. /\ Append(w, FailureLine) \in Seq(Nat) /\ Len(Append(w, FailureLine)) = sent[t] + 1
        /\ \A i \in 1..sent[t] : Append(w, FailureLine)[i] = i
        /\ Append(w, FailureLine)[sent[t] + 1] = FailureLine
    BY <1>1, <1>2, AppendFacts
  <2>2. ASSUME NEW i \in 1..(sent[t] + 1)
        PROVE  Append(w, FailureLine)[i] = log[t][i]
    <3> HIDE DEF w
    <3>1. (\A k \in 1..sent[t] : log[t][k] = k) /\ log[t][sent[t] + 1] = FailureLine
      BY <1>5 DEF Closed
    <3>2. i \in 1..sent[t] \/ i = sent[t] + 1
      BY <1>1
    <3> QED BY <2>1, <3>1, <3>2
  <2>3. Len(log[t]) = sent[t] + 1
    BY <1>5 DEF Closed
  <2> QED BY <1>1, <2>1, <2>2, <2>3, SeqEqual
<1> QED BY <1>3, <1>4, <1>5

\* The persisted copy is authoritative: through cancels, crashes and restarts the log of a
\* task whose writes did not fail is a prefix of what the operation wrote, complete when
\* the row is ok and ended by the reason when the row has failed.
THEOREM RecordIsComplete == Spec => []RecordComplete
<1>1. Init => RecordInv
  <2> SUFFICES ASSUME Init, NEW t \in Tasks PROVE StageOf(t) /\ LogOf(t)
    BY DEF RecordInv
  <2>1. /\ log[t] = <<>> /\ sink[t] = <<>> /\ sent[t] = 0 /\ outcome[t] = "none"
        /\ status[t] = "none" /\ worker[t] = "none"
    BY DEF Init
  <2>2. Len(log[t]) = 0
    BY <2>1
  <2>3. Plain(t)
    BY <2>1, <2>2 DEF Plain
  <2> QED BY <2>1, <2>3 DEF StageOf, LogOf
<1>2. TypeOK /\ WorkerOwnsRow /\ RecordInv /\ [Next]_vars => RecordInv'
  BY NextRecord
<1>3. TypeOK /\ RecordInv => RecordComplete
  BY ShapesOfLog DEF RecordInv, LogOf, RecordComplete
<1> QED
  BY <1>1, <1>2, <1>3, TypeCorrect, WorkerOwnsRowInv, PTL DEF Spec

-----------------------------------------------------------------------------
(* What is on its way to a viewer is in the database.                      *)

\* What an event says is what the database says, or said before a cancel.
Backed(e) ==
  /\ e.seq <= Len(log[e.task])
  /\ e.status \in {"ok", "failed"} /\ ~lost[e.task] => status[e.task] \in {e.status, "cancelled"}
  /\ e.status = "cancelled" => status[e.task] = "cancelled"

\* Every event on a bus is backed, and so is what a pump, a CancelTask handler or a worker
\* is about to publish.
StreamInv ==
  /\ \A c \in Conns : \A i \in 1..Len(bus[c]) : Backed(bus[c][i])
  /\ \A t \in Tasks :
       /\ pump[t] <= Len(log[t])
       /\ canceller[t] => status[t] = "cancelled"
       /\ worker[t] = "announcing" /\ ~lost[t] => status[t] \in {Verdict(t), "cancelled"}

\* The log only grows, and a failed write is not forgotten.
LEMMA DatabaseGrows ==
  ASSUME TypeOK, [Next]_vars, NEW u \in Tasks
  PROVE  /\ Len(log[u]) \in Nat /\ Len(log'[u]) \in Nat /\ Len(log[u]) <= Len(log'[u])
         /\ lost[u] => lost'[u]
<1>t. /\ log \in [Tasks -> Seq(Nat)] /\ sink \in [Tasks -> Seq(Nat)] /\ lost \in [Tasks -> BOOLEAN]
      /\ Len(log[u]) \in Nat
  BY DEF TypeOK
<1>a. \A n \in Nat : Len(Append(log[u], n)) = Len(log[u]) + 1
  BY <1>t, AppendFacts
<1>f. ASSUME NEW t \in Tasks, WriteFails(t) \/ NoFault
      PROVE  lost[u] => lost'[u]
  BY <1>f, <1>t DEF WriteFails, NoFault
<1>1. ASSUME NEW t \in Tasks, PumpPersist(t)
      PROVE  (log'[u] = log[u] \/ \E n \in Nat : log'[u] = Append(log[u], n)) /\ (lost[u] => lost'[u])
  <2>1. Head(sink[t]) \in Nat
    BY <1>1, <1>t, TailFacts DEF PumpPersist
  <2>2. log'[u] = log[u] \/ \E n \in Nat : log'[u] = Append(log[u], n)
    BY <1>1, <1>t, <2>1 DEF PumpPersist
  <2>3. WriteFails(t) \/ NoFault
    BY <1>1 DEF PumpPersist
  <2> QED BY <1>f, <2>2, <2>3
<1>2. ASSUME NEW t \in Tasks, RecordReason(t)
      PROVE  (log'[u] = log[u] \/ \E n \in Nat : log'[u] = Append(log[u], n)) /\ (lost[u] => lost'[u])
  <2>1. log'[u] = log[u] \/ \E n \in Nat : log'[u] = Append(log[u], n)
    BY <1>2, <1>t DEF RecordReason, FailureLine
  <2>2. WriteFails(t) \/ NoFault
    BY <1>2 DEF RecordReason
  <2> QED BY <1>f, <2>1, <2>2
<1>3. ASSUME NEW t \in Tasks, StartTask(t) \/ CloseRow(t)
      PROVE  log' = log /\ (lost[u] => lost'[u])
  <2>1. log' = log /\ (WriteFails(t) \/ NoFault)
    BY <1>3 DEF StartTask, CloseRow
  <2> QED BY <1>f, <2>1
<1>4. ASSUME Reconcile
      PROVE  log' = log /\ (lost[u] => lost'[u])
  <2>1. log' = log
    BY <1>4 DEF Reconcile
  <2>2. CASE NoFault
    BY <2>1, <2>2 DEF NoFault
  <2>3. CASE lost' = [t \in Tasks |-> lost[t] \/ status[t] \in Active]
    BY <2>1, <2>3
  <2> QED BY <1>4, <2>2, <2>3 DEF Reconcile
<1>5. UNCHANGED <<log, lost>> => log' = log /\ (lost[u] => lost'[u])
  OBVIOUS
<1>6. (log'[u] = log[u] \/ \E n \in Nat : log'[u] = Append(log[u], n)) /\ (lost[u] => lost'[u])
  BY <1>1, <1>2, <1>3, <1>4, <1>5
     DEF Next, WorkerStep, PumpStep, ClientStep, SpawnTask, AnnounceRunning, Return, Drained,
         AnnounceVerdict, PumpPublish, WriteLine, CancelTask, AnnounceCancel, Connect, Disconnect,
         Forward, Subscribe, Unsubscribe, HandleRequest, Retry, AcceptRequest, OperatorMail, Crash,
         Serve, vars, dbVars, obsVars
<1> QED
  BY <1>t, <1>a, <1>6

\* What has been said of a task stays true of the database: a terminal row is final and the
\* log only grows.
LEMMA SaidStays ==
  ASSUME TypeOK, [Next]_vars, NEW u \in Tasks, NEW n \in Nat, NEW s,
         n <= Len(log[u]),
         s \in {"ok", "failed"} /\ ~lost[u] => status[u] \in {s, "cancelled"},
         s = "cancelled" => status[u] = "cancelled"
  PROVE  /\ n <= Len(log'[u])
         /\ s \in {"ok", "failed"} /\ ~lost'[u] => status'[u] \in {s, "cancelled"}
         /\ s = "cancelled" => status'[u] = "cancelled"
<1>1. Len(log[u]) \in Nat /\ Len(log'[u]) \in Nat /\ Len(log[u]) <= Len(log'[u])
  BY DatabaseGrows
<1>2. ~lost'[u] => ~lost[u]
  BY DatabaseGrows
<1>3. status[u] \in Terminal => status'[u] = status[u]
  BY TerminalStep
<1>4. n <= Len(log'[u])
  BY <1>1
<1> QED
  BY <1>2, <1>3, <1>4 DEF Terminal

\* An event that was backed by the database stays so.
LEMMA BackedStays ==
  ASSUME TypeOK, [Next]_vars, NEW e \in Events, Backed(e)
  PROVE  Backed(e)'
<1>1. e.task \in Tasks /\ e.seq \in Nat
  BY DEF Events
<1> QED
  BY <1>1, SaidStays DEF Backed

\* A full bus drops its oldest event; what is left is what was there and the new one.
LEMMA OverwriteFacts ==
  ASSUME NEW q \in Seq(Events), NEW e \in Events, NEW i \in 1..Len(Overwrite(q, e))
  PROVE  Overwrite(q, e)[i] = e \/ \E j \in 1..Len(q) : Overwrite(q, e)[i] = q[j]
<1>1. CASE Len(q) < BusCapacity
  BY <1>1 DEF Overwrite
<1>2. CASE ~(Len(q) < BusCapacity)
  <2>1. q # <<>> /\ Len(q) \in Nat \ {0}
    BY <1>2, TaskEngineAssumption
  <2>2. Tail(q) \in Seq(Events) /\ Len(Tail(q)) = Len(q) - 1 /\ \A k \in 1..(Len(q) - 1) : Tail(q)[k] = q[k + 1]
    BY <2>1
  <2>3. Overwrite(q, e) = Append(Tail(q), e)
    BY <1>2 DEF Overwrite
  <2>4. /\ Len(Append(Tail(q), e)) = Len(q) /\ Append(Tail(q), e)[Len(q)] = e
        /\ \A k \in 1..(Len(q) - 1) : Append(Tail(q), e)[k] = q[k + 1]
    BY <2>1, <2>2
  <2>5. CASE i = Len(q)
    BY <2>3, <2>4, <2>5
  <2>6. CASE i \in 1..(Len(q) - 1)
    <3>1. i + 1 \in 1..Len(q)
      BY <2>1, <2>6
    <3> QED BY <2>3, <2>4, <2>6, <3>1
  <2>7. i \in 1..Len(q)
    BY <2>3, <2>4
  <2> QED BY <2>1, <2>5, <2>6, <2>7
<1> QED BY <1>1, <1>2

\* What appears on a bus was published by a worker, a pump or a cancel.
Published(e) ==
  \E t \in Tasks :
    \/ AnnounceRunning(t) /\ e = StateEvent(t, "running")
    \/ AnnounceVerdict(t) /\ e = StateEvent(t, Verdict(t))
    \/ AnnounceCancel(t) /\ e = StateEvent(t, "cancelled")
    \/ PumpPublish(t) /\ e = LineEvent(t, pump[t])

\* What is on a bus after a step was there before, or the step published it.
LEMMA BusFrom ==
  ASSUME TypeOK, [Next]_vars, NEW c \in Conns, NEW i \in 1..Len(bus'[c])
  PROVE  Published(bus'[c][i]) \/ \E j \in 1..Len(bus[c]) : bus'[c][i] = bus[c][j]
<1>t. bus \in [Conns -> Seq(Events)]
  BY DEF TypeOK
<1>p. ASSUME NEW e \in Events, Publish(e)
      PROVE  bus'[c][i] = e \/ \E j \in 1..Len(bus[c]) : bus'[c][i] = bus[c][j]
  <2>1. CASE connected[c]
    <3>1. bus'[c] = Overwrite(bus[c], e) /\ bus[c] \in Seq(Events)
      BY <1>p, <1>t, <2>1 DEF Publish
    <3> QED BY <3>1, OverwriteFacts
  <2>2. CASE ~connected[c]
    BY <1>p, <2>2 DEF Publish
  <2> QED BY <2>1, <2>2
<1>1. ASSUME NEW t \in Tasks, AnnounceRunning(t)
      PROVE  Published(bus'[c][i]) \/ \E j \in 1..Len(bus[c]) : bus'[c][i] = bus[c][j]
  <2>1. StateEvent(t, "running") \in Events
    BY DEF StateEvent, Events, TaskStatus, Active
  <2> QED BY <1>p, <1>1, <2>1 DEF AnnounceRunning, Published
<1>2. ASSUME NEW t \in Tasks, AnnounceVerdict(t)
      PROVE  Published(bus'[c][i]) \/ \E j \in 1..Len(bus[c]) : bus'[c][i] = bus[c][j]
  <2>1. StateEvent(t, Verdict(t)) \in Events
    BY DEF StateEvent, Verdict, Events, TaskStatus, Terminal
  <2> QED BY <1>p, <1>2, <2>1 DEF AnnounceVerdict, Published
<1>3. ASSUME NEW t \in Tasks, AnnounceCancel(t)
      PROVE  Published(bus'[c][i]) \/ \E j \in 1..Len(bus[c]) : bus'[c][i] = bus[c][j]
  <2>1. StateEvent(t, "cancelled") \in Events
    BY DEF StateEvent, Events, TaskStatus, Terminal
  <2> QED BY <1>p, <1>3, <2>1 DEF AnnounceCancel, Published
<1>4. ASSUME NEW t \in Tasks, PumpPublish(t)
      PROVE  Published(bus'[c][i]) \/ \E j \in 1..Len(bus[c]) : bus'[c][i] = bus[c][j]
  <2>1. LineEvent(t, pump[t]) \in Events
    BY DEF LineEvent, Events, TypeOK
  <2> QED BY <1>p, <1>4, <2>1 DEF PumpPublish, Published
<1>5. ASSUME NEW d \in Conns, Forward(d)
      PROVE  \E j \in 1..Len(bus[c]) : bus'[c][i] = bus[c][j]
  <2>1. CASE d # c
    BY <1>5, <1>t, <2>1 DEF Forward
  <2>2. CASE d = c
    <3>1. bus'[c] = Tail(bus[c]) /\ bus[c] # <<>> /\ bus[c] \in Seq(Events)
      BY <1>5, <1>t, <2>2 DEF Forward
    <3>2. /\ Len(bus[c]) \in Nat \ {0} /\ Len(Tail(bus[c])) = Len(bus[c]) - 1
          /\ \A k \in 1..(Len(bus[c]) - 1) : Tail(bus[c])[k] = bus[c][k + 1]
      BY <3>1
    <3>3. i + 1 \in 1..Len(bus[c])
      BY <3>1, <3>2
    <3> QED BY <3>1, <3>2, <3>3
  <2> QED BY <2>1, <2>2
<1>6. ASSUME NEW d \in Conns, Disconnect(d)
      PROVE  \E j \in 1..Len(bus[c]) : bus'[c][i] = bus[c][j]
  BY <1>6, <1>t DEF Disconnect
<1>7. CASE Crash
  BY <1>7 DEF Crash
<1>8. CASE UNCHANGED bus
  BY <1>8
<1> QED
  BY <1>1, <1>2, <1>3, <1>4, <1>5, <1>6, <1>7, <1>8
     DEF Next, WorkerStep, PumpStep, ClientStep, SpawnTask, StartTask, Return, Drained, RecordReason,
         CloseRow, PumpPersist, WriteLine, CancelTask, Connect, Subscribe, Unsubscribe, HandleRequest,
         Retry, AcceptRequest, OperatorMail, Reconcile, Serve, vars, memVars

\* Whatever is published is in the database by then: the pump and the worker write first.
LEMMA PublishedBacked ==
  ASSUME TypeOK, TypeOK', StreamInv, NEW e \in Events, Published(e)
  PROVE  Backed(e)'
<1>1. PICK t \in Tasks :
        \/ AnnounceRunning(t) /\ e = StateEvent(t, "running")
        \/ AnnounceVerdict(t) /\ e = StateEvent(t, Verdict(t))
        \/ AnnounceCancel(t) /\ e = StateEvent(t, "cancelled")
        \/ PumpPublish(t) /\ e = LineEvent(t, pump[t])
  BY DEF Published
<1>2. UNCHANGED <<log, status, lost>> /\ e.task = t
  BY <1>1 DEF AnnounceRunning, AnnounceVerdict, AnnounceCancel, PumpPublish, StateEvent, LineEvent,
              dbVars, obsVars
<1>3. Len(log[t]) \in Nat /\ pump[t] <= Len(log[t])
  BY DEF TypeOK, StreamInv
<1>4. CASE AnnounceRunning(t) /\ e = StateEvent(t, "running")
  BY <1>2, <1>3, <1>4 DEF Backed, StateEvent
<1>5. CASE AnnounceVerdict(t) /\ e = StateEvent(t, Verdict(t))
  <2>1. ~lost[t] => status[t] \in {Verdict(t), "cancelled"}
    BY <1>5 DEF AnnounceVerdict, StreamInv
  <2>2. e.status = Verdict(t) /\ e.seq = 0 /\ Verdict(t) # "cancelled"
    BY <1>5 DEF StateEvent, Verdict
  <2> QED BY <1>2, <1>3, <2>1, <2>2 DEF Backed
<1>6. CASE AnnounceCancel(t) /\ e = StateEvent(t, "cancelled")
  <2>1. status[t] = "cancelled"
    BY <1>6 DEF AnnounceCancel, StreamInv
  <2> QED BY <1>2, <1>3, <1>6, <2>1 DEF Backed, StateEvent
<1>7. CASE PumpPublish(t) /\ e = LineEvent(t, pump[t])
  BY <1>2, <1>3, <1>7 DEF Backed, LineEvent
<1> QED BY <1>1, <1>4, <1>5, <1>6, <1>7

\* What a pump, a cancel handler or a worker is about to say is in the database.
AboutToSay(t) ==
  /\ pump[t] <= Len(log[t])
  /\ canceller[t] => status[t] = "cancelled"
  /\ worker[t] = "announcing" /\ ~lost[t] => status[t] \in {Verdict(t), "cancelled"}

\* ... and stays there until it is said.
LEMMA AboutToSayStays ==
  ASSUME TypeOK, WorkerOwnsRow, [Next]_vars, NEW u \in Tasks, AboutToSay(u)
  PROVE  AboutToSay(u)'
<1>t. /\ status \in [Tasks -> TaskStatus \cup {"none"}] /\ worker \in [Tasks -> Stages]
      /\ pump \in [Tasks -> Nat] /\ canceller \in [Tasks -> BOOLEAN] /\ lost \in [Tasks -> BOOLEAN]
      /\ log \in [Tasks -> Seq(Nat)] /\ sink \in [Tasks -> Seq(Nat)]
      /\ DOMAIN outcome = Tasks
  BY DEF TypeOK
<1>g. Len(log[u]) \in Nat /\ Len(log'[u]) \in Nat /\ Len(log[u]) <= Len(log'[u]) /\ (lost[u] => lost'[u])
  BY DatabaseGrows
<1>f. status[u] \in Terminal => status'[u] = status[u]
  BY TerminalStep
<1>s. ASSUME pump'[u] = pump[u] \/ pump'[u] = 0, canceller'[u] => canceller[u],
             worker'[u] = "announcing" => worker[u] = "announcing" /\ outcome'[u] = outcome[u]
      PROVE  AboutToSay(u)'
  <2>1. pump'[u] <= Len(log'[u])
    BY <1>t, <1>g, <1>s DEF AboutToSay
  <2>2. canceller'[u] => status'[u] = "cancelled"
    BY <1>f, <1>s DEF AboutToSay, Terminal
  <2>3. worker'[u] = "announcing" /\ ~lost'[u] => status'[u] \in {Verdict(u)', "cancelled"}
    BY <1>f, <1>g, <1>s DEF AboutToSay, Terminal, Verdict
  <2> QED BY <2>1, <2>2, <2>3 DEF AboutToSay
<1>1. CASE CloseRow(u)
  <2>1. /\ UNCHANGED <<pump, canceller, outcome>> /\ worker[u] = "closing"
    BY <1>1 DEF CloseRow
  <2>2. status[u] \in {"running", "cancelled"}
    BY <2>1 DEF WorkerOwnsRow
  <2>3. status'[u] \in {Verdict(u), "cancelled"} \/ lost'[u]
    BY <1>1, <1>t, <2>2 DEF CloseRow, WriteFails, Active
  <2>4. pump'[u] <= Len(log'[u])
    BY <1>t, <1>g, <2>1 DEF AboutToSay
  <2>5. canceller'[u] => status'[u] = "cancelled"
    BY <1>f, <2>1 DEF AboutToSay, Terminal
  <2> QED BY <2>1, <2>3, <2>4, <2>5 DEF AboutToSay, Verdict
<1>2. CASE CancelTask(u)
  <2>1. /\ UNCHANGED <<pump, worker, outcome>> /\ status'[u] = "cancelled"
    BY <1>2, <1>t DEF CancelTask
  <2>2. pump'[u] <= Len(log'[u])
    BY <1>t, <1>g, <2>1 DEF AboutToSay
  <2> QED BY <2>1, <2>2 DEF AboutToSay
<1>3. CASE PumpPersist(u)
  <2>1. CASE pump' = pump
    BY <1>3, <1>s, <2>1 DEF PumpPersist
  <2>2. CASE pump' # pump
    <3>1. log'[u] = Append(log[u], Head(sink[u])) /\ pump'[u] = Len(log[u]) + 1 /\ Head(sink[u]) \in Nat
      BY <1>3, <1>t, <2>2, TailFacts DEF PumpPersist
    <3>2. pump'[u] <= Len(log'[u])
      BY <1>t, <1>g, <3>1, AppendFacts
    <3>3. worker[u] # "announcing" /\ UNCHANGED <<worker, canceller>>
      BY <1>3 DEF PumpPersist
    <3> QED BY <1>f, <3>2, <3>3 DEF AboutToSay, Terminal
  <2> QED BY <2>1, <2>2
<1>4. ASSUME NEW t \in Tasks, t # u,
             \/ WorkerStep(t) \/ PumpStep(t) \/ WriteLine(t) \/ CancelTask(t) \/ AnnounceCancel(t)
      PROVE  AboutToSay(u)'
  BY <1>4, <1>s, OwnTask
<1>5. CASE SpawnTask(u) \/ StartTask(u) \/ AnnounceRunning(u) \/ Drained(u) \/ RecordReason(u) \/ AnnounceVerdict(u)
  <2>1. UNCHANGED <<pump, canceller, outcome>> /\ worker'[u] # "announcing"
    BY <1>5, <1>t DEF SpawnTask, StartTask, AnnounceRunning, Drained, RecordReason, AnnounceVerdict
  <2> QED BY <1>s, <2>1
<1>6. CASE (\E r \in {"ok", "err"} : Return(u, r)) \/ WriteLine(u)
  <2>1. UNCHANGED <<pump, canceller>> /\ worker'[u] # "announcing"
    BY <1>6, <1>t DEF Return, WriteLine
  <2> QED BY <1>s, <2>1
<1>7. CASE PumpPublish(u) \/ AnnounceCancel(u)
  BY <1>7, <1>s, <1>t DEF PumpPublish, AnnounceCancel
<1>8. ASSUME NEW c \in Conns, ClientStep(c)
      PROVE  AboutToSay(u)'
  <2>1. /\ UNCHANGED <<pump, canceller, outcome>>
        /\ worker' = worker \/ \E t \in Tasks : worker' = [worker EXCEPT ![t] = "accepted"]
    BY <1>8 DEF ClientStep, Connect, Disconnect, Forward, Subscribe, Unsubscribe, HandleRequest, Retry,
       AcceptRequest
  <2> QED BY <1>s, <1>t, <2>1
<1>9. CASE Crash
  BY <1>9, <1>s DEF Crash
<1>10. CASE Reconcile \/ OperatorMail \/ UNCHANGED vars
  BY <1>10, <1>s DEF Reconcile, OperatorMail, vars, memVars
<1>11. CASE Serve
  <2>1. /\ UNCHANGED <<pump, canceller, outcome>>
        /\ worker' = worker \/ \E t \in Tasks : worker' = [worker EXCEPT ![t] = "spawned"]
    BY <1>11 DEF Serve
  <2> QED BY <1>s, <1>t, <2>1
<1> QED
  BY <1>1, <1>2, <1>3, <1>4, <1>5, <1>6, <1>7, <1>8, <1>9, <1>10, <1>11
     DEF Next, WorkerStep, PumpStep

\* Every step keeps the stream behind the record.
LEMMA NextStream ==
  ASSUME TypeOK, TypeOK', WorkerOwnsRow, StreamInv, [Next]_vars
  PROVE  StreamInv'
<1>1. \A t \in Tasks : AboutToSay(t)'
  BY AboutToSayStays DEF StreamInv, AboutToSay
<1>2. ASSUME NEW c \in Conns, NEW i \in 1..Len(bus'[c])
      PROVE  Backed(bus[c][i])'
  <2>1. bus'[c][i] \in Events
    BY DEF TypeOK
  <2>2. PICK e \in Events : e = bus'[c][i]
    BY <2>1
  <2>3. CASE Published(e)
    BY <2>2, <2>3, PublishedBacked DEF Backed
  <2>4. CASE \E j \in 1..Len(bus[c]) : e = bus[c][j]
    <3>1. Backed(e)
      BY <2>4 DEF StreamInv
    <3> QED BY <2>2, <3>1, BackedStays DEF Backed
  <2> QED BY <2>2, <2>3, <2>4, BusFrom
<1> QED BY <1>1, <1>2 DEF StreamInv, AboutToSay

\* Every step keeps what viewers were shown in the database.
LEMMA NextShown ==
  ASSUME TypeOK, StreamInv, StreamBehindRecord, [Next]_vars
  PROVE  StreamBehindRecord'
<1> DEFINE Shown(v, t) ==
      /\ v.seq <= Len(log[t])
      /\ v.status \in {"ok", "failed"} /\ ~lost[t] => status[t] \in {v.status, "cancelled"}
      /\ v.status = "cancelled" => status[t] = "cancelled"
    Views == [status : TaskStatus \cup {"none"}, seq : Nat]
<1> SUFFICES ASSUME NEW c \in Conns, NEW t \in Tasks PROVE Shown(view[c][t], t)'
  BY DEF StreamBehindRecord
<1>t. view \in [Conns -> [Tasks -> Views]] /\ bus \in [Conns -> Seq(Events)] /\ Len(log[t]) \in Nat
  BY DEF TypeOK
<1>k. ASSUME NEW v \in Views, Shown(v, t)
      PROVE  Shown(v, t)'
  <2>1. v.seq \in Nat
    OBVIOUS
  <2> QED BY <1>k, <2>1, SaidStays
<1>0. Shown(view[c][t], t)
  BY DEF StreamBehindRecord
<1>1. CASE view'[c][t] = view[c][t]
  BY <1>0, <1>1, <1>k, <1>t
<1>2. ASSUME NEW d \in Conns, Connect(d)
      PROVE  Shown(view[c][t], t)'
  <2>1. CASE d # c
    BY <1>1, <1>2, <1>t, <2>1 DEF Connect
  <2>2. CASE d = c
    BY <1>2, <1>t, <2>2 DEF Connect, NoView, dbVars
  <2> QED BY <2>1, <2>2
<1>3. ASSUME NEW d \in Conns, Forward(d)
      PROVE  Shown(view[c][t], t)'
  <2> DEFINE e == Head(bus[d])
  <2>1. e \in Events /\ Backed(e)
    <3>1. bus[d] \in Seq(Events) /\ bus[d] # <<>>
      BY <1>3, <1>t DEF Forward
    <3>2. e = bus[d][1] /\ 1 \in 1..Len(bus[d]) /\ e \in Events
      BY <3>1
    <3> QED BY <3>2 DEF StreamInv
  <2>2. CASE view'[c][t] = view[c][t]
    BY <1>1, <2>2
  <2>3. CASE view'[c][t] # view[c][t]
    <3>1. view' = [view EXCEPT ![d] = [view[d] EXCEPT ![e.task] = Delivered(view[d][e.task], e)]]
      BY <1>3, <2>3 DEF Forward
    <3>2. d = c /\ e.task = t
      BY <1>t, <2>1, <2>3, <3>1 DEF Events
    <3>3. view'[c][t] = Delivered(view[c][t], e)
      BY <1>t, <3>1, <3>2
    <3>4. UNCHANGED <<log, status, lost>>
      BY <1>3 DEF Forward, dbVars
    <3>5. CASE e.status = "line"
      <4>1. view'[c][t].seq = e.seq /\ view'[c][t].status = view[c][t].status
        BY <1>t, <3>3, <3>5 DEF Delivered
      <4> QED BY <1>0, <2>1, <3>2, <3>4, <4>1 DEF Backed
    <3>6. CASE e.status # "line"
      <4>1. view'[c][t].seq = view[c][t].seq /\ view'[c][t].status = e.status
        BY <1>t, <3>3, <3>6 DEF Delivered
      <4> QED BY <1>0, <2>1, <3>2, <3>4, <4>1 DEF Backed
    <3> QED BY <3>5, <3>6
  <2> QED BY <2>2, <2>3
<1> HIDE DEF Shown
<1> QED
  BY <1>1, <1>2, <1>3
     DEF Next, WorkerStep, PumpStep, ClientStep, SpawnTask, StartTask, AnnounceRunning, Return,
         Drained, RecordReason, CloseRow, AnnounceVerdict, PumpPersist, PumpPublish, WriteLine,
         CancelTask, AnnounceCancel, Disconnect, Subscribe, Unsubscribe, HandleRequest, Retry,
         AcceptRequest, OperatorMail, Crash, Reconcile, Serve, vars, obsVars

\* "The persisted copy is authoritative": however an event is delayed, dropped from a full bus
\* or overtaken by a cancel, what a viewer was shown is in the database already.
THEOREM StreamIsBehind == Spec => []StreamBehindRecord
<1>1. Init => StreamInv /\ StreamBehindRecord
  <2> SUFFICES ASSUME Init PROVE StreamInv /\ StreamBehindRecord
    OBVIOUS
  <2>1. \A t \in Tasks : Len(log[t]) = 0 /\ pump[t] = 0 /\ ~canceller[t] /\ worker[t] = "none"
    BY DEF Init
  <2>2. \A c \in Conns : Len(bus[c]) = 0
    BY DEF Init
  <2>3. ASSUME NEW c \in Conns, NEW t \in Tasks
        PROVE  view[c][t].status = "none" /\ view[c][t].seq <= Len(log[t])
    <3>1. view[c][t] = [status |-> "none", seq |-> 0]
      BY DEF Init, NoView
    <3>2. view[c][t].status = "none" /\ view[c][t].seq = 0
      BY <3>1
    <3>3. 0 <= Len(log[t])
      BY <2>1
    <3> QED BY <3>2, <3>3
  <2>4. StreamInv
    BY <2>1, <2>2 DEF StreamInv
  <2>5. StreamBehindRecord
    BY <2>3 DEF StreamBehindRecord
  <2> QED BY <2>4, <2>5
<1>2. TypeOK /\ TypeOK' /\ WorkerOwnsRow /\ StreamInv /\ StreamBehindRecord /\ [Next]_vars
        => StreamInv' /\ StreamBehindRecord'
  BY NextStream, NextShown
<1> QED
  BY <1>1, <1>2, TypeCorrect, WorkerOwnsRowInv, PTL DEF Spec
-----------------------------------------------------------------------------
(* The tables: TaskEngine implements TaskLedger.                           *)

\* What a row asks for is an operation, and what waits in a sink is a line of the
\* operation; a retry and the pump hand them on unseen.
LedgerInv ==
  \A t \in Tasks :
    /\ status[t] # "none" => op[t] \in Ops
    /\ sent[t] \in 0..MaxLines
    /\ sink[t] \in Seq(0..MaxLines)

\* A retry asks for what its origin asked for, and the migration is an operation.
LEMMA InsertLedger ==
  ASSUME TypeOK, LedgerInv, NEW t \in Tasks, NEW o \in Ops, InsertRow(t, o), UNCHANGED <<log, sink, sent>>
  PROVE  LedgerInv' /\ Ledger!Submit(t, o)
<1>1. LedgerInv'
  BY DEF LedgerInv, TypeOK, InsertRow
<1>2. Ledger!Submit(t, o)
  BY DEF InsertRow, Ledger!Submit
<1> QED BY <1>1, <1>2

\* Every step keeps LedgerInv and is a step of the ledger, or none of its business.
LEMMA NextLedger ==
  ASSUME TypeOK, WorkerOwnsRow, LedgerInv, [Next]_vars
  PROVE  LedgerInv' /\ [Ledger!Next]_(Ledger!vars)
<1>a. MaxLines \in Nat /\ MtaInstall \in Ops
  BY TaskEngineAssumption
<1>t. /\ status \in [Tasks -> TaskStatus \cup {"none"}] /\ sent \in [Tasks -> Nat]
      /\ sink \in [Tasks -> Seq(Nat)]
  BY DEF TypeOK
<1>f. \A t \in Tasks : /\ status[t] # "none" => op[t] \in Ops
                       /\ sent[t] \in 0..MaxLines
                       /\ sink[t] \in Seq(0..MaxLines)
  BY DEF LedgerInv
\* Steps that leave the tables alone, and the lines on their way to them.
<1>1. ASSUME UNCHANGED <<status, op, log>>, UNCHANGED <<sent, sink>>
      PROVE  LedgerInv' /\ UNCHANGED Ledger!vars
  BY <1>1 DEF LedgerInv, Ledger!vars
<1>2. ASSUME NEW t \in Tasks, WriteLine(t)
      PROVE  LedgerInv' /\ UNCHANGED Ledger!vars
  <2>1. sent[t] + 1 \in 0..MaxLines
    BY <1>2, <1>a, <1>f DEF WriteLine
  <2>2. Append(sink[t], sent[t] + 1) \in Seq(0..MaxLines)
    BY <1>f, <2>1
  <2>3. UNCHANGED <<status, op, log>>
    BY <1>2 DEF WriteLine, dbVars
  <2>4. LedgerInv'
    BY <1>2, <1>t, <1>f, <2>1, <2>2, <2>3 DEF WriteLine, LedgerInv
  <2> QED BY <2>3, <2>4 DEF Ledger!vars
<1>3. ASSUME NEW t \in Tasks, PumpPersist(t)
      PROVE  LedgerInv' /\ [Ledger!Next]_(Ledger!vars)
  <2>1. Tail(sink[t]) \in Seq(0..MaxLines) /\ Head(sink[t]) \in 0..MaxLines
    BY <1>3, <1>f, HeadTailProperties DEF PumpPersist
  <2>2. UNCHANGED <<status, op, sent>> /\ status[t] \in {"running", "cancelled"}
    BY <1>3 DEF PumpPersist, WorkerOwnsRow
  <2>3. LedgerInv'
    BY <1>3, <1>t, <1>f, <2>1, <2>2 DEF PumpPersist, LedgerInv
  <2>4. Ledger!Say(t, Head(sink[t])) \/ UNCHANGED Ledger!vars
    BY <1>3, <2>2 DEF PumpPersist, Ledger!Say, Ledger!vars
  <2> QED BY <2>1, <2>3, <2>4 DEF Ledger!Next
<1>4. ASSUME NEW t \in Tasks, RecordReason(t)
      PROVE  LedgerInv' /\ [Ledger!Next]_(Ledger!vars)
  <2>1. UNCHANGED <<status, op, sent, sink>> /\ status[t] \in {"running", "cancelled"}
    BY <1>4 DEF RecordReason, WorkerOwnsRow
  <2>2. LedgerInv'
    BY <2>1 DEF LedgerInv
  <2>3. Ledger!Say(t, FailureLine) \/ UNCHANGED Ledger!vars
    BY <1>4, <2>1 DEF RecordReason, Ledger!Say, Ledger!vars
  <2>4. FailureLine \in 0..MaxLines
    BY <1>a DEF FailureLine
  <2> QED BY <2>2, <2>3, <2>4 DEF Ledger!Next
<1>5. ASSUME NEW t \in Tasks, StartTask(t)
      PROVE  LedgerInv' /\ [Ledger!Next]_(Ledger!vars)
  <2>1. UNCHANGED <<op, log, sent, sink>>
    BY <1>5 DEF StartTask
  <2>2. Ledger!Start(t) \/ UNCHANGED Ledger!vars
    BY <1>5, <2>1 DEF StartTask, Ledger!Start, Ledger!vars
  <2>3. \A u \in Tasks : status'[u] # "none" => status[u] # "none"
    BY <1>t, <2>2 DEF Ledger!Start, Ledger!vars
  <2>4. LedgerInv'
    BY <1>f, <2>1, <2>3 DEF LedgerInv
  <2> QED BY <2>2, <2>4 DEF Ledger!Next
<1>6. ASSUME NEW t \in Tasks, CloseRow(t)
      PROVE  LedgerInv' /\ [Ledger!Next]_(Ledger!vars)
  <2>1. UNCHANGED <<op, log, sent, sink>> /\ status[t] \in {"running", "cancelled"}
    BY <1>6 DEF CloseRow, WorkerOwnsRow
  <2>2. Ledger!Finish(t, Verdict(t)) \/ UNCHANGED Ledger!vars
    BY <1>6, <2>1 DEF CloseRow, Active, Ledger!Finish, Ledger!vars
  <2>3. Verdict(t) \in {"ok", "failed"}
    BY DEF Verdict
  <2>4. \A u \in Tasks : status'[u] # "none" => status[u] # "none"
    BY <1>t, <2>2 DEF Ledger!Finish, Ledger!vars
  <2>5. LedgerInv'
    BY <1>f, <2>1, <2>4 DEF LedgerInv
  <2> QED BY <2>2, <2>3, <2>5 DEF Ledger!Next
<1>7. ASSUME NEW t \in Tasks, CancelTask(t)
      PROVE  LedgerInv' /\ [Ledger!Next]_(Ledger!vars)
  <2>1. UNCHANGED <<op, log, sent, sink>>
    BY <1>7 DEF CancelTask, obsVars
  <2>2. Ledger!Cancel(t)
    BY <1>7, <2>1 DEF CancelTask, Active, Ledger!Cancel, Ledger!Pending
  <2>3. \A u \in Tasks : status'[u] # "none" => status[u] # "none"
    BY <1>t, <2>2 DEF Ledger!Cancel, Ledger!Pending
  <2>4. LedgerInv'
    BY <1>f, <2>1, <2>3 DEF LedgerInv
  <2> QED BY <2>2, <2>4 DEF Ledger!Next
<1>8. ASSUME Reconcile
      PROVE  LedgerInv' /\ [Ledger!Next]_(Ledger!vars)
  <2>1. UNCHANGED <<op, log, sent, sink>>
    BY <1>8 DEF Reconcile
  <2>2. Ledger!Interrupt \/ UNCHANGED Ledger!vars
    BY <1>8, <2>1 DEF Reconcile, Active, Ledger!Interrupt, Ledger!Pending, Ledger!vars
  <2>3. \A u \in Tasks : status'[u] # "none" => status[u] # "none"
    BY <1>t, <2>2 DEF Ledger!Interrupt, Ledger!Pending, Ledger!vars
  <2>4. LedgerInv'
    BY <1>f, <2>1, <2>3 DEF LedgerInv
  <2> QED BY <2>2, <2>4 DEF Ledger!Next
<1>9. ASSUME NEW t \in Tasks, NEW o \in Ops, InsertRow(t, o), UNCHANGED <<log, sink, sent>>
      PROVE  LedgerInv' /\ Ledger!Next
  BY <1>9, InsertLedger DEF Ledger!Next
<1>10. ASSUME NEW c \in Conns, NEW t \in Tasks, NEW old \in Tasks, Retry(c, old, t)
       PROVE  LedgerInv' /\ Ledger!Next
  <2>1. op[old] \in Ops
    BY <1>10, <1>f DEF Retry, Terminal
  <2> QED BY <1>9, <1>10, <2>1 DEF Retry, AcceptRequest
<1>11. ASSUME NEW c \in Conns, NEW t \in Tasks, NEW o \in Ops, HandleRequest(c, t, o)
       PROVE  LedgerInv' /\ Ledger!Next
  BY <1>9, <1>11 DEF HandleRequest, AcceptRequest
<1>12. ASSUME Serve
       PROVE  LedgerInv' /\ [Ledger!Next]_(Ledger!vars)
  <2>1. UNCHANGED <<log, sink, sent>>
    BY <1>12 DEF Serve
  <2>2. CASE UNCHANGED <<status, op>>
    BY <1>1, <2>1, <2>2
  <2>3. ASSUME NEW t \in Tasks, InsertRow(t, MtaInstall)
        PROVE  LedgerInv' /\ Ledger!Next
    BY <1>9, <1>a, <2>1, <2>3
  <2> QED BY <1>12, <2>2, <2>3 DEF Serve
<1>13. ASSUME Crash
       PROVE  LedgerInv' /\ UNCHANGED Ledger!vars
  <2>1. UNCHANGED <<status, op, log, sent>> /\ \A t \in Tasks : sink'[t] = <<>>
    BY <1>13 DEF Crash, dbVars
  <2>2. <<>> \in Seq(0..MaxLines)
    OBVIOUS
  <2>3. LedgerInv'
    BY <1>f, <2>1, <2>2 DEF LedgerInv
  <2> QED BY <2>1, <2>3 DEF Ledger!vars
<1>14. ASSUME NEW t \in Tasks,
              \/ SpawnTask(t) \/ AnnounceRunning(t) \/ Drained(t) \/ AnnounceVerdict(t)
              \/ PumpPublish(t) \/ AnnounceCancel(t) \/ \E r \in {"ok", "err"} : Return(t, r)
       PROVE  UNCHANGED <<status, op, log>> /\ UNCHANGED <<sent, sink>>
  BY <1>14 DEF SpawnTask, AnnounceRunning, Drained, AnnounceVerdict, PumpPublish, AnnounceCancel, Return,
               dbVars, obsVars
<1>15. ASSUME NEW c \in Conns,
              \/ Connect(c) \/ Disconnect(c) \/ Forward(c)
              \/ \E t \in Tasks : Subscribe(c, t) \/ Unsubscribe(c, t)
       PROVE  UNCHANGED <<status, op, log>> /\ UNCHANGED <<sent, sink>>
  BY <1>15 DEF Connect, Disconnect, Forward, Subscribe, Unsubscribe, dbVars, obsVars
<1>16. ASSUME OperatorMail \/ UNCHANGED vars
       PROVE  UNCHANGED <<status, op, log>> /\ UNCHANGED <<sent, sink>>
  BY <1>16 DEF OperatorMail, vars, dbVars, memVars, obsVars
<1> QED
  BY <1>1, <1>2, <1>3, <1>4, <1>5, <1>6, <1>7, <1>8, <1>10, <1>11, <1>12, <1>13, <1>14, <1>15, <1>16
     DEF Next, WorkerStep, PumpStep, ClientStep

\* The task engine implements the ledger, with any number of tasks and clients and whatever
\* fails: a row takes the promised path to one verdict and its log grows on the way only.
THEOREM Refinement == Spec => ImplementsLedger
<1>1. Init => LedgerInv /\ Ledger!Init
  <2> SUFFICES ASSUME Init PROVE LedgerInv /\ Ledger!Init
    OBVIOUS
  <2>1. 0 \in 0..MaxLines /\ <<>> \in Seq(0..MaxLines)
    BY TaskEngineAssumption
  <2> QED BY <2>1 DEF Init, LedgerInv, Ledger!Init
<1>2. TypeOK /\ WorkerOwnsRow /\ LedgerInv /\ [Next]_vars => LedgerInv' /\ [Ledger!Next]_(Ledger!vars)
  BY NextLedger
<1> QED
  BY <1>1, <1>2, TypeCorrect, WorkerOwnsRowInv, PTL DEF Spec, ImplementsLedger, Ledger!Spec
=============================================================================
