----------------------------- MODULE TaskLedger -----------------------------
(***************************************************************************)
(* What the task engine promises of its two tables, which is all that the  *)
(* panel, the command line and the next start of the agent go by: a row    *)
(* moves from queued through running to one verdict, its log only grows,   *)
(* and it grows only while an operation may still be speaking.             *)
(***************************************************************************)
EXTENDS Sequences

CONSTANTS
  Tasks,        \* the ids of rows
  Ops,          \* what a row may ask for
  Cancellable,  \* the operations that may be cancelled
  None,         \* the operation of a row that does not exist
  Lines         \* what a log may say

VARIABLES
  status,       \* tasks.status, or "none"
  op,           \* tasks.op
  log           \* task_logs, in the order of seq

vars == <<status, op, log>>

Pending == {"queued", "running"}

Init ==
  /\ status = [t \in Tasks |-> "none"]
  /\ op = [t \in Tasks |-> None]
  /\ log = [t \in Tasks |-> <<>>]

\* create_task
Submit(t, o) ==
  /\ status[t] = "none"
  /\ status' = [status EXCEPT ![t] = "queued"]
  /\ op' = [op EXCEPT ![t] = o]
  /\ UNCHANGED log

\* start_task
Start(t) ==
  /\ status[t] = "queued"
  /\ status' = [status EXCEPT ![t] = "running"]
  /\ UNCHANGED <<op, log>>

\* append_task_log, which does not look at the row: a cancelled operation is
\* not stopped and may go on speaking.
Say(t, line) ==
  /\ status[t] \in {"running", "cancelled"}
  /\ log' = [log EXCEPT ![t] = Append(@, line)]
  /\ UNCHANGED <<status, op>>

\* finish_task_ok and finish_task_failed, whose UPDATE would take a queued row too.
Finish(t, verdict) ==
  /\ status[t] = "running"
  /\ status' = [status EXCEPT ![t] = verdict]
  /\ UNCHANGED <<op, log>>

\* cancel_task
Cancel(t) ==
  /\ op[t] \in Cancellable /\ status[t] \in Pending
  /\ status' = [status EXCEPT ![t] = "cancelled"]
  /\ UNCHANGED <<op, log>>

\* reconcile_interrupted_tasks: the rows of an agent that died, all at once.
Interrupt ==
  /\ status' = [t \in Tasks |-> IF status[t] \in Pending THEN "failed" ELSE status[t]]
  /\ UNCHANGED <<op, log>>

Next ==
  \/ \E t \in Tasks :
       \/ \E o \in Ops : Submit(t, o)
       \/ Start(t) \/ Cancel(t)
       \/ \E line \in Lines : Say(t, line)
       \/ \E verdict \in {"ok", "failed"} : Finish(t, verdict)
  \/ Interrupt

Spec == Init /\ [][Next]_vars
=============================================================================
