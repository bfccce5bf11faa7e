------------------------------ MODULE Scheduler ------------------------------
(***************************************************************************)
(* The agent's internal scheduler: a table of jobs, a loop that reads the  *)
(* due ones every TICK, and a pass per job in a tokio task of its own,     *)
(* guarded by a claim.  The table survives a restart; the loop, the claims *)
(* and the passes do not.                                                  *)
(*                                                                         *)
(* Time is abstract: next_run_at is in the past ("due") or not ("later").  *)
(***************************************************************************)
EXTENDS Naturals

CONSTANTS
  Jobs,        \* the names in JOBS
  Slow,        \* those whose pass may outlast SHUTDOWN_DRAIN, or never end
  MaxStops,    \* bound: shutdown signals
  MaxCrashes,  \* bound: crashes of the agent
  MaxFaults    \* bound: failed database calls and panicking passes

ASSUME SchedulerAssumption ==
  /\ Slow \subseteq Jobs
  /\ MaxStops \in Nat /\ MaxCrashes \in Nat /\ MaxFaults \in Nat

VARIABLES
  row,      \* table scheduler_jobs: "absent", "later" or "due"
  phase,    \* "down", "registering", "waiting", "ticking", "draining" or "dead"
  todo,     \* jobs still to register, or read as due and not yet offered
  claims,   \* InFlight
  running, recording, releasing,  \* passes of a job, by how far they have got
  asked,    \* has main told the scheduler to shut down
  starts,   \* observed: passes started since the job last fell due
  stops, crashes, faults

passVars == <<running, recording, releasing>>
counters == <<stops, crashes, faults>>
vars     == <<row, phase, todo, claims, passVars, asked, starts, counters>>

TypeOK ==
  /\ row \in [Jobs -> {"absent", "later", "due"}]
  /\ phase \in {"down", "registering", "waiting", "ticking", "draining", "dead"}
  /\ todo \in SUBSET Jobs /\ claims \in SUBSET Jobs
  /\ running \in [Jobs -> Nat] /\ recording \in [Jobs -> Nat] /\ releasing \in [Jobs -> Nat]
  /\ asked \in BOOLEAN
  /\ starts \in [Jobs -> Nat]
  /\ stops \in Nat /\ crashes \in Nat /\ faults \in Nat

Zero == [j \in Jobs |-> 0]

Init ==
  /\ row = [j \in Jobs |-> "absent"]
  /\ phase = "down" /\ todo = {} /\ claims = {}
  /\ running = Zero /\ recording = Zero /\ releasing = Zero
  /\ asked = FALSE /\ starts = Zero
  /\ stops = 0 /\ crashes = 0 /\ faults = 0

Fault == faults < MaxFaults /\ faults' = faults + 1 /\ UNCHANGED <<stops, crashes>>

-----------------------------------------------------------------------------
(* Starting: Scheduler::run registers the built-in jobs one by one.        *)

Start ==
  /\ phase = "down"
  /\ phase' = "registering" /\ todo' = Jobs
  /\ UNCHANGED <<row, claims, passVars, asked, starts, counters>>

\* Mutant: the upsert also refreshes next_run_at.
RegisterJobResets(j) == {"later", "due"}

\* register_job: a new job is jittered into the near future or due at once, an
\* existing one keeps its next_run_at.
RegisterJob(j) == IF row[j] = "absent" THEN {"later", "due"} ELSE {row[j]}

Register(j) ==
  /\ phase = "registering" /\ j \in todo
  /\ \E s \in RegisterJob(j) : row' = [row EXCEPT ![j] = s]
  /\ todo' = todo \ {j}
  /\ phase' = IF todo' = {} THEN "waiting" ELSE phase
  /\ UNCHANGED <<claims, passVars, asked, starts, counters>>

\* The loop is never entered; the agent goes on serving without a scheduler.
RegisterFails ==
  /\ phase = "registering" /\ Fault
  /\ phase' = "dead" /\ todo' = {}
  /\ UNCHANGED <<row, claims, passVars, asked, starts>>

-----------------------------------------------------------------------------
(* The loop.                                                               *)

FallDue(j) ==
  /\ row[j] = "later"
  /\ row' = [row EXCEPT ![j] = "due"]
  /\ starts' = [starts EXCEPT ![j] = 0]
  /\ UNCHANGED <<phase, todo, claims, passVars, asked, counters>>

DueJobs == {j \in Jobs : row[j] = "due"}

\* Mutant: a tick waits for the passes it has started.
TickInline ==
  /\ phase = "waiting" /\ DueJobs # {} /\ claims = {}
  /\ phase' = "ticking" /\ todo' = DueJobs
  /\ UNCHANGED <<row, claims, passVars, asked, starts, counters>>

\* tick reads the due jobs; an empty list, or a failed read, changes nothing.
Tick ==
  /\ phase = "waiting" /\ DueJobs # {}
  /\ phase' = "ticking" /\ todo' = DueJobs
  /\ UNCHANGED <<row, claims, passVars, asked, starts, counters>>

\* Mutant: the claim is not consulted.
ClaimIgnored(j) == TRUE

\* InFlight::claim: did the insert find the name absent.
Claim(j) == j \notin claims

\* One turn of tick's loop: start a pass, or leave the one that still runs.
Offer(j) ==
  /\ phase = "ticking" /\ j \in todo
  /\ todo' = todo \ {j}
  /\ phase' = IF todo' = {} THEN "waiting" ELSE phase
  /\ IF Claim(j)
     THEN /\ claims' = claims \cup {j}
          /\ running' = [running EXCEPT ![j] = @ + 1]
          /\ starts' = [starts EXCEPT ![j] = @ + 1]
     ELSE UNCHANGED <<claims, running, starts>>
  /\ UNCHANGED <<row, recording, releasing, asked, counters>>

-----------------------------------------------------------------------------
(* run_to_completion, in a task of its own.                                *)

\* run_job returns, with a summary or with an error.
PassEnds(j) ==
  /\ running[j] > 0
  /\ running' = [running EXCEPT ![j] = @ - 1]
  /\ recording' = [recording EXCEPT ![j] = @ + 1]
  /\ UNCHANGED <<row, phase, todo, claims, releasing, asked, starts, counters>>

\* The task unwinds: its claim is dropped and nothing is recorded.
PassPanics(j) ==
  /\ running[j] > 0 /\ Fault
  /\ running' = [running EXCEPT ![j] = @ - 1]
  /\ claims' = claims \ {j}
  /\ starts' = [starts EXCEPT ![j] = 0]
  /\ UNCHANGED <<row, phase, todo, recording, releasing, asked>>

\* Mutant: the outcome is recorded and the next run is not moved.
FinishJobKeepsSchedule(j) ==
  /\ recording[j] > 0
  /\ recording' = [recording EXCEPT ![j] = @ - 1]
  /\ releasing' = [releasing EXCEPT ![j] = @ + 1]
  /\ UNCHANGED <<row, phase, todo, claims, running, asked, starts, counters>>

\* finish_job moves next_run_at whatever the outcome; if it fails the job stays
\* due and a later tick runs it again.
FinishJob(j) ==
  /\ recording[j] > 0
  /\ recording' = [recording EXCEPT ![j] = @ - 1]
  /\ releasing' = [releasing EXCEPT ![j] = @ + 1]
  /\ \/ row' = [row EXCEPT ![j] = "later"] /\ UNCHANGED <<starts, counters>>
     \/ Fault /\ starts' = [starts EXCEPT ![j] = 0] /\ UNCHANGED row
  /\ UNCHANGED <<phase, todo, claims, running, asked>>

\* The guard goes out of scope.
DropClaim(j) ==
  /\ releasing[j] > 0
  /\ releasing' = [releasing EXCEPT ![j] = @ - 1]
  /\ claims' = claims \ {j}
  /\ UNCHANGED <<row, phase, todo, running, recording, asked, starts, counters>>

-----------------------------------------------------------------------------
(* Stopping.                                                               *)

AskStop ==
  /\ phase # "down" /\ ~asked /\ stops < MaxStops
  /\ asked' = TRUE /\ stops' = stops + 1
  /\ UNCHANGED <<row, phase, todo, claims, passVars, starts, crashes, faults>>

\* The process is gone, and every task in it.
Exit ==
  /\ phase' = "down" /\ todo' = {} /\ claims' = {} /\ asked' = FALSE
  /\ running' = Zero /\ recording' = Zero /\ releasing' = Zero /\ starts' = Zero
  /\ UNCHANGED row

\* select! notices the shutdown, between two ticks and nowhere else.
BeginDrain ==
  /\ phase = "waiting" /\ asked
  /\ phase' = "draining"
  /\ UNCHANGED <<row, todo, claims, passVars, asked, starts, counters>>

\* Mutant: the wait has no deadline.
DrainUnbounded == phase = "draining" /\ claims = {} /\ Exit /\ UNCHANGED counters

\* drain returns once nothing runs, or at its deadline; by then only passes that
\* outlast SHUTDOWN_DRAIN are left.
Drain == phase = "draining" /\ claims \subseteq Slow /\ Exit /\ UNCHANGED counters

\* main has nothing to wait for when the scheduler returned at its start.
StopDead == phase = "dead" /\ asked /\ Exit /\ UNCHANGED counters

Crash ==
  /\ phase # "down" /\ crashes < MaxCrashes
  /\ crashes' = crashes + 1
  /\ Exit /\ UNCHANGED <<stops, faults>>

-----------------------------------------------------------------------------
LoopStep == Start \/ Tick \/ \E j \in Jobs : Register(j) \/ Offer(j)

PassStep(j) == PassEnds(j) \/ FinishJob(j) \/ DropClaim(j)

Next ==
  \/ LoopStep \/ RegisterFails
  \/ \E j \in Jobs : PassStep(j) \/ PassPanics(j) \/ FallDue(j)
  \/ AskStop \/ BeginDrain \/ Drain \/ StopDead \/ Crash

Spec == Init /\ [][Next]_vars

\* The runtime polls every ready task, systemd starts the unit again, and the passes
\* that are not slow end (their commands have timeouts).  select! may prefer the ticker
\* over the shutdown when both are ready, but not for ever: hence SF on BeginDrain.
\* A slow pass may hang; its bookkeeping, once it ends, does not.
Fairness ==
  /\ WF_vars(LoopStep) /\ SF_vars(BeginDrain) /\ WF_vars(Drain) /\ WF_vars(StopDead)
  /\ \A j \in Jobs : WF_vars(FinishJob(j)) /\ WF_vars(DropClaim(j))
  /\ \A j \in Jobs \ Slow : WF_vars(PassEnds(j))

FairSpec == Spec /\ Fairness

-----------------------------------------------------------------------------
(* Properties.                                                             *)

Passes(j) == running[j] + recording[j] + releasing[j]

\* "each new pass racing the last over the same restic repository": a job never has
\* two passes, and the claim that prevents it is held exactly as long as the pass lives.
OnePassPerJob ==
  \A j \in Jobs : Passes(j) = IF j \in claims THEN 1 ELSE 0

DueStep == \A j \in Jobs : row[j] = "due" /\ row'[j] # "due" => recording[j] > 0

\* "A job that fell due while the agent was down comes back due rather than being
\* skipped": only the end of one of its passes moves a due job into the future.
DueUntilRun == [][DueStep]_vars

\* A pass that ends between a tick's read and its claim is started again although it
\* is no longer due; a tick offers a job once, so that happens at most once.
AtMostOneExtraPass == \A j \in Jobs : starts[j] <= 2

CutStep ==
  phase = "draining" /\ phase' = "down" /\ UNCHANGED crashes => \A j \in Jobs \ Slow : Passes(j) = 0

\* "a pass that ends must be waited for, not killed": a shutdown cuts short only
\* passes that outlast the budget.
OnlySlowPassesAreCut == [][CutStep]_vars

\* "one slow backup must not stop Sentinel": a due job that is not slow is run to its
\* end whatever the other passes do, unless the scheduler never got into its loop.
DueJobsRun ==
  \A j \in Jobs \ Slow : (row[j] = "due") ~> (row[j] = "later" \/ phase = "dead")

\* "The wait must be bounded: systemd SIGKILLs the agent if it is not": a shutdown ends
\* even while a slow pass hangs.
StopEnds == asked ~> (phase = "down")
=============================================================================
