------------------------------- MODULE Backups -------------------------------
(***************************************************************************)
(* Backups: administrators create and delete repositories and schedules,   *)
(* `backup.run` and the scheduler's pass take snapshots with restic, and   *)
(* retention prunes them.  Nothing serialises these: every database call   *)
(* and every restic call is an action.  The tables and the repositories    *)
(* survive the agent; calls and the pass do not.                           *)
(*                                                                         *)
(* A schedule's cron expression is what it does: every now and then a slot *)
(* comes, and it ages.  One pass runs at a time (OnePassPerJob of          *)
(* Scheduler).                                                             *)
(***************************************************************************)
EXTENDS Naturals

CONSTANTS
  Repos,       \* ids of backup_repos, never reused (AUTOINCREMENT)
  MaxScheds,   \* bound: rows of backup_schedules
  Scopes,      \* the panel and the subscriptions; each has its tag
  Callers,     \* backup.run tasks that may be in flight at once
  Pass,        \* the scheduler's pass
  None,
  MaxSlots,    \* bound: cron slots that come
  MaxManual,   \* bound: calls of backup.run
  MaxMishaps   \* bound: agent crashes and failed database calls

ASSUME BackupsAssumption ==
  /\ Pass \notin Callers /\ None \notin Repos \cup Scopes \cup Nat
  /\ MaxScheds \in Nat /\ MaxSlots \in Nat /\ MaxManual \in Nat /\ MaxMishaps \in Nat

Scheds == 1..MaxScheds
Procs  == Callers \cup {Pass}
\* Enough for every run the other bounds allow.
Runs   == 1..(MaxSlots + MaxManual + MaxMishaps)

VARIABLES
  \* --- SQLite ---------------------------------------------------------
  repo,      \* "none", "row", or "gone"
  sched,     \* "none", "on", "off" or "gone"
  plan,      \* repository and scope of a schedule
  run,       \* backup_runs.status, "none" before the row exists
  job,       \* its schedule_id, repository and scope
  \* --- restic ---------------------------------------------------------
  inited,    \* repositories `restic init` has created
  snaps,     \* snapshots of a repository, by the run that wrote them
  \* --- time -----------------------------------------------------------
  slot,      \* newest slot of a schedule: its age, and has a run started since
  \* --- agent memory ---------------------------------------------------
  initing,   \* repositories with a row, whose `restic init` has not returned
  deleting,  \* repositories backup.repo.delete found without runs
  pc,        \* where a run is
  want,      \* what it is to back up
  cur,       \* its row
  todo,      \* schedules the pass has read and not looked at yet
  seen,      \* the slots of those, as of the `now` of the pass
  \* --- what the properties observe ------------------------------------
  tries,     \* runs of a schedule since its newest slot
  slots, manual, mishaps

dbVars   == <<repo, sched, plan, run, job>>
memVars  == <<initing, deleting, pc, want, cur, todo, seen>>
obsVars  == <<tries, slots, manual, mishaps>>
vars     == <<dbVars, inited, snaps, slot, memVars, obsVars>>

Ages   == {"never", "fresh", "day", "old"}   \* up to 5 minutes, a day, more
Slots  == [age : Ages, served : {"yes", "no"}]
Plans  == [repo : Repos \cup {None}, scope : Scopes \cup {None}]
Jobs   == [sched : Scheds \cup {None}, repo : Repos \cup {None}, scope : Scopes \cup {None}]
Stages == {"idle", "next", "resolved", "doomed", "running", "wrote", "failed", "pruning",
           "forgetting"}
NoPlan == [repo |-> None, scope |-> None]
NoJob  == [sched |-> None, repo |-> None, scope |-> None]
NoSlot == [age |-> "never", served |-> "no"]

TypeOK ==
  /\ repo \in [Repos -> {"none", "row", "gone"}] /\ sched \in [Scheds -> {"none", "on", "off", "gone"}]
  /\ plan \in [Scheds -> Plans]
  /\ run \in [Runs -> {"none", "running", "ok", "failed"}] /\ job \in [Runs -> Jobs]
  /\ inited \in SUBSET Repos /\ snaps \in [Repos -> SUBSET Runs] /\ slot \in [Scheds -> Slots]
  /\ initing \in SUBSET Repos /\ deleting \in SUBSET Repos
  /\ pc \in [Procs -> Stages] /\ \A c \in Callers : pc[c] \notin {"next", "doomed"}
  /\ want \in [Procs -> Jobs] /\ cur \in [Procs -> Runs \cup {None}]
  /\ todo \in SUBSET Scheds /\ seen \in [Scheds -> Slots]
  /\ tries \in [Scheds -> Nat] /\ slots \in Nat /\ manual \in Nat /\ mishaps \in Nat

Init ==
  /\ repo = [k \in Repos |-> "none"] /\ sched = [s \in Scheds |-> "none"]
  /\ plan = [s \in Scheds |-> NoPlan]
  /\ run = [r \in Runs |-> "none"] /\ job = [r \in Runs |-> NoJob]
  /\ inited = {} /\ snaps = [k \in Repos |-> {}] /\ slot = [s \in Scheds |-> NoSlot]
  /\ initing = {} /\ deleting = {}
  /\ pc = [p \in Procs |-> "idle"] /\ want = [p \in Procs |-> NoJob]
  /\ cur = [p \in Procs |-> None] /\ todo = {} /\ seen = [s \in Scheds |-> NoSlot]
  /\ tries = [s \in Scheds |-> 0] /\ slots = 0 /\ manual = 0 /\ mishaps = 0

Mishap == mishaps < MaxMishaps /\ mishaps' = mishaps + 1
Goto(p, s) == pc' = [pc EXCEPT ![p] = s]

\* Mutant: backup.run goes on with a schedule.
OverNext(p) == "next"

\* Where a run goes when it is over: the pass has other schedules.
Over(p) == IF p = Pass THEN "next" ELSE "idle"

\* The run of p ends here; its locals are dropped.
Leave(p) ==
  /\ Goto(p, Over(p))
  /\ want' = [want EXCEPT ![p] = NoJob] /\ cur' = [cur EXCEPT ![p] = None]

HasRuns(k) == \E r \in Runs : run[r] # "none" /\ job[r].repo = k

-----------------------------------------------------------------------------
(* Repositories.                                                           *)

\* backup.repo.init: the row first.
CreateRepo(k) ==
  /\ repo[k] = "none"
  /\ repo' = [repo EXCEPT ![k] = "row"] /\ initing' = initing \cup {k}
  /\ UNCHANGED <<sched, plan, run, job, inited, snaps, slot, deleting, pc, want, cur, todo, seen,
                 obsVars>>

\* Mutant: the runs of a repository go with it.
DropRepoCascade(k) ==
  /\ repo' = [repo EXCEPT ![k] = "gone"]
  /\ sched' = [s \in Scheds |-> IF sched[s] # "none" /\ plan[s].repo = k THEN "gone" ELSE sched[s]]

\* delete_backup_repo: schedules cascade, runs restrict.
DropRepo(k) ==
  /\ ~HasRuns(k)
  /\ repo' = [repo EXCEPT ![k] = "gone"]
  /\ sched' = [s \in Scheds |-> IF sched[s] # "none" /\ plan[s].repo = k THEN "gone" ELSE sched[s]]

\* ... `restic init` second.  If it fails, having created the repository or not,
\* the row is deleted again, unless somebody has used it meanwhile.
InitRepo(k) ==
  /\ k \in initing /\ initing' = initing \ {k}
  /\ \/ inited' = inited \cup {k} /\ UNCHANGED <<repo, sched, mishaps>>
     \/ /\ inited' \in {inited, inited \cup {k}}
        /\ \/ repo[k] = "row" /\ DropRepo(k) /\ UNCHANGED mishaps
           \/ (repo[k] = "gone" \/ HasRuns(k)) /\ UNCHANGED <<repo, sched, mishaps>>
           \/ Mishap /\ UNCHANGED <<repo, sched>>
  /\ UNCHANGED <<plan, run, job, snaps, slot, deleting, pc, want, cur, todo, seen, tries, slots,
                 manual>>

\* backup.repo.delete asks for runs, so that the refusal names the reason ...
CheckRepo(k) ==
  /\ repo[k] = "row" /\ k \notin deleting /\ ~HasRuns(k)
  /\ deleting' = deleting \cup {k}
  /\ UNCHANGED <<dbVars, inited, snaps, slot, initing, pc, want, cur, todo, seen, obsVars>>

\* ... then deletes, which the schema may refuse.
DeleteRepo(k) ==
  /\ k \in deleting /\ deleting' = deleting \ {k}
  /\ \/ repo[k] = "row" /\ DropRepo(k)
     \/ (repo[k] = "gone" \/ HasRuns(k)) /\ UNCHANGED <<repo, sched>>
  /\ UNCHANGED <<plan, run, job, inited, snaps, slot, initing, pc, want, cur, todo, seen, obsVars>>

-----------------------------------------------------------------------------
(* Schedules and their slots.                                              *)

\* backup.schedule.set: always a new row.
ScheduleSet(s, k, sc) ==
  /\ sched[s] = "none" /\ \A t \in 1..(s - 1) : sched[t] # "none"
  /\ repo[k] = "row"
  /\ \E on \in {"on", "off"} : sched' = [sched EXCEPT ![s] = on]
  /\ plan' = [plan EXCEPT ![s] = [repo |-> k, scope |-> sc]]
  /\ UNCHANGED <<repo, run, job, inited, snaps, slot, memVars, obsVars>>

\* backup.schedule.delete: its runs keep their rows, without it.
ScheduleDelete(s) ==
  /\ sched[s] \in {"on", "off"}
  /\ sched' = [sched EXCEPT ![s] = "gone"]
  /\ job' = [r \in Runs |-> IF job[r].sched = s THEN [job[r] EXCEPT !.sched = None] ELSE job[r]]
  /\ slot' = [slot EXCEPT ![s] = NoSlot] /\ tries' = [tries EXCEPT ![s] = 0]
  /\ UNCHANGED <<repo, plan, run, inited, snaps, memVars, slots, manual, mishaps>>

\* A minute comes that the expression matches.  (Nothing enables a disabled schedule.)
Slot(s) ==
  /\ sched[s] = "on" /\ slots < MaxSlots
  /\ slot' = [slot EXCEPT ![s] = [age |-> "fresh", served |-> "no"]]
  /\ tries' = [tries EXCEPT ![s] = 0] /\ slots' = slots + 1
  /\ UNCHANGED <<dbVars, inited, snaps, memVars, manual, mishaps>>

\* Time passes.
Age(s) ==
  /\ sched[s] = "on"
  /\ \/ slot[s].age = "fresh" /\ slot' = [slot EXCEPT ![s].age = "day"]
     \/ slot[s].age = "day" /\ slot' = [slot EXCEPT ![s].age = "old"]
  /\ UNCHANGED <<dbVars, inited, snaps, memVars, obsVars>>

-----------------------------------------------------------------------------
(* scheduler_tick.                                                         *)

\* The clock and the enabled schedules are read once, at the start.  A pass that
\* finds no slot to look at changes nothing.
StartPass ==
  /\ pc[Pass] = "idle"
  /\ \E s \in Scheds : sched[s] = "on" /\ slot[s].age \in {"fresh", "day"}
  /\ todo' = {s \in Scheds : sched[s] = "on"} 
  /\ seen' = [s \in Scheds |-> IF sched[s] = "on" THEN slot[s] ELSE NoSlot]
  /\ Goto(Pass, "next")
  /\ UNCHANGED <<dbVars, inited, snaps, slot, initing, deleting, want, cur, obsVars>>

EverRan(s) == \E r \in Runs : run[r] # "none" /\ job[r].sched = s

\* Mutant: whether a run has started since is not looked at.
IsDueAgain(s) == seen[s].age = "fresh"

\* Mutant: nothing but the last minutes.
IsDueNow(s) == seen[s].served = "no" /\ seen[s].age = "fresh"

\* is_due: a slot since the last run, of the last day, or of the last five minutes
\* if there was none.
IsDue(s) ==
  /\ seen[s].served = "no"
  /\ seen[s].age \in (IF EverRan(s) THEN {"fresh", "day"} ELSE {"fresh"})

\* resolve_repo and ensure_restic, for the pass: a failure is to be recorded.
Open(k) ==
  \/ Goto(Pass, "doomed")
  \/ repo[k] = "row" /\ Goto(Pass, "resolved")

\* The schedules in the order of their ids.  An error of the last-run query counts as
\* never having run.
Consider(s) ==
  /\ pc[Pass] = "next" /\ s \in todo /\ \A t \in todo : s <= t
  /\ todo' = todo \ {s} /\ seen' = [seen EXCEPT ![s] = NoSlot]
  /\ \/ IsDue(s) /\ Open(plan[s].repo) /\ UNCHANGED mishaps
     \/ seen[s].age = "fresh" /\ Open(plan[s].repo) /\ Mishap
     \/ ~IsDue(s) /\ UNCHANGED <<pc, mishaps>>
  /\ want' = [want EXCEPT ![Pass] =
               IF pc' = pc THEN NoJob ELSE [sched |-> s, repo |-> plan[s].repo, scope |-> plan[s].scope]]
  /\ UNCHANGED <<dbVars, inited, snaps, slot, initing, deleting, cur, tries, slots, manual>>

EndPass ==
  /\ pc[Pass] = "next" /\ todo = {}
  /\ Goto(Pass, "idle")
  /\ UNCHANGED <<dbVars, inited, snaps, slot, initing, deleting, want, cur, todo, seen, obsVars>>

-----------------------------------------------------------------------------
(* run_backup, for the pass and for backup.run.                            *)

\* backup.run, up to resolve_repo and ensure_restic.
ManualRun(c, k, sc) ==
  /\ pc[c] = "idle" /\ manual < MaxManual /\ manual' = manual + 1
  /\ repo[k] = "row"
  /\ want' = [want EXCEPT ![c] = [sched |-> None, repo |-> k, scope |-> sc]]
  /\ Goto(c, "resolved")
  /\ UNCHANGED <<dbVars, inited, snaps, slot, initing, deleting, cur, todo, seen, tries, slots,
                 mishaps>>

\* The schedule and the repository a row would refer to exist.
KeysHold(w) == repo[w.repo] = "row" /\ (w.sched # None => sched[w.sched] \in {"on", "off"})

\* start_backup_run: the row exists before restic starts, or the run is off.  It leaves no
\* row either if backup-work cannot be made or restricted, the other half of the Mishap.
StartRun(p) ==
  LET w == want[p] IN
  /\ pc[p] \in {"resolved", "doomed"}
  /\ \/ /\ KeysHold(w)
        /\ \E r \in Runs :
             /\ run[r] = "none" /\ \A q \in 1..(r - 1) : run[q] # "none"
             /\ run' = [run EXCEPT ![r] = "running"] /\ job' = [job EXCEPT ![r] = w]
             /\ cur' = [cur EXCEPT ![p] = r]
        /\ slot' = [s \in Scheds |-> IF s = w.sched THEN [slot[s] EXCEPT !.served = "yes"] ELSE slot[s]]
        /\ tries' = [s \in Scheds |-> IF s = w.sched THEN tries[s] + 1 ELSE tries[s]]
        /\ Goto(p, IF pc[p] = "doomed" THEN "failed" ELSE "running")
        /\ UNCHANGED <<want, mishaps>>
     \/ ~KeysHold(w) /\ Leave(p) /\ UNCHANGED <<run, job, slot, tries, mishaps>>
     \/ Mishap /\ Leave(p) /\ UNCHANGED <<run, job, slot, tries>>
  /\ UNCHANGED <<repo, sched, plan, inited, snaps, initing, deleting, todo, seen, slots, manual>>

\* collect_and_back_up: restic writes a snapshot, all files read or not, or something
\* fails, after the snapshot if an old restic could not read a file.
BackUp(p) ==
  LET k == want[p].repo
      written == [snaps EXCEPT ![k] = @ \cup {cur[p]}] IN
  /\ pc[p] = "running"
  /\ \/ k \in inited /\ snaps' = written /\ Goto(p, "wrote")
     \/ snaps' \in (IF k \in inited THEN {snaps, written} ELSE {snaps}) /\ Goto(p, "failed")
  /\ UNCHANGED <<dbVars, inited, slot, initing, deleting, want, cur, todo, seen, obsVars>>

\* finish_backup_run.  An error is ignored after a failure, and ends the run before
\* retention after a success.
FinishRun(p) ==
  /\ pc[p] \in {"wrote", "failed"}
  /\ \/ /\ run' = [run EXCEPT ![cur[p]] = IF pc[p] = "wrote" THEN "ok" ELSE "failed"]
        /\ \/ pc[p] = "wrote" /\ Goto(p, "pruning") /\ UNCHANGED <<want, cur>>
           \/ pc[p] = "failed" /\ Leave(p)
        /\ UNCHANGED mishaps
     \/ Mishap /\ Leave(p) /\ UNCHANGED run
  /\ UNCHANGED <<repo, sched, plan, job, inited, snaps, slot, initing, deleting, todo, seen, tries,
                 slots, manual>>

\* Mutant: `forget` without --tag sees the snapshots of everybody.
TaggedAll(k, sc) == snaps[k]

Tagged(k, sc) == {r \in snaps[k] : job[r].scope = sc}

\* retention_for: prune goes by a schedule for this repository and scope.  Without one, or
\* if the query fails, nothing is pruned.
RetentionFor(p) ==
  LET covers(s) == sched[s] = "on" /\ plan[s] = [repo |-> want[p].repo, scope |-> want[p].scope] IN
  /\ pc[p] = "pruning"
  /\ \/ (\E s \in Scheds : covers(s)) /\ Goto(p, "forgetting") /\ UNCHANGED <<want, cur, mishaps>>
     \/ (\A s \in Scheds : ~covers(s)) /\ Leave(p) /\ UNCHANGED mishaps
     \/ Mishap /\ Leave(p)
  /\ UNCHANGED <<dbVars, inited, snaps, slot, initing, deleting, todo, seen, tries, slots, manual>>

\* restic forget under the policy that was read, which keeps the newest snapshot; a
\* failure changes nothing.
Prune(p) ==
  LET k == want[p].repo
      mine == Tagged(k, want[p].scope) IN
  /\ pc[p] = "forgetting" /\ Leave(p)
  /\ \/ \E D \in SUBSET mine : D # mine /\ snaps' = [snaps EXCEPT ![k] = @ \ D]
     \/ UNCHANGED snaps
  /\ UNCHANGED <<dbVars, inited, slot, initing, deleting, todo, seen, obsVars>>

RunStep(p) == StartRun(p) \/ BackUp(p) \/ FinishRun(p) \/ RetentionFor(p) \/ Prune(p)
PassStep == StartPass \/ (\E s \in Scheds : Consider(s)) \/ EndPass \/ RunStep(Pass)

\* The agent dies, restic with it, and starts again.  reconcile_interrupted_work looks
\* at tasks and components.
Crash ==
  /\ Mishap
  /\ pc' = [p \in Procs |-> "idle"] /\ todo' = {} /\ seen' = [s \in Scheds |-> NoSlot]
  /\ initing' = {} /\ deleting' = {}
  /\ want' = [p \in Procs |-> NoJob] /\ cur' = [p \in Procs |-> None]
  /\ UNCHANGED <<dbVars, inited, snaps, slot, tries, slots, manual>>

Next ==
  \/ \E k \in Repos : CreateRepo(k) \/ InitRepo(k) \/ CheckRepo(k) \/ DeleteRepo(k)
  \/ \E s \in Scheds : ScheduleDelete(s) \/ Slot(s) \/ Age(s)
  \/ \E s \in Scheds, k \in Repos, sc \in Scopes : ScheduleSet(s, k, sc)
  \/ \E c \in Callers : RunStep(c) \/ \E k \in Repos, sc \in Scopes : ManualRun(c, k, sc)
  \/ PassStep \/ Crash

Spec == Init /\ [][Next]_vars

\* The scheduler starts the pass every minute and restic's calls have timeouts.
Fairness == WF_vars(PassStep) /\ \A c \in Callers : WF_vars(RunStep(c))

FairSpec == Spec /\ Fairness

-----------------------------------------------------------------------------
(* Properties.                                                             *)

\* The history is "the panel's only record of which snapshots exist": whatever is created,
\* deleted, rolled back or cut short around a run, a repository that holds a snapshot is
\* known, and so is the run that wrote it.
SnapshotsAccounted ==
  \A k \in Repos : \A r \in snaps[k] : repo[k] = "row" /\ run[r] # "none" /\ job[r].repo = k

\* Without its tag, a tenant's policy "would be applied to the panel's snapshots as well and
\* would delete them": a scope with a successful run keeps a snapshot to restore, whatever
\* runs and prunes beside it.
ScopeRestorable ==
  \A r \in Runs : run[r] = "ok" => \E q \in snaps[job[r].repo] : job[q].scope = job[r].scope

\* "The due check exists to stop a schedule firing twice for one cron minute": a slot is run
\* once, also if that run failed or was cut short; a failed query may repeat it.
OneRunPerSlot == \A s \in Scheds : tries[s] <= 1 + mishaps

Waiting(s) ==
  /\ sched[s] = "on" /\ slot[s].served = "no"
  /\ slot[s].age \in (IF EverRan(s) THEN {"fresh", "day"} ELSE {"fresh"})

\* "Missing a nightly backup because the agent was updated at 03:00 is exactly the failure
\* this avoids": a slot in its window is run, or leaves the window while other runs last.
SlotServed == \A s \in Scheds : Waiting(s) ~> ~Waiting(s)

-----------------------------------------------------------------------------
(* What the code says of itself and TLC refutes.                           *)

\* reconcile_interrupted_work is to "give everything that was mid-flight when we died a
\* verdict"; a row `running` for good is what reconcile_backup_runs is for.
RunsSettle == \A r \in Runs : run[r] = "running" ~> run[r] # "running"
=============================================================================
