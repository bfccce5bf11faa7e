---------------------------- MODULE BackupsProofs ----------------------------
(***************************************************************************)
(* TLAPS proofs about backups, for any repositories, scopes, callers and   *)
(* bounds: the record of snapshots is complete, retention never empties a  *)
(* scope, and a slot is run once.                                          *)
(***************************************************************************)
EXTENDS Backups, TLAPS

-----------------------------------------------------------------------------
(* Inductive invariants.                                                   *)

\* A schedule that exists names a repository, and the pass looks at such schedules alone.
Planned ==
  \A s \in Scheds :
    /\ sched[s] # "none" => plan[s].repo \in Repos
    /\ s \in todo => sched[s] # "none"

\* A run under way knows its repository; only the pass runs for a schedule.
Wanting ==
  \A p \in Procs :
    /\ pc[p] \notin {"idle", "next"} => want[p].repo \in Repos
    /\ p # Pass => want[p].sched = None

\* From start_backup_run on a run has a row, which says what it backs up.
Recorded ==
  \A p \in Procs : pc[p] \in {"running", "wrote", "failed", "pruning", "forgetting"} =>
    /\ cur[p] \in Runs /\ run[cur[p]] # "none"
    /\ job[cur[p]].repo = want[p].repo /\ job[cur[p]].scope = want[p].scope

\* The row, the schedule and the process of a run agree.
RunInv == TypeOK /\ Planned /\ Wanting /\ Recorded

\* Every row refers to a repository that is there: the schema's foreign key.
KeysKept ==
  \A r \in Runs : run[r] # "none" => job[r].repo \in Repos /\ repo[job[r].repo] = "row"

\* The repository holds a snapshot of the scope.
Stocked(k, sc) == \E q \in snaps[k] : job[q].scope = sc

\* What restic reported written is there, before and after the row says so.
WroteStocked ==
  \A p \in Procs : pc[p] = "wrote" => Stocked(want[p].repo, want[p].scope)

\* An unserved slot has not been tried; what the pass read as unserved and has yet to
\* consider still is; a run about to start is of a schedule this pass is done with.
SlotInv ==
  /\ \A s \in Scheds : slot[s].served = "no" => tries[s] = 0
  /\ \A s \in todo : seen[s].served = "no" => slot[s].served = "no"
  /\ pc[Pass] \in {"resolved", "doomed"} =>
       want[Pass].sched \in Scheds /\ want[Pass].sched \notin todo /\ tries[want[Pass].sched] <= mishaps

-----------------------------------------------------------------------------
(* Type correctness, and the row of a run.                                 *)

\* The initial state: nothing exists and nothing runs.
LEMMA InitRunInv == Init => RunInv
  <1> SUFFICES ASSUME Init PROVE RunInv
    OBVIOUS
  <1>1. NoPlan \in Plans /\ NoJob \in Jobs /\ NoSlot \in Slots /\ "idle" \in Stages
    BY DEF NoPlan, NoJob, NoSlot, Plans, Jobs, Slots, Ages, Stages
  <1>2. /\ plan \in [Scheds -> Plans] /\ job \in [Runs -> Jobs] /\ want \in [Procs -> Jobs]
        /\ slot \in [Scheds -> Slots] /\ seen \in [Scheds -> Slots] /\ pc \in [Procs -> Stages]
    BY <1>1 DEF Init
  <1>3. TypeOK
    BY <1>2 DEF Init, TypeOK, Procs
  <1>4. Planned /\ Wanting /\ Recorded
    BY DEF Init, Planned, Wanting, Recorded, NoJob
  <1> QED BY <1>3, <1>4 DEF RunInv

\* A run that ends goes on with the next schedule or is over, and keeps nothing.
LEMMA LeaveTypes ==
  ASSUME RunInv, NEW p \in Procs, Leave(p)
  PROVE  /\ pc' \in [Procs -> Stages] /\ \A c \in Callers : pc'[c] \notin {"next", "doomed"}
         /\ want' \in [Procs -> Jobs] /\ cur' \in [Procs -> Runs \cup {None}]
         /\ \A q \in Procs \ {p} : pc'[q] = pc[q] /\ want'[q] = want[q] /\ cur'[q] = cur[q]
         /\ pc'[p] \in {"idle", "next"} /\ want'[p] = NoJob
  BY BackupsAssumption DEF RunInv, TypeOK, Leave, Goto, Over, NoJob, Jobs, Stages, Procs

\* A run that goes on does so by itself.
LEMMA GotoTypes ==
  ASSUME RunInv, NEW p \in Procs, NEW st \in Stages \ {"next", "doomed"}, Goto(p, st)
  PROVE  /\ pc' \in [Procs -> Stages] /\ \A c \in Callers : pc'[c] \notin {"next", "doomed"}
         /\ \A q \in Procs \ {p} : pc'[q] = pc[q]
         /\ pc'[p] = st
  BY DEF RunInv, TypeOK, Goto, Procs

\* A repository's row goes, and its schedules with it.
LEMMA DropTypes ==
  ASSUME TypeOK, NEW k \in Repos, DropRepo(k)
  PROVE  /\ repo' \in [Repos -> {"none", "row", "gone"}]
         /\ sched' \in [Scheds -> {"none", "on", "off", "gone"}]
         /\ \A s \in Scheds : sched'[s] = "none" <=> sched[s] = "none"
  BY DEF TypeOK, DropRepo

\* Every step keeps the types of the tables, the repositories and the memory.
LEMMA NextTypes == RunInv /\ [Next]_vars => TypeOK'
  <1> SUFFICES ASSUME RunInv, [Next]_vars PROVE TypeOK'
    OBVIOUS
  <1> USE DEF RunInv
  <1>1. ASSUME NEW k \in Repos, CreateRepo(k)
        PROVE  TypeOK'
    BY <1>1 DEF TypeOK, CreateRepo, obsVars
  <1>2. ASSUME NEW k \in Repos, InitRepo(k)
        PROVE  TypeOK'
    <2>1. repo' \in [Repos -> {"none", "row", "gone"}] /\ sched' \in [Scheds -> {"none", "on", "off", "gone"}]
      BY <1>2, DropTypes DEF InitRepo, TypeOK
    <2>2. inited' \in SUBSET Repos /\ mishaps' \in Nat
      BY <1>2 DEF InitRepo, Mishap, TypeOK
    <2> QED BY <1>2, <2>1, <2>2 DEF InitRepo, TypeOK
  <1>3. ASSUME NEW k \in Repos, CheckRepo(k)
        PROVE  TypeOK'
    BY <1>3 DEF TypeOK, CheckRepo, dbVars, obsVars
  <1>4. ASSUME NEW k \in Repos, DeleteRepo(k)
        PROVE  TypeOK'
    <2>1. repo' \in [Repos -> {"none", "row", "gone"}] /\ sched' \in [Scheds -> {"none", "on", "off", "gone"}]
      BY <1>4, DropTypes DEF DeleteRepo, TypeOK
    <2> QED BY <1>4, <2>1 DEF DeleteRepo, TypeOK, obsVars
  <1>5. ASSUME NEW s \in Scheds, ScheduleDelete(s)
        PROVE  TypeOK'
    <2>1. ASSUME NEW r \in Runs
          PROVE  [job[r] EXCEPT !.sched = None] \in Jobs
      <3>1. job[r] \in Jobs
        BY DEF TypeOK
      <3> QED BY <3>1 DEF Jobs
    <2>2. job' \in [Runs -> Jobs]
      BY <1>5, <2>1 DEF ScheduleDelete, TypeOK
    <2> QED BY <1>5, <2>2 DEF ScheduleDelete, TypeOK, NoSlot, Slots, Ages, memVars
  <1>6. ASSUME NEW s \in Scheds, Slot(s)
        PROVE  TypeOK'
    BY <1>6 DEF TypeOK, Slot, Slots, Ages, dbVars, memVars
  <1>7. ASSUME NEW s \in Scheds, Age(s)
        PROVE  TypeOK'
    <2>1. \A a \in Ages : [slot[s] EXCEPT !.age = a] \in Slots
      BY DEF TypeOK, Slots
    <2>2. \E a \in Ages : slot' = [slot EXCEPT ![s] = [slot[s] EXCEPT !.age = a]]
      BY <1>7 DEF Age, Ages
    <2>3. slot' \in [Scheds -> Slots]
      BY <2>1, <2>2 DEF TypeOK
    <2> QED BY <1>7, <2>3 DEF Age, TypeOK, dbVars, memVars, obsVars
  <1>8. ASSUME NEW s \in Scheds, NEW k \in Repos, NEW sc \in Scopes, ScheduleSet(s, k, sc)
        PROVE  TypeOK'
    BY <1>8 DEF TypeOK, ScheduleSet, Plans, memVars, obsVars
  <1>9. ASSUME NEW c \in Callers, NEW k \in Repos, NEW sc \in Scopes, ManualRun(c, k, sc)
        PROVE  TypeOK'
    BY <1>9 DEF TypeOK, ManualRun, Goto, Jobs, Stages, Procs, dbVars
  <1>10. ASSUME NEW p \in Procs, StartRun(p)
        PROVE  TypeOK'
    <2>1. want[p] \in Jobs /\ pc[p] \in Stages
      BY DEF TypeOK
    <2>2. CASE Leave(p) /\ UNCHANGED <<run, job, slot, tries>> /\ (UNCHANGED mishaps \/ Mishap)
      <3>1. mishaps' \in Nat
        BY <2>2 DEF Mishap, TypeOK
      <3> QED BY <1>10, <2>2, <3>1, LeaveTypes DEF StartRun, TypeOK
    <2>3. ASSUME NEW r \in Runs, run' = [run EXCEPT ![r] = "running"], job' = [job EXCEPT ![r] = want[p]],
                 cur' = [cur EXCEPT ![p] = r],
                 slot' = [s \in Scheds |-> IF s = want[p].sched THEN [slot[s] EXCEPT !.served = "yes"] ELSE slot[s]],
                 tries' = [s \in Scheds |-> IF s = want[p].sched THEN tries[s] + 1 ELSE tries[s]],
                 Goto(p, IF pc[p] = "doomed" THEN "failed" ELSE "running"), UNCHANGED <<want, mishaps>>
          PROVE  TypeOK'
      <3>1. /\ pc' \in [Procs -> Stages] /\ \A c \in Callers : pc'[c] \notin {"next", "doomed"}
        BY <2>3, GotoTypes DEF Stages
      <3>2. run' \in [Runs -> {"none", "running", "ok", "failed"}] /\ job' \in [Runs -> Jobs]
        BY <2>1, <2>3 DEF TypeOK
      <3>3. slot' \in [Scheds -> Slots]
        BY <2>3 DEF TypeOK, Slots
      <3>4. tries' \in [Scheds -> Nat] /\ cur' \in [Procs -> Runs \cup {None}]
        BY <2>3 DEF TypeOK
      <3> QED BY <1>10, <2>3, <3>1, <3>2, <3>3, <3>4 DEF StartRun, TypeOK
    <2> QED BY <1>10, <2>2, <2>3 DEF StartRun
  <1>11. ASSUME NEW p \in Procs, BackUp(p)
        PROVE  TypeOK'
    <2>1. cur[p] \in Runs /\ want[p].repo \in Repos
      BY <1>11 DEF BackUp, Recorded, Wanting
    <2>2. snaps' \in [Repos -> SUBSET Runs]
      BY <1>11, <2>1 DEF BackUp, TypeOK
    <2>3. /\ pc' \in [Procs -> Stages] /\ \A c \in Callers : pc'[c] \notin {"next", "doomed"}
      BY <1>11, GotoTypes DEF BackUp, Stages
    <2> QED BY <1>11, <2>2, <2>3 DEF BackUp, TypeOK, dbVars, obsVars
  <1>12. ASSUME NEW p \in Procs, FinishRun(p)
        PROVE  TypeOK'
    <2>1. run' \in [Runs -> {"none", "running", "ok", "failed"}] /\ mishaps' \in Nat
      BY <1>12 DEF FinishRun, Mishap, TypeOK
    <2>2. CASE Leave(p)
      BY <1>12, <2>1, <2>2, LeaveTypes DEF FinishRun, TypeOK
    <2>3. CASE Goto(p, "pruning") /\ UNCHANGED <<want, cur>>
      BY <1>12, <2>1, <2>3, GotoTypes DEF FinishRun, TypeOK, Stages
    <2> QED BY <1>12, <2>2, <2>3 DEF FinishRun
  <1>13. ASSUME NEW p \in Procs, Prune(p)
        PROVE  TypeOK'
    <2>1. want[p].repo \in Repos
      BY <1>13 DEF Prune, Wanting
    <2>2. snaps' \in [Repos -> SUBSET Runs]
      BY <1>13, <2>1 DEF Prune, TypeOK
    <2> QED BY <1>13, <2>2, LeaveTypes DEF Prune, TypeOK, dbVars, obsVars
  <1>13a. ASSUME NEW p \in Procs, RetentionFor(p)
        PROVE  TypeOK'
    <2>1. mishaps' \in Nat
      BY <1>13a DEF RetentionFor, Mishap, TypeOK
    <2>2. CASE Leave(p)
      BY <1>13a, <2>1, <2>2, LeaveTypes DEF RetentionFor, TypeOK, dbVars
    <2>3. CASE Goto(p, "forgetting") /\ UNCHANGED <<want, cur>>
      BY <1>13a, <2>1, <2>3, GotoTypes DEF RetentionFor, TypeOK, Stages, dbVars
    <2> QED BY <1>13a, <2>2, <2>3 DEF RetentionFor
  <1>14. CASE StartPass
    <2>1. seen' \in [Scheds -> Slots]
      BY <1>14 DEF StartPass, TypeOK, NoSlot, Slots, Ages
    <2> QED BY <1>14, <2>1, BackupsAssumption DEF StartPass, Goto, TypeOK, Stages, Procs, dbVars, obsVars
  <1>15. ASSUME NEW s \in Scheds, Consider(s)
        PROVE  TypeOK'
    <2>1. want' \in [Procs -> Jobs]
      BY <1>15 DEF Consider, TypeOK, NoJob, Jobs, Plans
    <2>2. seen' \in [Scheds -> Slots] /\ mishaps' \in Nat
      BY <1>15 DEF Consider, Mishap, TypeOK, NoSlot, Slots, Ages
    <2>3. /\ pc' \in [Procs -> Stages] /\ \A c \in Callers : pc'[c] \notin {"next", "doomed"}
      BY <1>15, BackupsAssumption DEF Consider, Open, Goto, TypeOK, Stages, Procs
    <2> QED BY <1>15, <2>1, <2>2, <2>3 DEF Consider, TypeOK, dbVars
  <1>16. CASE EndPass
    BY <1>16, BackupsAssumption DEF EndPass, Goto, TypeOK, Stages, Procs, dbVars, obsVars
  <1>17. CASE Crash
    BY <1>17 DEF Crash, Mishap, TypeOK, NoSlot, Slots, Ages, NoJob, Jobs, Stages, Procs, dbVars
  <1>18. CASE UNCHANGED vars
    BY <1>18 DEF TypeOK, vars, dbVars, memVars, obsVars
  <1> QED
    BY <1>1, <1>2, <1>3, <1>4, <1>5, <1>6, <1>7, <1>8, <1>9, <1>10, <1>11, <1>12, <1>13, <1>14, <1>15, <1>16, <1>17, <1>18,
       <1>13a DEF Next, RunStep, PassStep, Procs

\* Rows are only added and closed: backup_runs keeps what a run was about.
LEMMA RowsStay ==
  ASSUME TypeOK, [Next]_vars, NEW r \in Runs, run[r] # "none"
  PROVE  run'[r] # "none" /\ job'[r].repo = job[r].repo /\ job'[r].scope = job[r].scope
  <1>1. ASSUME NEW s \in Scheds, ScheduleDelete(s)
        PROVE  run'[r] # "none" /\ job'[r].repo = job[r].repo /\ job'[r].scope = job[r].scope
    BY <1>1 DEF ScheduleDelete, TypeOK, Jobs
  <1>2. ASSUME NEW p \in Procs, StartRun(p)
        PROVE  run'[r] # "none" /\ job'[r].repo = job[r].repo /\ job'[r].scope = job[r].scope
    BY <1>2 DEF StartRun, TypeOK
  <1>3. ASSUME NEW p \in Procs, FinishRun(p)
        PROVE  run'[r] # "none" /\ job'[r].repo = job[r].repo /\ job'[r].scope = job[r].scope
    BY <1>3 DEF FinishRun, TypeOK
  <1>4. CASE UNCHANGED <<run, job>>
    BY <1>4
  <1> QED
    BY <1>1, <1>2, <1>3, <1>4
    DEF Next, RunStep, PassStep, Procs, CreateRepo, InitRepo, CheckRepo, DeleteRepo, Slot, Age,
        ScheduleSet, ManualRun, BackUp, RetentionFor, Prune, StartPass, Consider, EndPass, Crash, vars, dbVars

\* A call or a pass that does not move keeps its row.
LEMMA StandStill ==
  ASSUME RunInv, [Next]_vars, NEW p \in Procs,
         pc'[p] = pc[p], want'[p] = want[p], cur'[p] = cur[p]
  PROVE  /\ pc'[p] \notin {"idle", "next"} => want'[p].repo \in Repos
         /\ p # Pass => want'[p].sched = None
         /\ pc'[p] \in {"running", "wrote", "failed", "pruning", "forgetting"} =>
              /\ cur'[p] \in Runs /\ run'[cur'[p]] # "none"
              /\ job'[cur'[p]].repo = want'[p].repo /\ job'[cur'[p]].scope = want'[p].scope
  <1>1. CASE pc[p] \in {"running", "wrote", "failed", "pruning", "forgetting"}
    <2>1. PICK r \in Runs : r = cur[p]
      BY <1>1 DEF RunInv, Recorded
    <2>2. /\ run[r] # "none" /\ job[r].repo = want[p].repo /\ job[r].scope = want[p].scope
      BY <1>1, <2>1 DEF RunInv, Recorded
    <2>3. run'[r] # "none" /\ job'[r].repo = job[r].repo /\ job'[r].scope = job[r].scope
      BY <2>2, RowsStay DEF RunInv
    <2> QED BY <2>1, <2>2, <2>3 DEF RunInv, Wanting
  <1>2. CASE pc[p] \notin {"running", "wrote", "failed", "pruning", "forgetting"}
    BY <1>2 DEF RunInv, Wanting
  <1> QED BY <1>1, <1>2

\* A schedule keeps its row, on or gone, and its plan: the pass may rely on what it read.
LEMMA NextPlanned == RunInv /\ [Next]_vars => Planned'
  <1> SUFFICES ASSUME RunInv, [Next]_vars PROVE Planned'
    OBVIOUS
  <1> USE DEF RunInv, Planned
  <1>1. ASSUME NEW k \in Repos, InitRepo(k) \/ DeleteRepo(k)
        PROVE  Planned'
    <2>1. \A s \in Scheds : sched'[s] = "none" <=> sched[s] = "none"
      BY <1>1, DropTypes DEF InitRepo, DeleteRepo
    <2> QED BY <1>1, <2>1 DEF InitRepo, DeleteRepo
  <1>2. ASSUME NEW s \in Scheds, NEW k \in Repos, NEW sc \in Scopes, ScheduleSet(s, k, sc)
        PROVE  Planned'
    BY <1>2 DEF ScheduleSet, memVars, TypeOK
  <1>3. ASSUME NEW s \in Scheds, ScheduleDelete(s)
        PROVE  Planned'
    BY <1>3 DEF ScheduleDelete, memVars, TypeOK
  <1>4. CASE StartPass
    BY <1>4 DEF StartPass, dbVars
  <1>5. CASE Crash \/ \E s \in Scheds : Consider(s)
    BY <1>5 DEF Crash, Consider, dbVars
  <1>6. CASE UNCHANGED <<sched, plan, todo>>
    BY <1>6
  <1> QED
    BY <1>1, <1>2, <1>3, <1>4, <1>5, <1>6
    DEF Next, RunStep, PassStep, CreateRepo, CheckRepo, Slot, Age, ManualRun, StartRun, BackUp,
        FinishRun, RetentionFor, Prune, EndPass, vars, dbVars, memVars

\* Every step keeps the rows of the runs under way.
LEMMA NextRunInv == RunInv /\ [Next]_vars => RunInv'
  <1> SUFFICES ASSUME RunInv, [Next]_vars PROVE (Wanting /\ Recorded)'
    BY NextTypes, NextPlanned DEF RunInv
  <1>t. /\ pc \in [Procs -> Stages] /\ DOMAIN want = Procs /\ DOMAIN cur = Procs
    BY DEF RunInv, TypeOK
  <1> DEFINE Kept(p) ==
        /\ pc'[p] \notin {"idle", "next"} => want'[p].repo \in Repos
        /\ p # Pass => want'[p].sched = None
        /\ pc'[p] \in {"running", "wrote", "failed", "pruning", "forgetting"} =>
             /\ cur'[p] \in Runs /\ run'[cur'[p]] # "none"
             /\ job'[cur'[p]].repo = want'[p].repo /\ job'[cur'[p]].scope = want'[p].scope
  <1> SUFFICES \A p \in Procs : Kept(p)
    BY DEF Wanting, Recorded
  <1>s. \A q \in Procs : pc'[q] = pc[q] /\ want'[q] = want[q] /\ cur'[q] = cur[q] => Kept(q)
    BY StandStill
  <1>e. \A q \in Procs : pc'[q] \in {"idle", "next"} /\ want'[q] = NoJob => Kept(q)
    BY DEF NoJob
  <1> HIDE DEF Kept
  <1>l. ASSUME NEW p \in Procs, Leave(p)
        PROVE  \A q \in Procs : Kept(q)
    BY <1>l, <1>s, <1>e, LeaveTypes
  <1>1. ASSUME NEW c \in Callers, NEW k \in Repos, NEW sc \in Scopes, ManualRun(c, k, sc)
        PROVE  \A q \in Procs : Kept(q)
    <2>1. Kept(c)
      BY <1>1, <1>t DEF ManualRun, Goto, Procs, Kept
    <2>2. \A q \in Procs \ {c} : Kept(q)
      BY <1>1, <1>t, <1>s DEF ManualRun, Goto, Procs
    <2> QED BY <2>1, <2>2
  <1>2. ASSUME NEW p \in Procs, StartRun(p)
        PROVE  \A q \in Procs : Kept(q)
    <2>1. CASE ~Leave(p)
      <3>1. Kept(p)
        <4>1. PICK r \in Runs : /\ run' = [run EXCEPT ![r] = "running"]
                                /\ job' = [job EXCEPT ![r] = want[p]]
                                /\ cur' = [cur EXCEPT ![p] = r]
          BY <1>2, <2>1 DEF StartRun
        <4>2. cur'[p] = r /\ run'[r] = "running" /\ job'[r] = want[p] /\ want'[p] = want[p]
          BY <1>2, <1>t, <2>1, <4>1 DEF StartRun, RunInv, TypeOK
        <4>3. want[p].repo \in Repos /\ (p # Pass => want[p].sched = None)
          BY <1>2 DEF StartRun, RunInv, Wanting
        <4> QED BY <4>2, <4>3 DEF Kept
      <3>2. \A q \in Procs \ {p} : Kept(q)
        BY <1>2, <1>t, <1>s, <2>1 DEF StartRun, Goto
      <3> QED BY <3>1, <3>2
    <2> QED BY <1>l, <2>1
  <1>3. ASSUME NEW p \in Procs, NEW st \in Stages, Goto(p, st), UNCHANGED <<want, cur>>,
               pc[p] \in {"running", "wrote", "pruning"}
        PROVE  \A q \in Procs : Kept(q)
    <2>1. Kept(p)
      <3>1. PICK r \in Runs : r = cur[p]
        BY <1>3 DEF RunInv, Recorded
      <3>2. /\ run[r] # "none" /\ job[r].repo = want[p].repo /\ job[r].scope = want[p].scope
        BY <1>3, <3>1 DEF RunInv, Recorded
      <3>3. run'[r] # "none" /\ job'[r].repo = job[r].repo /\ job'[r].scope = job[r].scope
        BY <3>2, RowsStay DEF RunInv
      <3>4. want[p].repo \in Repos /\ (p # Pass => want[p].sched = None)
        BY <1>3 DEF RunInv, Wanting
      <3> QED BY <1>3, <3>1, <3>2, <3>3, <3>4 DEF Kept
    <2>2. \A q \in Procs \ {p} : Kept(q)
      BY <1>3, <1>t, <1>s DEF Goto
    <2> QED BY <2>1, <2>2
  <1>4. ASSUME NEW p \in Procs, BackUp(p) \/ FinishRun(p) \/ RetentionFor(p)
        PROVE  \A q \in Procs : Kept(q)
    BY <1>4, <1>3, <1>l DEF BackUp, FinishRun, RetentionFor, Stages
  <1>5. ASSUME NEW s \in Scheds, Consider(s)
        PROVE  \A q \in Procs : Kept(q)
    <2>1. Pass \in Procs /\ pc[Pass] = "next" /\ plan[s].repo \in Repos
      BY <1>5 DEF Consider, RunInv, Planned, Procs
    <2>2. Kept(Pass)
      <3>1. CASE pc' = pc
        BY <1>5, <1>t, <1>e, <2>1, <3>1 DEF Consider
      <3>2. CASE pc' # pc
        <4>1. want'[Pass] = [sched |-> s, repo |-> plan[s].repo, scope |-> plan[s].scope]
          BY <1>5, <1>t, <2>1, <3>2 DEF Consider
        <4>2. pc'[Pass] \in {"doomed", "resolved"}
          BY <1>5, <1>t, <2>1, <3>2 DEF Consider, Open, Goto
        <4> QED BY <2>1, <4>1, <4>2 DEF Kept
      <3> QED BY <3>1, <3>2
    <2>3. \A q \in Procs \ {Pass} : Kept(q)
      BY <1>5, <1>t, <1>s DEF Consider, Open, Goto
    <2> QED BY <2>2, <2>3
  <1>6. CASE StartPass \/ EndPass
    <2>1. Kept(Pass)
      <3>1. Pass \in Procs /\ pc'[Pass] \in {"idle", "next"}
        BY <1>6, <1>t DEF StartPass, EndPass, Goto, Procs
      <3> QED BY <3>1 DEF Kept
    <2>2. \A q \in Procs \ {Pass} : Kept(q)
      BY <1>6, <1>t, <1>s DEF StartPass, EndPass, Goto
    <2> QED BY <2>1, <2>2
  <1>7. CASE Crash
    BY <1>7, <1>e DEF Crash
  <1>8. CASE UNCHANGED <<pc, want, cur>>
    BY <1>8, <1>s
  <1>9. ASSUME NEW p \in Procs, Prune(p)
        PROVE  \A q \in Procs : Kept(q)
    BY <1>9, <1>l DEF Prune
  <1> QED
    BY <1>1, <1>2, <1>4, <1>5, <1>6, <1>7, <1>8, <1>9
    DEF Next, RunStep, PassStep, Procs, CreateRepo, InitRepo, CheckRepo, DeleteRepo, ScheduleDelete,
        Slot, Age, ScheduleSet, vars, memVars

\* Every variable keeps its type: a snapshot is known by the run that wrote it, a run under
\* way has a row, and backup.run never finds itself in the middle of a pass.
THEOREM TypeCorrect == Spec => []TypeOK
  <1>1. RunInv => TypeOK
    BY DEF RunInv
  <1> QED BY <1>1, InitRunInv, NextRunInv, PTL DEF Spec

-----------------------------------------------------------------------------
(* The record of what exists.                                              *)

\* The schema refuses to delete a repository that a row refers to, whatever the check before
\* the delete or the failed `restic init` had seen.
LEMMA RepoStays ==
  ASSUME TypeOK, [Next]_vars, NEW k \in Repos, repo[k] = "row", HasRuns(k)
  PROVE  repo'[k] = "row"
  <1>1. ASSUME NEW j \in Repos, CreateRepo(j)
        PROVE  repo'[k] = "row"
    BY <1>1 DEF CreateRepo, TypeOK
  <1>2. ASSUME NEW j \in Repos, InitRepo(j) \/ DeleteRepo(j)
        PROVE  repo'[k] = "row"
    BY <1>2 DEF InitRepo, DeleteRepo, DropRepo, TypeOK
  <1>3. CASE UNCHANGED repo
    BY <1>3
  <1> QED
    BY <1>1, <1>2, <1>3
    DEF Next, RunStep, PassStep, CheckRepo, ScheduleDelete, Slot, Age, ScheduleSet, ManualRun,
        StartRun, BackUp, FinishRun, RetentionFor, Prune, StartPass, Consider, EndPass, Crash, vars, dbVars

\* A snapshot appears only where a run that has its row writes.
LEMMA WhoWrites ==
  ASSUME TypeOK, [Next]_vars, NEW k \in Repos, NEW r \in snaps'[k], r \notin snaps[k]
  PROVE  \E p \in Procs : pc[p] = "running" /\ r = cur[p] /\ k = want[p].repo
  <1>1. ASSUME NEW p \in Procs, BackUp(p)
        PROVE  pc[p] = "running" /\ r = cur[p] /\ k = want[p].repo
    BY <1>1 DEF BackUp, TypeOK
  <1>2. ASSUME NEW p \in Procs, Prune(p)
        PROVE  FALSE
    BY <1>2 DEF Prune, TypeOK
  <1>3. snaps' # snaps
    OBVIOUS
  <1> QED
    BY <1>1, <1>2, <1>3
    DEF Next, RunStep, PassStep, Procs, CreateRepo, InitRepo, CheckRepo, DeleteRepo, ScheduleDelete,
        Slot, Age, ScheduleSet, ManualRun, StartRun, FinishRun, RetentionFor, StartPass, Consider, EndPass,
        Crash, vars

\* A row appears only for a repository that is there.
LEMMA WhoRecords ==
  ASSUME TypeOK, [Next]_vars, NEW r \in Runs, run[r] = "none", run'[r] # "none"
  PROVE  \/ \E p \in Procs :
              /\ pc[p] \in {"resolved", "doomed"} /\ repo[want[p].repo] = "row"
              /\ run'[r] = "running" /\ job'[r] = want[p] /\ repo' = repo
         \/ \E p \in Procs : pc[p] \in {"wrote", "failed"} /\ r = cur[p]
  <1>1. ASSUME NEW p \in Procs, StartRun(p)
        PROVE  /\ pc[p] \in {"resolved", "doomed"} /\ repo[want[p].repo] = "row"
               /\ run'[r] = "running" /\ job'[r] = want[p] /\ repo' = repo
    BY <1>1 DEF StartRun, KeysHold, TypeOK
  <1>2. ASSUME NEW p \in Procs, FinishRun(p)
        PROVE  pc[p] \in {"wrote", "failed"} /\ r = cur[p]
    BY <1>2 DEF FinishRun, TypeOK
  <1>3. run' # run
    OBVIOUS
  <1> QED
    BY <1>1, <1>2, <1>3
    DEF Next, RunStep, PassStep, Procs, CreateRepo, InitRepo, CheckRepo, DeleteRepo, ScheduleDelete,
        Slot, Age, ScheduleSet, ManualRun, BackUp, RetentionFor, Prune, StartPass, Consider, EndPass, Crash,
        vars, dbVars

\* Every step keeps the foreign keys and the record of snapshots.
LEMMA NextAccounted ==
  ASSUME RunInv, KeysKept, SnapshotsAccounted, [Next]_vars
  PROVE  KeysKept' /\ SnapshotsAccounted'
  <1>0. TypeOK /\ Wanting /\ Recorded /\ RunInv'
    BY NextRunInv DEF RunInv
  <1>1. ASSUME NEW r \in Runs, run[r] # "none"
        PROVE  /\ run'[r] # "none" /\ job'[r].repo = job[r].repo
               /\ job[r].repo \in Repos /\ repo'[job[r].repo] = "row"
    <2>1. job[r].repo \in Repos /\ repo[job[r].repo] = "row" /\ HasRuns(job[r].repo)
      BY <1>1 DEF KeysKept, HasRuns
    <2> QED BY <1>0, <1>1, <2>1, RepoStays, RowsStay
  <1>2. ASSUME NEW r \in Runs, run[r] = "none", run'[r] # "none"
        PROVE  job'[r].repo \in Repos /\ repo'[job'[r].repo] = "row"
    <2>1. PICK p \in Procs : \/ /\ pc[p] \in {"resolved", "doomed"} /\ repo[want[p].repo] = "row"
                                /\ run'[r] = "running" /\ job'[r] = want[p] /\ repo' = repo
                             \/ pc[p] \in {"wrote", "failed"} /\ r = cur[p]
      BY <1>0, <1>2, WhoRecords
    <2>2. pc[p] \in {"resolved", "doomed"} => want[p].repo \in Repos
      BY <1>0 DEF Wanting
    <2>3. ~(pc[p] \in {"wrote", "failed"} /\ r = cur[p])
      BY <1>0, <1>2 DEF Recorded
    <2> QED BY <2>1, <2>2, <2>3
  <1>3. KeysKept'
    BY <1>1, <1>2 DEF KeysKept
  <1>4. ASSUME NEW k \in Repos, NEW r \in snaps'[k]
        PROVE  repo'[k] = "row" /\ run'[r] # "none" /\ job'[r].repo = k
    <2>1. CASE r \in snaps[k]
      <3>1. r \in Runs /\ run[r] # "none" /\ job[r].repo = k
        BY <1>0, <2>1 DEF SnapshotsAccounted, TypeOK
      <3> QED BY <1>1, <3>1
    <2>2. CASE r \notin snaps[k]
      <3>1. PICK p \in Procs : pc[p] = "running" /\ r = cur[p] /\ k = want[p].repo
        BY <1>0, <2>2, WhoWrites
      <3>2. r \in Runs /\ run[r] # "none" /\ job[r].repo = k
        BY <1>0, <3>1 DEF Recorded
      <3> QED BY <1>1, <3>2
    <2> QED BY <2>1, <2>2
  <1> QED BY <1>3, <1>4 DEF SnapshotsAccounted

\* backup.rs: the history is "the panel's only record of which snapshots exist".  No
\* delete, roll-back, crash or failed write around a run leaves a snapshot nobody knows of.
THEOREM Accounted == Spec => []SnapshotsAccounted
  <1>1. Init => KeysKept /\ SnapshotsAccounted
    BY DEF Init, KeysKept, SnapshotsAccounted
  <1>2. RunInv /\ KeysKept /\ SnapshotsAccounted /\ [Next]_vars
          => RunInv' /\ KeysKept' /\ SnapshotsAccounted'
    BY NextRunInv, NextAccounted
  <1> QED BY <1>1, <1>2, InitRunInv, PTL DEF Spec

-----------------------------------------------------------------------------
(* Retention.                                                              *)

\* A scope that has a snapshot keeps one: a policy is applied to one tag and leaves its
\* newest, and nothing else removes snapshots.
LEMMA StockKept ==
  ASSUME RunInv, SnapshotsAccounted, [Next]_vars, NEW k \in Repos, NEW sc, Stocked(k, sc)
  PROVE  Stocked(k, sc)'
  <1>0. TypeOK
    BY DEF RunInv
  <1>1. PICK q \in snaps[k] : job[q].scope = sc
    BY DEF Stocked
  <1>2. ASSUME NEW r \in snaps[k]
        PROVE  job'[r].scope = job[r].scope
    <2>1. r \in Runs /\ run[r] # "none"
      BY <1>0 DEF TypeOK, SnapshotsAccounted
    <2> QED BY <1>0, <2>1, RowsStay
  <1>3. CASE snaps[k] \subseteq snaps'[k]
    BY <1>1, <1>2, <1>3 DEF Stocked
  <1>4. ASSUME NEW p \in Procs, Prune(p)
        PROVE  Stocked(k, sc)'
    <2> DEFINE j == want[p].repo
               mine == Tagged(j, want[p].scope)
    <2>1. CASE UNCHANGED snaps
      BY <1>3, <2>1
    <2>2. ASSUME NEW D \in SUBSET mine, D # mine, snaps' = [snaps EXCEPT ![j] = @ \ D]
          PROVE  Stocked(k, sc)'
      <3>1. CASE j # k
        BY <1>0, <1>3, <2>2, <3>1 DEF TypeOK
      <3>2. CASE j = k
        <4>1. snaps'[k] = snaps[k] \ D
          BY <1>0, <2>2, <3>2 DEF TypeOK
        <4>2. CASE q \notin D
          BY <1>1, <1>2, <4>1, <4>2 DEF Stocked
        <4>3. CASE q \in D
          <5>1. PICK x \in mine : x \notin D
            BY <2>2
          <5>2. x \in snaps[k] /\ job[x].scope = sc
            BY <1>1, <2>2, <3>2, <4>3, <5>1 DEF Tagged
          <5> QED BY <1>2, <4>1, <5>1, <5>2 DEF Stocked
        <4> QED BY <4>2, <4>3
      <3> QED BY <3>1, <3>2
    <2> QED BY <1>4, <2>1, <2>2 DEF Prune
  <1>5. ASSUME NEW p \in Procs, BackUp(p)
        PROVE  snaps[k] \subseteq snaps'[k]
    BY <1>0, <1>5 DEF BackUp, TypeOK
  <1>6. CASE UNCHANGED snaps
    BY <1>3, <1>6
  <1> QED
    BY <1>3, <1>4, <1>5, <1>6
    DEF Next, RunStep, PassStep, Procs, CreateRepo, InitRepo, CheckRepo, DeleteRepo, ScheduleDelete,
        Slot, Age, ScheduleSet, ManualRun, StartRun, FinishRun, RetentionFor, StartPass, Consider, EndPass,
        Crash, vars

\* A run is in the stage after restic's success only by its own backup.
LEMMA WhoWrote ==
  ASSUME TypeOK, [Next]_vars, NEW p \in Procs, pc[p] # "wrote", pc'[p] = "wrote"
  PROVE  BackUp(p) /\ UNCHANGED <<job, want>> /\ snaps' = [snaps EXCEPT ![want[p].repo] = @ \cup {cur[p]}]
  <1>t. pc \in [Procs -> Stages]
    BY DEF TypeOK
  <1>1. ASSUME NEW q \in Procs, StartRun(q) \/ FinishRun(q) \/ RetentionFor(q) \/ Prune(q)
        PROVE  FALSE
    BY <1>1, <1>t DEF StartRun, FinishRun, RetentionFor, Prune, Leave, Goto, Over
  <1>2. ASSUME NEW q \in Procs, BackUp(q)
        PROVE  BackUp(p) /\ snaps' = [snaps EXCEPT ![want[p].repo] = @ \cup {cur[p]}]
    BY <1>2, <1>t DEF BackUp, Goto
  <1>3. ASSUME NEW c \in Callers, NEW k \in Repos, NEW sc \in Scopes, ManualRun(c, k, sc)
        PROVE  FALSE
    BY <1>3, <1>t DEF ManualRun, Goto
  <1>4. ASSUME NEW s \in Scheds, Consider(s)
        PROVE  FALSE
    BY <1>4, <1>t DEF Consider, Open, Goto
  <1>5. CASE StartPass \/ EndPass \/ Crash
    BY <1>5, <1>t DEF StartPass, EndPass, Crash, Goto
  <1>6. pc' # pc
    OBVIOUS
  <1>7. BackUp(p) /\ snaps' = [snaps EXCEPT ![want[p].repo] = @ \cup {cur[p]}]
    BY <1>1, <1>2, <1>3, <1>4, <1>5, <1>6
    DEF Next, RunStep, PassStep, Procs, CreateRepo, InitRepo, CheckRepo, DeleteRepo, ScheduleDelete,
        Slot, Age, ScheduleSet, vars, memVars
  <1> QED BY <1>7 DEF BackUp, dbVars

\* While restic's success waits for its row, nothing else is put in its place.
LEMMA StillWrote ==
  ASSUME TypeOK, [Next]_vars, NEW p \in Procs, pc[p] = "wrote", pc'[p] = "wrote"
  PROVE  want'[p] = want[p]
  <1>t. pc \in [Procs -> Stages] /\ DOMAIN want = Procs
    BY DEF TypeOK
  <1>1. ASSUME NEW q \in Procs, StartRun(q) \/ FinishRun(q) \/ RetentionFor(q) \/ Prune(q)
        PROVE  want'[p] = want[p]
    BY <1>1, <1>t DEF StartRun, FinishRun, RetentionFor, Prune, Leave, Goto, Over
  <1>2. ASSUME NEW c \in Callers, NEW k \in Repos, NEW sc \in Scopes, ManualRun(c, k, sc)
        PROVE  want'[p] = want[p]
    BY <1>2, <1>t DEF ManualRun, Goto
  <1>3. ASSUME NEW s \in Scheds, Consider(s)
        PROVE  want'[p] = want[p]
    BY <1>3, <1>t DEF Consider
  <1>4. CASE Crash
    BY <1>4, <1>t DEF Crash
  <1>5. CASE UNCHANGED want
    BY <1>5
  <1> QED
    BY <1>1, <1>2, <1>3, <1>4, <1>5
    DEF Next, RunStep, PassStep, Procs, CreateRepo, InitRepo, CheckRepo, DeleteRepo, ScheduleDelete,
        Slot, Age, ScheduleSet, BackUp, StartPass, EndPass, vars, memVars

\* A row says ok only after restic's success.
LEMMA WhoSucceeds ==
  ASSUME TypeOK, [Next]_vars, NEW r \in Runs, run[r] # "ok", run'[r] = "ok"
  PROVE  \E p \in Procs : pc[p] = "wrote" /\ r = cur[p]
  <1>1. ASSUME NEW p \in Procs, StartRun(p)
        PROVE  FALSE
    BY <1>1 DEF StartRun, TypeOK
  <1>2. ASSUME NEW p \in Procs, FinishRun(p)
        PROVE  pc[p] = "wrote" /\ r = cur[p]
    BY <1>2 DEF FinishRun, TypeOK
  <1>3. run' # run
    OBVIOUS
  <1> QED
    BY <1>1, <1>2, <1>3
    DEF Next, RunStep, PassStep, Procs, CreateRepo, InitRepo, CheckRepo, DeleteRepo, ScheduleDelete,
        Slot, Age, ScheduleSet, ManualRun, BackUp, RetentionFor, Prune, StartPass, Consider, EndPass, Crash,
        vars, dbVars

\* Every step keeps something to restore, for the rows and for the runs about to close one.
LEMMA NextRestorable ==
  ASSUME RunInv, KeysKept, SnapshotsAccounted, WroteStocked, ScopeRestorable, [Next]_vars
  PROVE  WroteStocked' /\ ScopeRestorable'
  <1>0. TypeOK /\ Wanting /\ Recorded
    BY DEF RunInv
  <1>1. ASSUME NEW p \in Procs, pc'[p] = "wrote"
        PROVE  Stocked(want[p].repo, want[p].scope)' 
    <2>1. CASE pc[p] = "wrote"
      <3>1. want'[p] = want[p] /\ want[p].repo \in Repos /\ Stocked(want[p].repo, want[p].scope)
        BY <1>0, <1>1, <2>1, StillWrote DEF Wanting, WroteStocked
      <3>2. PICK k \in Repos : k = want[p].repo
        BY <3>1
      <3>3. PICK sc : sc = want[p].scope
        OBVIOUS
      <3>4. Stocked(k, sc)'
        BY <3>1, <3>2, <3>3, StockKept
      <3> QED BY <3>1, <3>2, <3>3, <3>4 DEF Stocked
    <2>2. CASE pc[p] # "wrote"
      <3>1. /\ BackUp(p) /\ UNCHANGED <<job, want>>
            /\ snaps' = [snaps EXCEPT ![want[p].repo] = @ \cup {cur[p]}]
        BY <1>0, <1>1, <2>2, WhoWrote
      <3>2. want[p].repo \in Repos /\ job[cur[p]].scope = want[p].scope
        BY <1>0, <3>1 DEF BackUp, Wanting, Recorded
      <3>3. cur[p] \in snaps'[want[p].repo]
        BY <1>0, <3>1, <3>2 DEF TypeOK
      <3> QED BY <3>1, <3>2, <3>3 DEF Stocked
    <2> QED BY <2>1, <2>2
  <1>2. ASSUME NEW r \in Runs, run'[r] = "ok"
        PROVE  Stocked(job[r].repo, job[r].scope)'
    <2>1. run[r] # "none" /\ Stocked(job[r].repo, job[r].scope)
      <3>1. CASE run[r] = "ok"
        BY <3>1 DEF ScopeRestorable, Stocked
      <3>2. CASE run[r] # "ok"
        BY <1>0, <1>2, <3>2, WhoSucceeds DEF Recorded, WroteStocked
      <3> QED BY <3>1, <3>2
    <2>2. PICK k \in Repos : k = job[r].repo
      BY <2>1 DEF KeysKept
    <2>3. PICK sc : sc = job[r].scope
      OBVIOUS
    <2>4. Stocked(k, sc)'
      BY <2>1, <2>2, <2>3, StockKept
    <2>5. job'[r].repo = k /\ job'[r].scope = sc
      BY <1>0, <2>1, <2>2, <2>3, RowsStay
    <2> QED BY <2>4, <2>5 DEF Stocked
  <1> QED BY <1>1, <1>2 DEF WroteStocked, ScopeRestorable, Stocked

\* Pruning too early or with another tenant's policy "would delete them": whatever runs and
\* prunes at the same time, a scope with a successful run keeps a snapshot to restore.
THEOREM Restorable == Spec => []ScopeRestorable
  <1>1. Init => KeysKept /\ SnapshotsAccounted /\ WroteStocked /\ ScopeRestorable
    BY DEF Init, KeysKept, SnapshotsAccounted, WroteStocked, ScopeRestorable
  <1>2. RunInv /\ KeysKept /\ SnapshotsAccounted /\ WroteStocked /\ ScopeRestorable /\ [Next]_vars
          => RunInv' /\ KeysKept' /\ SnapshotsAccounted' /\ WroteStocked' /\ ScopeRestorable'
    BY NextRunInv, NextAccounted, NextRestorable
  <1> QED BY <1>1, <1>2, InitRunInv, PTL DEF Spec

-----------------------------------------------------------------------------
(* One run per slot.                                                       *)

\* Every step keeps the count of runs since a slot, and what the pass believes of it.  A run
\* for a schedule starts in the pass alone, after is_due, and the schedule is off its list
\* by then.
LEMMA NextSlotInv ==
  ASSUME RunInv, SlotInv, OneRunPerSlot, [Next]_vars
  PROVE  SlotInv' /\ OneRunPerSlot'
  <1>t. /\ tries \in [Scheds -> Nat] /\ mishaps \in Nat /\ slot \in [Scheds -> Slots]
        /\ seen \in [Scheds -> Slots] /\ todo \in SUBSET Scheds /\ pc \in [Procs -> Stages]
        /\ DOMAIN want = Procs /\ Pass \in Procs
    BY DEF RunInv, TypeOK, Procs
  <1>n. None \notin Scheds /\ Pass \notin Callers
    BY BackupsAssumption DEF Scheds
  <1>m. Mishap => mishaps' = mishaps + 1
    BY DEF Mishap
  <1> USE DEF SlotInv, OneRunPerSlot
  <1>1. ASSUME NEW s \in Scheds, slot' = [slot EXCEPT ![s] = [age |-> slot'[s].age, served |-> "no"]],
               tries' = [tries EXCEPT ![s] = 0], UNCHANGED <<pc, want, todo, seen, mishaps>>
        PROVE  SlotInv' /\ OneRunPerSlot'
    <2>1. /\ slot'[s].served = "no" /\ tries'[s] = 0
          /\ \A u \in Scheds \ {s} : slot'[u] = slot[u] /\ tries'[u] = tries[u]
      BY <1>1, <1>t
    <2> QED BY <1>1, <1>t, <2>1
  <1>2. ASSUME NEW s \in Scheds, ScheduleDelete(s) \/ Slot(s)
        PROVE  SlotInv' /\ OneRunPerSlot'
    BY <1>1, <1>2, <1>t DEF ScheduleDelete, Slot, NoSlot, memVars
  <1>3. ASSUME NEW s \in Scheds, Age(s)
        PROVE  SlotInv' /\ OneRunPerSlot'
    <2>1. \E a \in Ages : slot' = [slot EXCEPT ![s] = [slot[s] EXCEPT !.age = a]]
      BY <1>3 DEF Age, Ages
    <2>2. \A a \in Ages : [slot[s] EXCEPT !.age = a].served = slot[s].served
      BY <1>t DEF Slots
    <2>3. \A u \in Scheds : slot'[u].served = slot[u].served
      BY <1>t, <2>1, <2>2
    <2> QED BY <1>3, <1>t, <2>3 DEF Age, memVars, obsVars
  <1>4. CASE StartPass
    <2>1. pc'[Pass] = "next" /\ UNCHANGED <<slot, tries, mishaps>>
      BY <1>4, <1>t DEF StartPass, Goto, obsVars
    <2>2. \A s \in todo' : seen'[s] = slot[s]
      BY <1>4 DEF StartPass
    <2> QED BY <2>1, <2>2
  <1>5. ASSUME NEW s \in Scheds, Consider(s)
        PROVE  SlotInv' /\ OneRunPerSlot'
    <2>1. /\ todo' = todo \ {s} /\ s \in todo /\ UNCHANGED <<slot, tries>>
          /\ \A u \in todo' : seen'[u] = seen[u]
      BY <1>5, <1>t DEF Consider
    <2>2. mishaps' \in {mishaps, mishaps + 1}
      BY <1>5, <1>m DEF Consider
    <2>3. CASE pc' = pc
      BY <1>5, <1>t, <2>1, <2>2, <2>3 DEF Consider
    <2>4. CASE pc' # pc
      <3>1. want'[Pass].sched = s
        BY <1>5, <1>t, <2>4 DEF Consider
      <3>2. IsDue(s) \/ mishaps' = mishaps + 1
        BY <1>5, <1>m, <2>4 DEF Consider
      <3>3. IsDue(s) => tries[s] = 0
        BY <2>1 DEF IsDue
      <3>4. tries[s] \in Nat /\ tries[s] <= 1 + mishaps
        BY <1>t
      <3>5. tries'[s] <= mishaps'
        BY <1>t, <2>1, <2>2, <3>2, <3>3, <3>4
      <3> QED BY <1>t, <2>1, <2>2, <3>1, <3>5
    <2> QED BY <2>3, <2>4
  <1>6. ASSUME NEW p \in Procs, StartRun(p)
        PROVE  SlotInv' /\ OneRunPerSlot'
    <2>1. CASE /\ UNCHANGED <<slot, tries>> /\ Leave(p) /\ mishaps' \in {mishaps, mishaps + 1}
      <3>1. pc'[Pass] \in {"resolved", "doomed"} => pc'[Pass] = pc[Pass] /\ want'[Pass] = want[Pass]
        BY <1>t, <2>1 DEF Leave, Goto, Over
      <3> QED BY <1>6, <1>t, <2>1, <3>1 DEF StartRun
    <2>2. CASE /\ slot' = [s \in Scheds |->
                             IF s = want[p].sched THEN [slot[s] EXCEPT !.served = "yes"] ELSE slot[s]]
               /\ tries' = [s \in Scheds |-> IF s = want[p].sched THEN tries[s] + 1 ELSE tries[s]]
               /\ Goto(p, IF pc[p] = "doomed" THEN "failed" ELSE "running")
               /\ UNCHANGED <<want, mishaps, todo, seen>>
      <3>1. CASE p # Pass
        <4>1. want[p].sched = None
          BY <3>1 DEF RunInv, Wanting
        <4>2. slot' = slot /\ tries' = tries
          BY <1>t, <1>n, <2>2, <4>1
        <4>3. pc'[Pass] = pc[Pass]
          BY <1>t, <2>2, <3>1 DEF Goto
        <4> QED BY <2>2, <4>2, <4>3
      <3>2. CASE p = Pass
        <4> DEFINE s == want[Pass].sched
        <4>1. s \in Scheds /\ s \notin todo /\ tries[s] <= mishaps
          BY <1>6, <3>2 DEF StartRun
        <4>2. /\ slot'[s].served = "yes" /\ tries'[s] = tries[s] + 1
              /\ \A u \in Scheds \ {s} : slot'[u] = slot[u] /\ tries'[u] = tries[u]
          BY <1>t, <2>2, <3>2, <4>1 DEF Slots
        <4>3. pc'[Pass] \in {"failed", "running"}
          BY <1>t, <2>2, <3>2 DEF Goto
        <4>4. tries'[s] <= 1 + mishaps
          BY <1>t, <4>1, <4>2
        <4> HIDE DEF s
        <4> QED BY <1>t, <2>2, <4>1, <4>2, <4>3, <4>4
      <3> QED BY <3>1, <3>2
    <2> QED BY <1>6, <1>m, <2>1, <2>2 DEF StartRun
  <1>7. CASE Crash
    BY <1>7, <1>m, <1>t DEF Crash
  <1>8. CASE /\ UNCHANGED <<slot, tries, todo, seen>> /\ mishaps' \in {mishaps, mishaps + 1}
             /\ pc'[Pass] \in {"resolved", "doomed"} => pc'[Pass] = pc[Pass] /\ want'[Pass] = want[Pass]
    BY <1>8, <1>t
  <1>9. ASSUME NEW p \in Procs, BackUp(p) \/ FinishRun(p) \/ RetentionFor(p) \/ Prune(p)
        PROVE  /\ UNCHANGED <<slot, tries, todo, seen>> /\ mishaps' \in {mishaps, mishaps + 1}
               /\ pc'[Pass] \in {"resolved", "doomed"} => pc'[Pass] = pc[Pass] /\ want'[Pass] = want[Pass]
    <2>1. UNCHANGED <<slot, tries, todo, seen>> /\ mishaps' \in {mishaps, mishaps + 1}
      BY <1>9, <1>m DEF BackUp, FinishRun, RetentionFor, Prune, obsVars
    <2>2. Leave(p) \/ (UNCHANGED want /\ \E st \in {"wrote", "failed", "pruning", "forgetting"} : Goto(p, st))
      BY <1>9 DEF BackUp, FinishRun, RetentionFor, Prune
    <2>3. pc'[Pass] \in {"resolved", "doomed"} => pc'[Pass] = pc[Pass] /\ want'[Pass] = want[Pass]
      BY <1>t, <2>2 DEF Leave, Goto, Over
    <2> QED BY <2>1, <2>3
  <1>10. ASSUME NEW c \in Callers, NEW k \in Repos, NEW sc \in Scopes, ManualRun(c, k, sc)
         PROVE  SlotInv' /\ OneRunPerSlot'
    BY <1>8, <1>10, <1>n, <1>t DEF ManualRun, Goto
  <1>11. CASE EndPass
    BY <1>8, <1>11, <1>t DEF EndPass, Goto, obsVars
  <1>12. ASSUME NEW k \in Repos, CreateRepo(k) \/ InitRepo(k) \/ CheckRepo(k) \/ DeleteRepo(k)
         PROVE  SlotInv' /\ OneRunPerSlot'
    BY <1>8, <1>12, <1>m DEF CreateRepo, InitRepo, CheckRepo, DeleteRepo, obsVars
  <1>13. ASSUME NEW s \in Scheds, NEW k \in Repos, NEW sc \in Scopes, ScheduleSet(s, k, sc)
         PROVE  SlotInv' /\ OneRunPerSlot'
    BY <1>8, <1>13 DEF ScheduleSet, memVars, obsVars
  <1>14. CASE UNCHANGED vars
    BY <1>8, <1>14 DEF vars, memVars, obsVars
  <1> QED
    BY <1>2, <1>3, <1>4, <1>5, <1>6, <1>7, <1>8, <1>9, <1>10, <1>11, <1>12, <1>13, <1>14
    DEF Next, RunStep, PassStep, Procs

\* "The due check exists to stop a schedule firing twice for one cron minute": however long a
\* pass lasts and wherever a run is cut short, a slot is run once, and once more for each
\* query that failed.
THEOREM SlotRunOnce == Spec => []OneRunPerSlot
  <1>1. Init => SlotInv /\ OneRunPerSlot
    <2> SUFFICES ASSUME Init PROVE SlotInv /\ OneRunPerSlot
      OBVIOUS
    <2>1. \A s \in Scheds : tries[s] = 0
      BY DEF Init
    <2>2. pc[Pass] = "idle" /\ todo = {} /\ mishaps = 0
      BY DEF Init, Procs
    <2> QED BY <2>1, <2>2 DEF SlotInv, OneRunPerSlot
  <1>2. RunInv /\ SlotInv /\ OneRunPerSlot /\ [Next]_vars => RunInv' /\ SlotInv' /\ OneRunPerSlot'
    BY NextRunInv, NextSlotInv
  <1> QED BY <1>1, <1>2, InitRunInv, PTL DEF Spec

=============================================================================
