----------------------------- MODULE ConfigApply -----------------------------
(***************************************************************************)
(* The config engine of unihelm-config for one service: apply, remove and  *)
(* rollback called by concurrent tasks, serialised by the service's lock.  *)
(* Each writes or deletes one file, has the service's checker validate the *)
(* tree, reloads the service, and restores its snapshot when one of those  *)
(* fails.  The tree, the running service and the table of revisions        *)
(* outlive the agent; the calls and the lock do not.                       *)
(***************************************************************************)
EXTENDS Naturals

CONSTANTS
  Workers,      \* tasks that may call the engine
  Files, Bodies, None, ValidTrees,   \* as in ConfigStore
  Mishaps,      \* what may go wrong besides an ordinary failure
  MaxMishaps    \* bound: how often

Content == [by : {"panel", "edited", "foreign"}, body : Bodies]
           \cup {[by |-> "absent", body |-> None]}
Absent  == [by |-> "absent", body |-> None]
Trees   == [Files -> Bodies \cup {None}]
Empty   == [f \in Files |-> None]
Nothing == [disk |-> [f \in Files |-> Absent], live |-> Empty]

ASSUME ConfigAssumption ==
  /\ None \notin Bodies \cup Workers
  /\ ValidTrees \subseteq Trees /\ Empty \in ValidTrees
  /\ Mishaps \subseteq {"crash", "edit", "lost", "half", "record", "outside"}
  /\ MaxMishaps \in Nat

VARIABLES
  \* --- the machine ----------------------------------------------------
  disk,      \* what inspect would find at each path
  live,      \* the tree the service runs on
  recorded,  \* config_revisions: what the rows of a path say, header aside
  \* --- agent memory ---------------------------------------------------
  holder,    \* who has the service's lock
  pc,        \* how far a call has got, or how the last one ended
  req,       \* its request
  snap,      \* its snapshot
  \* --- what the properties observe ------------------------------------
  read,      \* the tree the service was last told to load
  before,    \* disk and live when the call got the lock
  mishaps

machineVars == <<disk, live, recorded, read>>
callVars    == <<holder, pc, req, snap, before>>
vars        == <<machineVars, callVars, mishaps>>

Ended  == {"idle", "ok", "unchanged", "failed"}
Stages == Ended \cup {"waiting", "looking", "writing", "validating", "reloading", "checking",
                      "recording", "undoing", "undoingReload", "reloadingAgain"}
Requests ==
  [op : {"apply"}, file : Files, body : Bodies, force : BOOLEAN, check : BOOLEAN]
  \cup [op : {"rollback"}, file : Files, body : Bodies, force : {FALSE}, check : {FALSE}]
  \cup [op : {"remove"}, file : Files, body : {None}, force : {FALSE}, check : {FALSE}]
NoRequest == None

\* The tree that is on disk.
Tree(d) == [f \in Files |-> d[f].body]

TypeOK ==
  /\ disk \in [Files -> Content] /\ live \in Trees /\ read \in Trees
  /\ recorded \in [Files -> SUBSET Bodies]
  /\ holder \in Workers \cup {None} /\ pc \in [Workers -> Stages]
  /\ req \in [Workers -> Requests \cup {NoRequest}] /\ snap \in [Workers -> Content]
  /\ before \in [Workers -> [disk : [Files -> Content], live : Trees]]
  /\ mishaps \in Nat

\* The panel's own directory is new; the service runs without it.
Init ==
  /\ disk = [f \in Files |-> Absent] /\ live = Empty /\ read = Empty
  /\ recorded = [f \in Files |-> {}]
  /\ holder = None /\ pc = [w \in Workers |-> "idle"]
  /\ req = [w \in Workers |-> NoRequest] /\ snap = [w \in Workers |-> Absent]
  /\ before = [w \in Workers |-> Nothing]
  /\ mishaps = 0

Mishap(m) == m \in Mishaps /\ mishaps < MaxMishaps /\ mishaps' = mishaps + 1

\* A call leaves for another stage, or returns and drops its guard.
Goto(w, s) == pc' = [pc EXCEPT ![w] = s] /\ UNCHANGED <<holder, req, snap, before>>

Return(w, s) ==
  /\ pc' = [pc EXCEPT ![w] = s]
  /\ holder' = None
  /\ snap' = [snap EXCEPT ![w] = Absent]
  /\ before' = [before EXCEPT ![w] = Nothing]
  /\ req' = [req EXCEPT ![w] = NoRequest]

-----------------------------------------------------------------------------
(* A call: render, take the lock, look.                                    *)

\* What is rolled back to was recorded once; what is applied is rendered.
Call(w, r) ==
  /\ pc[w] \in Ended
  /\ r.op = "rollback" => r.body \in recorded[r.file]
  /\ req' = [req EXCEPT ![w] = r]
  /\ pc' = [pc EXCEPT ![w] = "waiting"]
  /\ UNCHANGED <<machineVars, holder, snap, before, mishaps>>

\* Mutant: nobody waits for the lock.
AcquireAtOnce(w) ==
  /\ pc[w] = "waiting"
  /\ holder' = w
  /\ before' = [before EXCEPT ![w] = [disk |-> disk, live |-> live]]
  /\ pc' = [pc EXCEPT ![w] = "looking"]
  /\ UNCHANGED <<machineVars, req, snap, mishaps>>

\* lock_for, then lock().await.
Acquire(w) ==
  /\ pc[w] = "waiting" /\ holder = None
  /\ holder' = w
  /\ before' = [before EXCEPT ![w] = [disk |-> disk, live |-> live]]
  /\ pc' = [pc EXCEPT ![w] = "looking"]
  /\ UNCHANGED <<machineVars, req, snap, mishaps>>

\* The file a call is about, as inspect finds it now.
Found(w) == disk[req[w].file]

\* Mutant: a drifted file is overwritten like any other.
RefusedIfForeign(w) == Found(w).by = "foreign" /\ req[w].op # "rollback"

\* A file that is not the panel's is never taken over, and one that a human edited
\* only when asked; remove takes the edit with the file, rollback looks at nothing.
Refused(w) ==
  \/ Found(w).by = "foreign" /\ req[w].op # "rollback"
  \/ Found(w).by = "edited" /\ req[w].op = "apply" /\ ~req[w].force

\* There is nothing to do: the file says so already, or is not there to remove.
Unchanged(w) ==
  \/ /\ req[w].op = "apply" /\ ~req[w].force
     /\ Found(w) = [by |-> "panel", body |-> req[w].body]
  \/ req[w].op = "remove" /\ Found(w) = Absent

\* Look at the file, and keep a copy of it.  A file that cannot be read is an error.
Look(w) ==
  /\ pc[w] = "looking"
  /\ \/ ~Refused(w) /\ Unchanged(w) /\ Return(w, "unchanged")
     \/ ~Unchanged(w) /\ Return(w, "failed")
     \/ /\ ~Refused(w) /\ ~Unchanged(w)
        /\ snap' = [snap EXCEPT ![w] = Found(w)]
        /\ pc' = [pc EXCEPT ![w] = "writing"]
        /\ UNCHANGED <<holder, req, before>>
  /\ UNCHANGED <<machineVars, mishaps>>

-----------------------------------------------------------------------------
(* Write, validate, reload, prove, record.                                 *)

\* What the call wants to find at its path.
Wanted(w) ==
  IF req[w].op = "remove" THEN Absent ELSE [by |-> "panel", body |-> req[w].body]

\* write_atomic or remove_managed: all of it, or an error and nothing.
Write(w) ==
  /\ pc[w] = "writing"
  /\ \/ disk' = [disk EXCEPT ![req[w].file] = Wanted(w)] /\ Goto(w, "validating")
     \/ UNCHANGED disk /\ Return(w, "failed")
  /\ UNCHANGED <<live, read, recorded, mishaps>>

\* Mutant: the checker is run and its verdict is not looked at.
ValidateIgnored(w) ==
  /\ pc[w] = "validating"
  /\ Goto(w, "reloading") \/ Goto(w, "undoing")
  /\ UNCHANGED <<machineVars, mishaps>>

\* The checker reads the whole tree; it may also fail to run.
Validate(w) ==
  /\ pc[w] = "validating"
  /\ \/ Tree(disk) \in ValidTrees /\ Goto(w, "reloading")
     \/ Goto(w, "undoing")
  /\ UNCHANGED <<machineVars, mishaps>>

\* The service keeps what it runs on when it is told to load a broken tree.
Loads == live' = IF Tree(disk) \in ValidTrees THEN Tree(disk) ELSE live

\* Where a call goes from a reload that succeeded.
AfterReload(w) ==
  IF req[w].check THEN Goto(w, "checking")
  ELSE IF req[w].op = "apply" THEN Goto(w, "recording") ELSE Return(w, "ok")

\* A reload that reports a failure may have loaded the tree all the same.
Reload(w) ==
  /\ pc[w] = "reloading"
  /\ read' = Tree(disk)
  /\ \/ Tree(disk) \in ValidTrees /\ Loads /\ AfterReload(w)
     \/ (Loads \/ UNCHANGED live) /\ Goto(w, "undoingReload")
  /\ UNCHANGED <<disk, recorded, mishaps>>

\* The optional post_check.
Check(w) ==
  /\ pc[w] = "checking"
  /\ Goto(w, "recording") \/ Goto(w, "undoingReload")
  /\ UNCHANGED <<machineVars, mishaps>>

\* record_revision; if it fails the caller gets the error.  Its trimming of old rows to
\* KEEP_PER_PATH only narrows what a rollback may ask for, and is left out.
Record(w) ==
  /\ pc[w] = "recording"
  /\ \/ /\ recorded' = [recorded EXCEPT ![req[w].file] = @ \cup {req[w].body}]
        /\ Return(w, "ok") /\ UNCHANGED mishaps
     \/ Mishap("record") /\ Return(w, "failed") /\ UNCHANGED recorded
  /\ UNCHANGED <<disk, live, read>>

-----------------------------------------------------------------------------
(* Undoing.                                                                *)

\* Mutant: an undone creation leaves the new file behind.
RestoreKeepsNew(w) ==
  /\ pc[w] \in {"undoing", "undoingReload"}
  /\ disk' = IF snap[w] = Absent THEN disk ELSE [disk EXCEPT ![req[w].file] = snap[w]]
  /\ IF pc[w] = "undoing" THEN Return(w, "failed") ELSE Goto(w, "reloadingAgain")
  /\ UNCHANGED <<live, read, recorded, mishaps>>

\* restore: the snapshot goes back, or the file goes away.  If that fails too the
\* caller gets that error, and the service is not reloaded again.
Restore(w) ==
  /\ pc[w] \in {"undoing", "undoingReload"}
  /\ \/ /\ disk' = [disk EXCEPT ![req[w].file] = snap[w]]
        /\ IF pc[w] = "undoing" THEN Return(w, "failed") ELSE Goto(w, "reloadingAgain")
        /\ UNCHANGED mishaps
     \/ Mishap("lost") /\ Return(w, "failed") /\ UNCHANGED disk
  /\ UNCHANGED <<live, read, recorded>>

\* Mutant: the second reload is tried until it works.
ReloadAgainRetries(w) ==
  /\ pc[w] = "reloadingAgain"
  /\ read' = Tree(disk)
  /\ \/ Loads /\ Return(w, "failed")
     \/ UNCHANGED live /\ Goto(w, "undoingReload")
  /\ UNCHANGED <<disk, recorded, mishaps>>

\* The second reload, whose outcome is ignored.
ReloadAgain(w) ==
  /\ pc[w] = "reloadingAgain"
  /\ read' = Tree(disk)
  /\ \/ Loads /\ UNCHANGED mishaps
     \/ Mishap("half") /\ UNCHANGED live
  /\ Return(w, "failed")
  /\ UNCHANGED <<disk, recorded>>

-----------------------------------------------------------------------------
(* The world around the engine.                                            *)

\* A sysadmin edits, replaces or deletes a file.
HumanEdit(f) ==
  /\ Mishap("edit")
  /\ \E c \in Content :
       /\ c.by # "panel" /\ c # disk[f]
       /\ c.by = "edited" => disk[f].by \in {"panel", "edited"}
       /\ disk' = [disk EXCEPT ![f] = c]
  /\ UNCHANGED <<live, read, recorded, callVars>>

\* Operations that replaced a certificate tell the service to load its tree without
\* taking the engine's lock.
OutsideReload ==
  /\ Mishap("outside")
  /\ read' = Tree(disk) /\ Loads
  /\ UNCHANGED <<disk, recorded, callVars>>

Crash ==
  /\ Mishap("crash")
  /\ holder' = None
  /\ pc' = [w \in Workers |-> "idle"] /\ req' = [w \in Workers |-> NoRequest]
  /\ snap' = [w \in Workers |-> Absent] /\ before' = [w \in Workers |-> Nothing]
  /\ UNCHANGED machineVars

CallStep(w) ==
  \/ Look(w) \/ Write(w) \/ Validate(w) \/ Reload(w) \/ Check(w) \/ Record(w)
  \/ Restore(w) \/ ReloadAgain(w)

Next ==
  \/ \E w \in Workers : CallStep(w) \/ Acquire(w) \/ \E r \in Requests : Call(w, r)
  \/ \E f \in Files : HumanEdit(f)
  \/ OutsideReload \/ Crash

Spec == Init /\ [][Next]_vars

\* A call's commands have timeouts, so each of its steps ends; tokio's Mutex is fair, so
\* who waits for it gets it although others come back for it again and again.
Fairness ==
  \A w \in Workers : WF_vars(CallStep(w)) /\ SF_vars(Acquire(w))

FairSpec == Spec /\ Fairness

-----------------------------------------------------------------------------
(* Properties.                                                             *)

\* apply.rs: "never reload a broken configuration": whatever the calls in flight, the
\* service is only ever told to load a tree its checker accepts.
NeverReloadsBroken == read \in ValidTrees

Returns(w, s) == pc[w] \notin Ended /\ pc'[w] = s

FailureStep ==
  \A w \in Workers : Returns(w, "failed") =>
    disk' = before[w].disk /\ live' = before[w].live

\* tests/apply.rs: "a failed change leaves the server exactly as it was": when a call
\* returns an error, every file and the running tree are what they were when it began.
FailedLeavesNoTrace == [][FailureStep]_vars

SuccessStep ==
  \A w \in Workers : Returns(w, "ok") \/ Returns(w, "unchanged") =>
    live'[req[w].file] = Wanted(w).body

\* A call that reports success, "unchanged" included, leaves the service running on what
\* was asked for: an operation that is "safe to re-run after a crash" depends on it.
OkMeansLive == [][SuccessStep]_vars

Store == INSTANCE ConfigStore WITH tree <- live

\* The engine implements ConfigStore: the service goes from one valid tree to another,
\* one file at a time ("two concurrent site creations cannot interleave").
ImplementsStore == Store!Spec

\* Was this call allowed to change a file that is in this state.
Consent(w, by) ==
  req[w].op = "rollback" \/ (by = "edited" /\ (req[w].force \/ req[w].op = "remove"))

ConsentStep ==
  \A w \in Workers, f \in Files :
    pc'[w] # pc[w] /\ disk'[f] # disk[f] /\ disk[f].by \in {"edited", "foreign"}
      => Consent(w, disk[f].by) \/ snap[w] # disk[f]

\* docs/config-safety.md: discarding an edit "is the only path that overwrites, and it is
\* never taken without being asked".  A call overwrites a human's file without consent in
\* one case alone: the human wrote it after the call had looked.
DriftNeedsConsent == [][ConsentStep]_vars

\* Every call returns: no error path keeps the lock, and nobody is starved of it.
EveryCallReturns ==
  \A w \in Workers : (pc[w] = "waiting") ~> (pc[w] \in Ended)
=============================================================================
