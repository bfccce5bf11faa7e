# unihelm, in TLA+

This directory holds TLA+ modules of the parts of unihelm whose correctness depends on the
order of steps: the task engine of the agent, the life of a certificate, the internal
scheduler, the engine that changes a service's configuration, the panel's calls to the agent,
webhook delivery, the firewall with Sentinel, and backups. Each is model-checked with TLC
on small instances and, where the prover reaches and the work has been done, proved with TLAPS for
every value of its constants. `PROJECT.json` is the index: components, runs, mutants, the map from definitions to
source lines, findings, hazards and theorems.

To repeat a run: `tlc -config TaskEngine_record.cfg MCTaskEngine`; to repeat the proofs:
`tlapm TaskEngineProofs.tla`.

## The system

unihelm is a hosting panel. `unihelm-agentd` runs as root and does everything that changes the
machine; `unihelm-web` is the unprivileged HTTP API and `unihelm-cli` the command line, and both
talk to the agent over a Unix socket (`unihelm-ipc`). Operations live in `unihelm-ops`, the
SQLite database in `unihelm-db`, the engine for managed files in `unihelm-config`, the wrappers
of package managers, systemd and firewalls in `unihelm-distro`.

### Inventory

| Component | State | Operations | Interacts with |
|---|---|---|---|
| Task engine (`agentd/tasks.rs`, `handler.rs`, `db/tasks.rs`) | rows `tasks`, `task_logs`; in memory one worker, one pump and one queue per task, the broadcast bus, the interests of a connection | request, retry, cancel, subscribe; start, line, verdict; reconcile at start | runs every long operation; viewers over IPC |
| Certificates (`ops/cert.rs`, `dns.rs`, `acme.rs`, `db/certificates.rs`) | rows `certificates`, PEM files, what the server has loaded | `cert.issue`, `cert.issue_wildcard`, renewal, expiry | scheduler, config engine, the CA |
| Internal scheduler (`agentd/scheduler.rs`, `db/scheduler.rs`) | rows `scheduler_jobs`, the set of claims | register, tick, pass, drain | runs renewals, backups, sentinel, alerts, webhooks |
| Config engine (`config/apply.rs`, `managed.rs`, `db/revisions.rs`) | files on disk, the running service, rows `config_revisions`, one lock per service | apply, remove, rollback | every operation that writes a vhost, a pool or a unit |
| IPC (`web/agent.rs`, `ipc/client.rs`, `server.rs`) | the shared client, its map of pending calls, its outbound channel, its writer and reader | call, control, ping, reply, close, timeout, one retry | web, cli, agent |
| Terminals (`ops/terminal`) | sessions, attach state, scrollback | open, attach, detach, sweep | handler |
| Webhooks (`ops/webhook.rs`, `db/webhooks.rs`) | rows `webhooks` with failure counts, the queue `webhook_deliveries`; in memory the batch of a pass | set, delete, test, emit, deliver, retry, disable, purge | scheduler, every operation that emits |
| Alerts (`ops/alerts.rs`) | rules and firing alerts | evaluate, acknowledge, resolve | scheduler, metrics |
| Sentinel and firewall (`ops/fwops.rs`, `distro/fw.rs`, `db/firewall.rs`) | the backend's rules, rows `sentinel_bans` and `fw_rules`, the switches of both | ban, unban, open, close, enable, disable, scan, reap | scheduler, ufw, firewalld, nftables |
| Backups (`ops/backup.rs`, `db/backups.rs`) | rows of repositories, schedules and runs; restic's repositories | init and delete a repository, set and delete a schedule, run, prune, restore | scheduler, restic, webhooks |
| Web sessions (`web/auth.rs`, `db/sessions.rs`) | sessions, throttling | login, expire, revoke, impersonate | every request |
| Sites, plans, quotas, stack, panel domain | rows and machine state | create, delete, suspend, install, attach | config engine, tasks |
| The rest (RBAC, templates, DNS records, mail, PHP, applications, files, importer, plugins, metrics, UI, installer) | mostly none of its own | single commands or decisions | |

`components` in `PROJECT.json` lists them all with what is modelled and why the others are not.

### What is hard here

* A row in SQLite outlives the worker that owns it, and the worker has several writes, any of
  which may fail or be cut off by a crash. A cancel, the verdict and the next start race for it.
* What a viewer sees goes through a lossy bus, after the database.
* Certificates are issued by operators and by a background pass without a lock, in two operations
  that order "record" and "reload" differently, over files that every reload of the server reads.
* The scheduler works from lists that are stale by the time it acts on them, with passes that may
  take hours, and must still stop when systemd asks.
* A configuration change is a write, a validation, a reload and an undo on a tree that other
  calls, other operations and humans change too.
* The agent may die under a call of the panel, or stop reading, or a connection may be given up by
  one end while both live; the panel cannot tell whether the operation ran, and one client with two
  background tasks serves all callers.
* The delivery pass works off a batch it read once, with slow POSTs between the writes, while the
  rows and hooks it read are edited, probed, purged and deleted.
* ufw numbers its rules, has no expiry and no transactions, and nothing serialises the operations
  and the Sentinel pass that edit it; at the end of a mistake nobody can log in.
* A backup takes hours. Repository, schedule and run refer to each other in SQLite and in restic,
  and what says whether a slot was served is the start of the last run.

### What makes each component correct

* Task engine: every accepted request ends in a terminal row; a terminal row never moves and its
  log is complete; the stream never runs ahead of the record; a restart leaves no orphan and does
  not make work for itself again and again.
* Certificates: a site has one active row and never drops out of renewal; a failing row waits out
  its backoff; a rehearsal is never installed.
* Scheduler: one pass of a job at a time; overdue jobs are run and not skipped; a slow pass
  neither starves the others nor blocks a shutdown.
* Config engine: a service is never told to load a broken tree; a failed change leaves no trace; a
  reported success is running; a human's edit is not overwritten without consent; the lock is
  always given back.
* IPC: every call returns; a retry never meets an agent that has the operation already; the map
  holds every call that waits, and nothing that no longer does. (The first two have one exception
  each, which the properties name.)
* Webhooks: delivery at least once and a bounded number of times; a dead endpoint is left alone
  after the threshold; history stays history; nothing due is left in the queue.
* Firewall: the panel stays reachable; a ban with a term ends, in the table and in ufw; Sentinel does not prolong its own
  bans; a permanent ban stands.
* Backups: every snapshot has its repository and its run; retention leaves something to restore; a
  slot is run, and once; every run gets a verdict.

`hazards` in `PROJECT.json` has these at the lines where they bite, with the properties that
cover them, or a note.

## The modules

| Module | What it is |
|---|---|
| `TaskLedger` | abstract: what the tables of tasks and logs promise their readers |
| `TaskEngine`, `MCTaskEngine`, `TaskEngineProofs` | the task engine, which implements `TaskLedger` |
| `Certificates`, `MCCertificates`, `CertificatesProofs` | certificate rows, files and the server |
| `Scheduler`, `MCScheduler`, `SchedulerProofs` | the scheduler loop |
| `ConfigStore` | abstract: a service runs on valid trees and changes one file at a time |
| `ConfigApply`, `MCConfigApply`, `ConfigApplyProofs` | the config engine, which implements `ConfigStore` |
| `IpcCalls`, `MCIpcCalls`, `IpcCallsProofs` | the panel's calls to the agent |
| `WebhookQueue`, `MCWebhookQueue`, `WebhookQueueProofs` | hooks, the queue and the delivery pass |
| `Firewall`, `MCFirewall`, `FirewallProofs` | firewall operations and Sentinel over ufw |
| `Backups`, `MCBackups`, `BackupsProofs` | repositories, schedules, runs and retention |

The MC modules add only what TLC needs (a symmetry set, the checker of the model's bodies). A definition whose comment begins with
`Mutant:` is a plausible bug of the definition below it; no specification uses it. It is there to
show that the named property would notice.

### TaskEngine

`status`, `op`, `log` and `relayLive` are columns. `worker` is where `handle_request` and
`spawn_task` are for a task: `accepted` (row inserted, not yet spawned), `spawned`, `starting`,
`running`, `draining` (the operation returned, the pump is awaited), `failing` (the reason goes to
the log), `closing` (the terminal UPDATE), `announcing`, `done`. `sink` is the unbounded channel of
`TaskLog`, `pump` the line that is persisted and not yet published, `bus` the broadcast channel as
seen by each connection, of `BusCapacity` events, the oldest overwritten. Every `.await` on the
database or on a channel separates two actions, and every database write has a failing variant,
which the code logs and survives; `lost` remembers it so that properties can excuse exactly that
task. `Crash` forgets the memory. A shutdown by signal is the same step, because nothing waits for
workers. `Reconcile` and `Serve` are the agent's start, with `queue_mta_migration` in between.

`TaskLedger` says what is left when all of that is hidden: `status`, `op` and `log`, and six steps
named after the functions of `db/tasks.rs`. It is stricter than their SQL in two places, and that
is what the refinement shows: `finish_task_*` would close a queued row and `append_task_log` does
not look at the row at all, yet the engine calls them only on a row that runs, or, for the log,
was cancelled under its worker.

Left out: progress percentages, wording, the audit rows of cancel and retry (they change nothing
the properties see), panics of an operation (the row stays running until the next start, which
`Reconcile` covers), and synchronous operations, which have no task. `set_task_progress` and
`next_queued_task` have no caller in the product.

### Certificates

Rows 1, 2, ... are `certificates`. Time is abstract: `expiry` goes from fresh to due to lapsed,
`held` is a `next_attempt_at` in the future. `chain` and `key` are the two files that
`write_certificate` renames one after the other, and `live` what the server has in memory: a
reload takes every site's pair or refuses all of them. An issuer is an operator or the scheduler's
pass, and `cert.issue` and `cert.issue_wildcard` share actions where the code does and differ where
it does: what happens to a staging order, and whether the row is recorded before or after the
reload.

Abstractions: the ACME exchange is one step that succeeds or fails; `auto_renew` is on; the LIMIT
`RENEWALS_PER_TICK` is not applied (a pass may take all due rows); the panel's own certificate
(`renew_panel`), certificates that were uploaded, and `revoked` are left out.

### Scheduler

`row` is `scheduler_jobs.next_run_at` against the clock. `todo` is the list a tick has read and
not finished, `claims` is `InFlight`, and a pass is counted in `running`, then `recording`
(`finish_job`), then `releasing` (the guard's drop). Counting instead of naming passes lets the
model have two of one job when the claim is broken. `Slow` jobs may outlast `SHUTDOWN_DRAIN`, or
never end.

### ConfigApply

One service: its files, the tree it runs on, its lock, and calls by several workers. A file is what `inspect` finds: absent, the panel's, edited by
a human, or foreign. `pc` follows the numbered steps of `apply`; `remove` and `rollback` run
through the same stages with their own guards and skip the ones they do not have. `ValidTrees` is
the service's checker, an arbitrary set of trees: whether a file is acceptable may depend on the others.
Ordinary failures (a write, the checker, the reload, the post-check) are part of every run. What
the engine cannot prevent are *mishaps*, enabled one by one by a constant: a crash, a human's
edit, an undo that fails (`lost`), a second reload that fails (`half`), a revision that cannot be
stored (`record`), and a reload by somebody who did not take the lock (`outside`).

Left out: rendering, the diff shown on drift, `KEEP_PER_PATH`, file modes, the bootstrap callers
that skip validation, and a stopped unit, which reads its tree when it starts.

### IpcCalls

A caller is one HTTP handler inside `AgentLink::call`, `control` or `is_healthy`. `link` is the
client the handlers share; a connection `k` has the life of the agent it was made to (`born`), its
`closed` flag, its writer and its reader task. `pending` is the map of oneshots, by frame; a frame
is a call and an attempt, since every attempt has a fresh uuid, and `where` follows it: in the
outbound channel, on the socket, running, replied, done. `accepted` is the life in which the agent
took it. Each `.await` of `send_and_wait` separates two actions (`Check`, `Insert`, `Send`, then the
answer or `TimeOut`), since the reader may close the connection between any two. `Abandon` is
axum dropping a handler whose browser went away, at an await. `Crash` loses what is on the socket
and any part of the replies.

`server` is the agent's loop on a connection. It reads; or it is stuck in a control frame, which it
handles inline (`Stick`), and then the socket takes no more frames at some point, the outbound
channel fills and callers wait in `send` without a deadline; or it has ended on an error
(`ServeFails`) while the requests it had spawned run on, and keep the socket open until they have
replied. The reader has two ways to its last steps (`closed`, then `ClearPending`): the end of the
stream (`ReadEof`), and an error while the agent lives (`ReadFails`), for instance a `ServerFrame` it
cannot parse. After the second the panel retries on a new connection to the same agent, which may
still be running the first attempt: `broken` remembers these connections, and `OneRunPerLife` says
that this is the only way to two runs in one life.

Left out: binding and peer credentials, version checks. A frame the agent cannot parse is skipped by its loop, and one that is too long is an error of whichever
end reads it (`ServeFails`, `ReadFails`). Events and what a slow subscriber loses are in `TaskEngine`.

### WebhookQueue

`hook`, `conf` and `failures` are a row of `webhooks`; `row`, `of`, `attempts` and `body` one of
`webhook_deliveries`. Time is `due` with the order `ahead` in which rows became due, which is what
`ORDER BY next_attempt_at LIMIT` looks at. An emitter lists the subscribed hooks, inserts a row with
the placeholder body, and freezes the body once it knows the row's id. The pass (`stage`, `batch`,
`item`, `copy`, `disabled`) reads a batch, and for each item checks, POSTs and records; `copy` is what
it read at the start, which it sends whatever the row says by now. A restored or hand-edited
database can leave a URL or a secret the pass refuses (`Restore`). `webhook.test` reads the hook,
POSTs and records the result in three actions (`probe`), so passes and edits may come in between.
`posts`, `bodies` and `misses` are what the endpoints saw; `misses` starts again when the record of
a test that landed reaches the row, which is when the code forgives the hook. A record that comes late forgives
misses that happened after its POST, so an endpoint that died right after a test may see more
failed POSTs in a row than the threshold: `DeadEndpointRests` bounds them since the record.

Abstractions: signing and the POST are one step; the curve of `backoff` is that a row is not due
for a while; the number of hooks an owner may have, event names and wording are data.

### Firewall

`rules` is ufw's list in its order, with rules of the operator's own (`Own`) in it: `insert 1` puts
one in front, `delete N` removes the N-th of that moment. `ip`, `until`, `lifted` are
`sentinel_bans` and `ports` is `fw_rules`. Every ufw command and every database call is an action,
so between listing rule numbers and deleting one (`ListRules`, `DeleteRule`) anything may happen;
`strays` counts deletions that hit another rule than the one listed. The pass (`Tick`) shares
those actions with `fw.unban` as `sentinel_tick_with` does with the backend; what differs is what
an error does: it ends a call, and the pass logs it and goes on, or ends, as the code says at each.
A stopped ufw lists no numbers, so an unban deletes nothing there and closes the rows all the same.
The pass goes by rows: an address with two expired ones is unbanned twice. `missed` is the set of
addresses whose rows were closed although a rule may be left: the pass's unban failed, ufw was stopped,
or another ban of the address came after the numbers were read.
`Doors` are the ports `fw.enable` opens before the default-deny firewall comes up.

Abstractions: who offends is arbitrary (journals and thresholds are not modelled); `Protected`
stands for `refusal_reason`. Only the ufw backend: firewalld and nftables have bans with their own
expiry and no numbered rules, unmanaged hosts have nothing. `MaxRules` and `Room` bound the model.

### Backups

`repo`, `sched` with `plan`, and `run` with `job` are the three tables with their foreign keys
(schedules cascade, runs restrict); `inited` and `snaps` are restic's side. A cron expression is
what it does: a slot comes and ages from fresh (the five minutes a schedule without runs looks
back) to a day (what one with runs looks back) to old. `StartPass` reads clock and schedules once;
`Consider` is the due check on that old `now`; `run_backup` is `StartRun` (with the working
directory, which may fail before there is a row), `BackUp`, `FinishRun`, `RetentionFor` and
`Prune`, for the pass and for `backup.run` alike. A run of the pass that cannot open its repository
or has no restic is `doomed`: it gets a failed row and nothing else (`record_early_failure`).
Retention keeps at least one snapshot of what it looks at, which is what
restic's `--keep-*` do; which others it drops is arbitrary.

Left out: listing and restore (read only, or external), the working copy of the panel's database,
which paths a scope has, credentials, and webhooks of a finished run.

## The runs

| Run | Instance | Checks |
|---|---|---|
| `task_record` | one task, one viewer, two lines, bus of 2, a crash, a failed write, under fairness | `NoOrphanRow`, `RecordComplete`, `StreamBehindRecord`, `TerminalIsFinal`, `LogSealed`, `TaskTerminates`, `ImplementsLedger` |
| `task_restart` | two tasks (symmetric), a crash, retries, the mail migration | `OneAutoMigration` |
| `cert_races` | an operator and the renewal pass on one site, three rows, a crash | `OneActive`, `NeverForgotten`, `RehearsalNotServed`, `HeldRowsWait` |
| `scheduler_passes` | a slow job that may hang and a quick one, two stops, a crash, a fault, under fairness | `OnePassPerJob`, `AtMostOneExtraPass`, `DueUntilRun`, `DueJobsRun`, `StopEnds` |
| `config_calls` | two workers, two files, three bodies, no mishaps | `NeverReloadsBroken`, `FailedLeavesNoTrace`, `OkMeansLive`, `ImplementsStore` |
| `config_mishaps` | two workers, one file, one body, all mishaps, two of them, under fairness | `DriftNeedsConsent`, `EveryCallReturns` |
| `ipc_calls` | two callers of any kind, a channel of one frame, one death of the agent or connection given up by an end, an agent that may stop reading, under fairness | `OneRunPerLife`, `WaitersAreKnown`, `EntriesOwned`, `CallReturns` |
| `webhook_passes` | one hook, one emitter, two rows in one batch, two attempts, a threshold of 3, an operator's edit, test deliveries, a crash or failed write, under fairness | `AttemptsBounded`, `DeadEndpointRests`, `FinishedStaysFinished`, `QueueDrains` |
| `firewall_bans` | two calls at a time and the pass, one address, two ports, one rule of the operator's, three calls, a mishap, under fairness | `TypeOK`, `OneSentence`, `PanelReachable`, `BansEnd` |
| `firewall_permanent` | the same around one address, without mishaps | violates `PermanentBanStands` |
| `backup_runs` | one repository, one schedule, two scopes, one `backup.run`, two slots, a mishap, under fairness | `TypeOK`, `SnapshotsAccounted`, `ScopeRestorable`, `OneRunPerSlot`, `SlotServed` |
| `backup_settle` | the same with one slot | violates `RunsSettle` |

What each shows, in a sentence, is its `about` in `PROJECT.json`. Type invariants that are proved
are not all checked again by a run.

Why the bounds are enough:

* `MaxLines = 2` is the least with which lines can be reordered, and lets one be queued while
  another is in the pump; `BusCapacity = 2` (1 without lines) is small enough that events are
  overwritten. Tasks interact only through retry, the migration and the connection's interests,
  all of which two tasks reach.
* A site's third row is the first that can meet a failed, lapsed predecessor and an active one at
  once. Sites share nothing but the server, so one is enough for the row properties, and the
  theorems are for any number.
* Two jobs tell "this job" from "the others"; one extra pass needs one stale tick. `AtMostOneExtraPass`
  is proved for any number.
* Two calls are enough for one to be between any two steps of another; of the three bodies one is always
  refused by the checker and one is refused in two files at a time, so that validity depends
  on the interleaving. `config_mishaps` needs only one body: the checker and the reload may fail
  on any tree, and who wrote a file is kept apart from what is in it. One mishap produces each single fault in any state, two a fault while
  another is being handled.

* Two callers are enough for one to drop, replace or kill the client the other is using, and a
  channel of one frame for a caller to wait for room. One mishap is enough to
  split the two attempts of a call over two lives, or to lose a connection under one life. The
  theorems are for any number.
* Two rows of one hook are the least with which a batch has a rest when its hook is switched off,
  and two attempts with a threshold of 3 make the two limits cross in either order. Hooks share
  only the batch, and the theorems are for any number.
* One address with two rows is the least with which a ban meets an older one of the same address;
  two calls and the pass are enough for a rule to be inserted between a listing and a deletion.
* Two scopes in one repository tell "mine" from "everybody's" in retention. One schedule with one
  manual run gives two runs at once on one repository. Two schedules exceed what TLC finishes in
  minutes; what that loses is a pass whose second schedule waits for the first, whose effect,
  a slot that leaves its window unread, the model reaches by `Age` alone.

`CHECK_DEADLOCK FALSE` is set where the model's bounded ids, rows, stops and crashes run out and
the system would only wait for its clients or its clock; the config runs check for deadlock.

### Fairness

* tokio polls every ready task, so worker, pump, loop and bookkeeping steps are weakly fair.
* An operation returns, and a step of a config call ends, because every external command goes
  through `unihelm-distro/src/exec.rs`, which gives it a timeout. For scheduled passes nothing is
  assumed of `Slow` jobs.
* systemd starts the agent again (`Restart=` in its unit), so `Reconcile`, `Serve` and `Start` are weakly
  fair.
* `select!` picks at random among ready branches, so a shutdown that stays requested is noticed
  although ticks keep winning: strong fairness of `BeginDrain`.
* tokio's `Mutex` is FIFO, so whoever waits for a service's lock gets it although others come back
  for it: strong fairness of `Acquire`.
* The scheduler starts the Sentinel and backup passes every minute and the delivery pass every half minute
  (`DueJobsRun` of `Scheduler`), and ufw, restic and POSTs have timeouts: `TickStep`, `PassStep` and the
  steps of a run are weakly fair.
* Time passes: a ban reaches its end and a queued row becomes due. That is not assumed of
  certificates, schedules or slots, whose properties do not need it.
* tokio's timer fires and polls callers, writers and readers: the steps of a call and of a client
  are weakly fair, the writer's only while the agent reads from that connection. Of the agent at
  the other end nothing is assumed; it may hang, stop reading or stay down.
* Nothing is assumed of clients, endpoints, operators, humans or faults.

### What the violations show

Each states what a comment or test of the repository says, and TLC finds the code doing otherwise.
`findings` quotes the lines.

* `backup_settle`: the agent dies inside a backup and starts again. `reconcile_interrupted_work`
  closes tasks and components; `reconcile_backup_runs`, written for exactly this, has no caller
  outside its test. The row stays `running`.
* `firewall_permanent`: an address has a ban with a term and a permanent one. When the first
  expires, the pass deletes the address's rules and closes all its rows, the permanent one too.

### Refuted

These say of the code what its comments and documents say, and TLC refutes them. They stay in their
modules, under "What the code says of itself and TLC refutes", without a run: to repeat one, name it
in the cfg given here, alone: as PROPERTY for `OkMeansLive`, `DeadConnectionWakes`, `CallsGiveUp`,
`ClosedBansLetIn` and `OwnRulesStay`, as INVARIANT for the others.

* `RetryAfterWorkerStopped` (`TaskEngine_restart.cfg`): a cancel makes the row terminal and stops
  no worker; a retry then runs the operation a second time beside the first.
* `RetiresWhatItReplaces` (`Certificates_races.cfg`): `certificate_issued` retires active, pending
  and expired rows, not failed ones. A row that lapsed and failed once is renewed beside its
  replacement, at every pass.
* `StagingNeverInstalled` (`Certificates_races.cfg`): `cert.issue_wildcard` installs a staging
  certificate. (`cert.issue` does not: `RehearsalNotServed`, checked and proved.)
* `OkMeansLive` with `Mishaps = {"crash"}`, `MaxMishaps = 1` (`ConfigApply_calls.cfg`): after a crash between
  write and reload, the same change applied again finds the file in place, answers "unchanged" and
  never reloads.
* `NeverReloadsBroken` with `Mishaps = {"outside"}`, `MaxMishaps = 1` (same): the reload that follows a certificate takes no
  lock and can load a tree that another call has written and not yet validated.
* `OnlyIdempotentRetried` (`IpcCalls_calls.cfg` with `Idempotent = {}`): an agent that takes a
  request and dies makes the panel send it again to the next one, whatever the operation is.
* `DeadConnectionWakes` (`IpcCalls_calls.cfg`): a call that passed the `closed` check before the
  reader set it and entered the map after `pending.clear()` is woken by nobody and waits out its
  timeout, if the writer took its frame.
* `CallsGiveUp` (`IpcCalls_calls.cfg`): a caller that finds the outbound channel full behind an agent
  that does not read waits in `outbound.send`, which the call's timeout does not cover.
* `RetryMeetsNewAgent` (`IpcCalls_calls.cfg`): the panel's reader fails on a frame while the agent
  lives; the caller is woken as by a death and sends the operation again to the agent that is at it.
* `BodyFrozen` (`WebhookQueue_passes.cfg`): the pass may read and POST a row between its insert and
  `set_delivery_payload`; the retry then carries another body.
* `ClosedBansLetIn` (`Firewall_bans.cfg`): the last row of an address is closed and its deny rule stays
  for good, because the unban failed ("worth a line, not worth abandoning the tick"), because ufw was
  stopped when the numbers were listed and is started later, or because another ban of the address
  was placed between the listing and `lift_bans_for`. `BansEnd` is what is left.
* `OwnRulesStay` (`Firewall_bans.cfg`): a ban inserted between the listing and the deletion of an
  unban shifts the numbers, and a rule the operator wrote is deleted; `fw.port.close` removes the
  operator's own rule for that port too, since ufw goes by its shape.

More observations came out of modelling and are hazards with a note, or here. Lines are appended to
a cancelled task's log after its row is terminal, so a follower that stops at the terminal row
misses them (`LogSealed` therefore speaks of ok and failed rows). `cert.issue_wildcard` calls a row
active before the server has reloaded, and leaves it so if the reload fails. A revision that cannot
be stored makes `apply` fail with the new configuration running. A scheduled renewal's log lines
are written by racing tasks and may be stored in any order. `remove` leaves the path's revision
marked active. A handler dropped while it waits leaves its entry in the client's map until the reply
comes or the connection ends (`EntriesOwned` has the case). An old restic that could not read a file
exits with an error after writing the snapshot: the run is failed and the snapshot exists. A
schedule that has never run misses a slot that comes while the pass is busy for longer than five
minutes. `fw.enable` reads the rules once: a door other than the panel's that is closed by another call
before the switch is closed when the firewall comes up. An edit of a managed file after the
engine has looked at it is overwritten.

## The proofs

All theorems are for arbitrary constants under the named ASSUMEs, which only type the constants
and keep distinguished values apart. Proofs go action by action.

* **TaskEngineProofs.** `TypeCorrect`. `NoOrphan` is not inductive alone: it rests on
  `WorkerOwnsRow`, which says for each stage of a worker what its row may be (queued until it
  starts, running or cancelled after, and so on), unless one of its writes was lost. `TerminalFinal`
  and `LogIsSealed` are action properties that follow from it: a pump or a failing worker has a row
  that is running or cancelled, so no line can follow ok or failed. `OneAuto` rests on
  `AutoIsMigration`: a task the agent queued for itself is a mail migration, and whatever status it
  can be in short of ok and cancelled blocks another; cancelled is excluded because the operation is
  not cancellable. `RecordIsComplete` needs `RecordInv`: for each stage of the worker and each status
  of the row, how far the log is (`Plain`: lines 1, 2, ... in order; `Full`: all that were written;
  `Closed`: all, and the reason), and that log and sink together are what was written (`Queued`);
  lemmas on appending, taking the head and prefixes of sequences turn it into the property.
  `StreamIsBehind` needs `StreamInv`: every event on every bus, and everything a worker, a pump or a
  canceller is about to publish, is `Backed` by the database, and stays so because a log only
  grows and a terminal row is final. `Refinement` shows that the engine implements `TaskLedger`,
  whatever fails: from `WorkerOwnsRow`, and `LedgerInv` for what a retry and the pump hand on.
* **CertificatesProofs.** `TypeCorrect`; `OneActiveRow`, `SiteNeverForgotten`, `BackoffRespected`,
  `NoRehearsal`. They rest on `RowsStartUnset` (a row that does not exist has no expiry),
  `IssuanceHasRow`, `WorkIsFree` (rows a pass has listed are not held back, although the list is old: only
  the pass itself sets `held`, and only on a row it has taken off the list) and `RehearsalInv`
  (what is on disk, loaded, active or on its way there exists and is no rehearsal).
* **SchedulerProofs.** `TypeCorrect`; `OnePass` is inductive; `OverdueIsKept` and `OnlySlowCut` are
  step properties, the second from `OnePass`; `OneExtraPass` needs `ExtraPassInv`, which bounds
  the starts by whether the job is due, stale in the list being worked off, or claimed.
* **ConfigApplyProofs.** `TypeCorrect` holds whatever goes wrong. `NeverBroken`, `Refinement` and
  `SuccessLive` assume `Calm` (no crash, edit, failed undo or reload from outside, as in the
  run), `FailureTraceless` that revisions can be stored as well. The inductive invariant is `EngineInv`:
  nobody but the holder of the lock is inside a call; without a holder, disk and service agree on
  a valid tree; and `Holds` relates the disk and the service at each stage of the holder's call
  to what it found (`before`) and what it wants (`Target`). The refutations above show that `Calm`
  cannot be dropped for `OkMeansLive` and `NeverReloadsBroken`. `EditsKept` holds whatever goes wrong:
  `Asked` says that a call about to write over what it found of a human's has consent, and an
  undo writes back what the call had found.
* **IpcCallsProofs.** `TypeCorrect` carries `FirstTry`, without which there might be a third
  attempt. `RunOncePerLife`, `WaitersKnown` and `NoEntryLeft` are parts of one invariant, `Safe`:
  what is registered is registered under the current attempt of a call on its way; and a first
  attempt that was given up for a second, or whose caller was woken without an answer, sent nothing
  or is `Settled` (`Superseded`, `Dropped`): its agent is gone, its reader gave up, or the agent's
  loop is over and it neither got the frame nor will. That needs `Closing` (a reader that ended
  without an error has seen the last of the agent's end, so nothing of that connection is running),
  `Unheard` (what the loop has not read was not accepted), and that a frame is accepted only in the
  life its connection was made to (`Served`, `Ages`).
* **WebhookQueueProofs.** `Base` is `TypeCorrect` with `Owned`, `BatchOpen` and `ItemOpen`: rows have hooks,
  and what the pass still holds is open unless this pass has switched its hook off. From it
  `HistoryIsFinal`. `AttemptsAreBounded` needs `Counted`: POSTs are the recorded attempts, plus the
  one being recorded, plus the mishaps. `DeadEndpointsRest` needs `Rested`: the misses of a hook
  are at most its failure count, plus the one being recorded, plus the mishaps, and a hook that may
  be tried again has a try left; a test's record moves both counts to nought or only the failure
  count up, whenever it comes.
* **FirewallProofs.** Lemmas `Removal`, `Prepending` and `Allowing` say what deleting by number,
  `insert 1` and `allow` leave in the list. `TypeCorrect` with `Kinds` (what a stage works on: the reaper on rows that exist, bans and unbans on addresses, the others on ports);
  `OneSentenceEach` with `Sentenced` (an address the pass is banning has no unexpired ban of its
  own); `PanelStaysReachable` with `DoorKept` (an enable has the panel's door open or still to
  open), along `PanelStays` (no step but a stray deletion takes the rule away) and `StraysGrow`.
* **BackupsProofs.** `TypeCorrect` comes with `Planned`, `Wanting` and `Recorded`: what a schedule,
  a process and the row of its run say of each other (`RunInv`). `Accounted` adds `KeysKept`: a row
  refers to a repository that is there, since a run's row is inserted with its key and a repository
  with rows is not deleted, so the snapshot it writes later has both. `Restorable` adds
  `WroteStocked`: between the snapshot and the verdict, and after it, retention of any process
  leaves its scope a snapshot, because a policy looks at one scope and spares one. `SlotRunOnce` adds
  `SlotInv`: an unserved slot has not been tried; what the pass read as unserved, of a schedule it
  has yet to consider, still is; and a run it is about to start is of a schedule it is done with.

Every safety property that a passing run checks is proved. Only model-checked: the liveness
properties (`TaskTerminates`, `DueJobsRun`, `StopEnds`, `EveryCallReturns`, `CallReturns`,
`QueueDrains`, `BansEnd`, `SlotServed`), since TLAPS here has neither liveness under fairness nor
ENABLED. What a recursive definition computes for all inputs is out of reach too
(the induction theorems take an operator), and no module declares a RECURSIVE operator.

## The plan

Done, in this order: `TaskEngine` with `TaskLedger`, `Certificates`, `Scheduler`, `ConfigStore` and
`ConfigApply`, `IpcCalls`, `WebhookQueue`, `Firewall`, `Backups`, each with its proofs. Next, by how
much of the system rests on them:

1. An abstract delivery queue (a row is open, then delivered or given up; attempts only grow) that
   `WebhookQueue` implements, as `TaskEngine` does `TaskLedger`.
2. `Alerts`: firing, acknowledging and resolving with flapping measurements.
3. `Sessions`: login throttling, expiry, revocation, impersonation.
4. `Terminals`: attach, detach, backpressure and the idle sweep.
5. `RenewalTask`: the scheduler's own task rows and unordered log; `renew_panel` beside
   `Certificates`.
6. `Stack` and `Sites`: claims on components and the creation of a site over database, users and
   files, composed with `ConfigApply`.
7. `MigrateLock`: two processes that migrate one database; the IPC server's sinks with a peer that
   does not read.

## Not modelled, and why

Encodings (codec, frames), templates, paths and permissions are functions of one input. DNS
records, PHP, applications, mail, files, cron and the importer are recipes of external commands:
their order matters less than what the commands do, which is outside the repository. The user
interface, the installer and packaging are not Rust and keep no state of the system.

The modules stand for a small share of the repository's lines. Most of the rest is those recipes,
the text of configurations, parsing and formatting, and tests, which live in the same files as the
code; a state machine of them would say nothing about the order of steps.
