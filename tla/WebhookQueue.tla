---------------------------- MODULE WebhookQueue ----------------------------
(***************************************************************************)
(* Outbound webhooks: operations emit events, each becomes one row per     *)
(* subscribed hook in `webhook_deliveries`, and the scheduler's delivery   *)
(* pass POSTs the rows that are due, retries them on a bounded curve and   *)
(* switches off a hook whose endpoint keeps failing.  Operators create,    *)
(* edit, probe and delete hooks meanwhile.  The two tables survive a       *)
(* crash; emitters, probes and the pass do not.                            *)
(*                                                                         *)
(* Every database call and every POST is an action.  One pass runs at a    *)
(* time (OnePassPerJob of Scheduler).                                      *)
(***************************************************************************)
EXTENDS Naturals, FiniteSets

CONSTANTS
  Hooks,        \* ids of `webhooks`, never reused (AUTOINCREMENT)
  Emitters,     \* operations that may be inside `emit` at once
  None,
  MaxAttempts,  \* MAX_ATTEMPTS
  Threshold,    \* FAILURE_THRESHOLD
  Batch,        \* DELIVERIES_PER_TICK
  MaxRows,      \* bound: rows of `webhook_deliveries`, whose ids only grow
  MaxEdits,     \* bound: operator calls on a hook, and restores
  MaxMishaps    \* bound: agent crashes and failed database calls

ASSUME WebhookAssumption ==
  /\ None \notin Hooks \cup Nat
  /\ MaxAttempts \in Nat \ {0} /\ Threshold \in Nat \ {0} /\ Batch \in Nat \ {0}
  /\ MaxRows \in Nat
  /\ MaxEdits \in Nat /\ MaxMishaps \in Nat

Deliveries == 1..MaxRows

VARIABLES
  \* --- SQLite ---------------------------------------------------------
  hook,      \* "none" before it is created, "active", "off", "gone" once deleted
  conf,      \* its stored URL and secret: usable, or what a restore can leave
  failures,  \* webhooks.failure_count
  row,       \* webhook_deliveries.status; "none" before, "gone" after
  of,        \* webhook_deliveries.webhook_id
  attempts,
  body,      \* payload_json: with id 0, or with the row's own id
  due,       \* rows whose next_attempt_at has passed
  ahead,     \* ... and for each, the due rows with an earlier one
  \* --- agent memory ---------------------------------------------------
  emitting,  \* hooks an emitter has listed and not queued for yet
  fresh,     \* the row an emitter has inserted and not finalised yet
  probe,     \* where a webhook.test on a hook is (bound: one per hook at a time)
  stage,     \* where the pass is
  batch,     \* rows the pass has read and not handled yet
  item,      \* the row it is handling
  copy,      \* body and conf as the pass read them
  disabled,  \* hooks this pass has switched off
  \* --- endpoints, and what the properties observe ---------------------
  posts,     \* POSTs made for a row
  bodies,    \* the bodies they carried
  misses,    \* POSTs of passes to a hook that failed since one landed, since a probe
             \* that landed was recorded, or since the hook was edited
  edits, mishaps

hookVars  == <<hook, conf, failures>>
rowVars   == <<row, of, attempts, body, due, ahead>>
emitVars  == <<emitting, fresh, probe>>
passVars  == <<stage, batch, item, copy, disabled>>
obsVars   == <<posts, bodies, misses>>
vars      == <<hookVars, rowVars, emitVars, passVars, obsVars, edits, mishaps>>

HookStates == {"none", "active", "off", "gone"}
Confs      == {"usable", "badUrl", "badSecret"}
RowStates  == {"none", "pending", "delivered", "failed", "gone"}
Finished   == {"delivered", "failed"}
Bodies     == {"placeholder", "final"}
Probes     == {"idle", "posting", "landed", "missed"}
Stages     == {"idle", "next", "post", "landed", "missed", "badUrl", "giveUp", "giveUpSpoilt"}

Unread == [body |-> "placeholder", conf |-> "usable"]

TypeOK ==
  /\ hook \in [Hooks -> HookStates] /\ conf \in [Hooks -> Confs] /\ failures \in [Hooks -> Nat]
  /\ row \in [Deliveries -> RowStates] /\ of \in [Deliveries -> Hooks \cup {None}]
  /\ attempts \in [Deliveries -> Nat] /\ body \in [Deliveries -> Bodies]
  /\ due \in SUBSET Deliveries /\ ahead \in [Deliveries -> SUBSET Deliveries]
  /\ emitting \in [Emitters -> SUBSET Hooks] /\ fresh \in [Emitters -> Deliveries \cup {None}]
  /\ probe \in [Hooks -> Probes]
  /\ stage \in Stages /\ batch \in SUBSET Deliveries /\ item \in Deliveries \cup {None}
  /\ copy \in [Deliveries -> [body : Bodies, conf : Confs]] /\ disabled \in SUBSET Hooks
  /\ posts \in [Deliveries -> Nat] /\ bodies \in [Deliveries -> SUBSET Bodies]
  /\ misses \in [Hooks -> Nat]
  /\ edits \in Nat /\ mishaps \in Nat

Init ==
  /\ hook = [h \in Hooks |-> "none"] /\ conf = [h \in Hooks |-> "usable"]
  /\ failures = [h \in Hooks |-> 0]
  /\ row = [d \in Deliveries |-> "none"] /\ of = [d \in Deliveries |-> None]
  /\ attempts = [d \in Deliveries |-> 0] /\ body = [d \in Deliveries |-> "placeholder"]
  /\ due = {} /\ ahead = [d \in Deliveries |-> {}]
  /\ emitting = [e \in Emitters |-> {}] /\ fresh = [e \in Emitters |-> None]
  /\ probe = [h \in Hooks |-> "idle"]
  /\ stage = "idle" /\ batch = {} /\ item = None
  /\ copy = [d \in Deliveries |-> Unread] /\ disabled = {}
  /\ posts = [d \in Deliveries |-> 0] /\ bodies = [d \in Deliveries |-> {}]
  /\ misses = [h \in Hooks |-> 0]
  /\ edits = 0 /\ mishaps = 0

Edit  == edits < MaxEdits /\ edits' = edits + 1
Mishap == mishaps < MaxMishaps /\ mishaps' = mishaps + 1

Exists(h) == hook[h] \in {"active", "off"}
QueuedFor(h) == {d \in Deliveries : of[d] = h /\ row[d] = "pending"}

\* The rows D stop being due.
Undue(D) ==
  /\ due' = due \ D
  /\ ahead' = [d \in Deliveries |-> IF d \in D THEN {} ELSE ahead[d] \ D]

\* A success, a probe that lands or an edit starts the streak over.
Forgiven(h) == [failures EXCEPT ![h] = 0]

-----------------------------------------------------------------------------
(* Operators.                                                              *)

\* webhook.set without an id.
Create(h) ==
  /\ hook[h] = "none"
  /\ \E on \in {"active", "off"} : hook' = [hook EXCEPT ![h] = on]
  /\ UNCHANGED <<conf, failures, rowVars, emitVars, passVars, obsVars, edits, mishaps>>

\* webhook.set with an id: the new URL has been validated, and an edit clears
\* the failure bookkeeping.  The queue stays as it is.
Update(h) ==
  /\ Edit /\ Exists(h)
  /\ \E on \in {"active", "off"} : hook' = [hook EXCEPT ![h] = on]
  /\ \E c \in {"usable", conf[h]} : c # "badUrl" /\ conf' = [conf EXCEPT ![h] = c]
  /\ failures' = Forgiven(h)
  /\ misses' = [misses EXCEPT ![h] = 0]
  /\ UNCHANGED <<rowVars, emitVars, passVars, posts, bodies, mishaps>>

\* webhook.delete; the rows go with it.
Delete(h) ==
  /\ Edit /\ Exists(h)
  /\ hook' = [hook EXCEPT ![h] = "gone"]
  /\ row' = [d \in Deliveries |-> IF of[d] = h THEN "gone" ELSE row[d]]
  /\ Undue({d \in Deliveries : of[d] = h})
  /\ UNCHANGED <<conf, failures, of, attempts, body, emitVars, passVars, obsVars, mishaps>>

\* webhook.test: the hook is read, and its URL and secret are checked;
Test(h) ==
  /\ Edit /\ Exists(h) /\ conf[h] = "usable" /\ probe[h] = "idle"
  /\ probe' = [probe EXCEPT ![h] = "posting"]
  /\ UNCHANGED <<hookVars, rowVars, emitting, fresh, passVars, obsVars, mishaps>>

\* a POST without a row, whatever became of the hook;
TestPost(h) ==
  /\ probe[h] = "posting"
  /\ \E end \in {"landed", "missed"} : probe' = [probe EXCEPT ![h] = end]
  /\ UNCHANGED <<hookVars, rowVars, emitting, fresh, passVars, obsVars, edits, mishaps>>

\* and set_webhook_probe_result, which moves the streak and nothing else: passes may
\* have missed, or operators edited the hook, since the POST.  Its error is ignored.
TestRecord(h) ==
  /\ probe[h] \in {"landed", "missed"}
  /\ probe' = [probe EXCEPT ![h] = "idle"]
  /\ \/ /\ Exists(h) /\ probe[h] = "landed"
        /\ failures' = Forgiven(h) /\ misses' = [misses EXCEPT ![h] = 0]
        /\ UNCHANGED mishaps
     \/ /\ Exists(h) /\ probe[h] = "missed"
        /\ failures' = [failures EXCEPT ![h] = @ + 1]
        /\ UNCHANGED <<misses, mishaps>>
     \/ /\ hook[h] = "gone"
        /\ UNCHANGED <<failures, misses, mishaps>>
     \/ /\ Mishap
        /\ UNCHANGED <<failures, misses>>
  /\ UNCHANGED <<hook, conf, rowVars, emitting, fresh, passVars, posts, bodies, edits>>

\* A hand-edited database, or one restored without its master key.
Restore(h) ==
  /\ Edit /\ Exists(h)
  /\ \E c \in {"badUrl", "badSecret"} : conf' = [conf EXCEPT ![h] = c]
  /\ UNCHANGED <<hook, failures, rowVars, emitVars, passVars, obsVars, mishaps>>

\* purge_audit -> purge_deliveries: finished rows age out, pending ones never.
Purge ==
  /\ \E D \in SUBSET {d \in Deliveries : row[d] \in Finished} :
       /\ D # {}
       /\ row' = [d \in Deliveries |-> IF d \in D THEN "gone" ELSE row[d]]
  /\ UNCHANGED <<hookVars, of, attempts, body, due, ahead, emitVars, passVars, obsVars,
                 edits, mishaps>>

OperatorStep(h) ==
  \/ Create(h) \/ Update(h) \/ Delete(h) \/ Restore(h)
  \/ Test(h) \/ TestPost(h) \/ TestRecord(h)

-----------------------------------------------------------------------------
(* emit: list the subscribed hooks, then two writes for each.              *)

\* webhooks_subscribed_to; the event decides which of the active hooks match.
Emit(e) ==
  /\ emitting[e] = {} /\ fresh[e] = None
  /\ \E S \in SUBSET {h \in Hooks : hook[h] = "active"} :
       S # {} /\ emitting' = [emitting EXCEPT ![e] = S]
  /\ UNCHANGED <<hookVars, rowVars, fresh, probe, passVars, obsVars, edits, mishaps>>

\* enqueue_delivery with a body that says id 0.  A deleted hook is a foreign-key
\* error, which like any other is logged and skipped.
Enqueue(e, h) ==
  /\ h \in emitting[e] /\ fresh[e] = None
  /\ emitting' = [emitting EXCEPT ![e] = @ \ {h}]
  /\ \/ /\ Exists(h)
        /\ \E d \in Deliveries :
             /\ row[d] = "none" /\ \A c \in 1..(d - 1) : row[c] # "none"
             /\ row' = [row EXCEPT ![d] = "pending"]
             /\ of' = [of EXCEPT ![d] = h]
             /\ due' = due \cup {d}
             /\ ahead' = [ahead EXCEPT ![d] = due]
             /\ fresh' = [fresh EXCEPT ![e] = d]
        /\ UNCHANGED mishaps
     \/ /\ hook[h] = "gone"
        /\ UNCHANGED <<row, of, due, ahead, fresh, mishaps>>
     \/ /\ Exists(h) /\ Mishap
        /\ UNCHANGED <<row, of, due, ahead, fresh>>
  /\ UNCHANGED <<hookVars, attempts, body, probe, passVars, obsVars, edits>>

\* set_delivery_payload: the row's id goes into the body, while the row says
\* that nothing was sent.
SetPayload(e) ==
  LET d == fresh[e] IN
  /\ d # None
  /\ fresh' = [fresh EXCEPT ![e] = None]
  /\ \/ /\ attempts[d] = 0 /\ row[d] = "pending"
        /\ body' = [body EXCEPT ![d] = "final"]
        /\ UNCHANGED mishaps
     \/ /\ attempts[d] # 0 \/ row[d] # "pending"
        /\ UNCHANGED <<body, mishaps>>
     \/ Mishap /\ UNCHANGED body
  /\ UNCHANGED <<hookVars, row, of, attempts, due, ahead, emitting, probe, passVars, obsVars,
                 edits>>

EmitStep(e) == (\E h \in Hooks : Enqueue(e, h)) \/ SetPayload(e)

-----------------------------------------------------------------------------
(* deliver_due, one pass.                                                  *)

\* The retry delay of a row has passed.
ComeDue(d) ==
  /\ row[d] = "pending" /\ d \notin due
  /\ due' = due \cup {d}
  /\ ahead' = [ahead EXCEPT ![d] = due]
  /\ UNCHANGED <<hookVars, row, of, attempts, body, emitVars, passVars, obsVars,
                 edits, mishaps>>

\* Mutant: a row that was tried is not picked up again.
EligibleOnce == {d \in due : row[d] = "pending" /\ hook[of[d]] = "active" /\ attempts[d] = 0}

\* due_deliveries: the oldest due rows of active hooks.
Eligible == {d \in due : row[d] = "pending" /\ hook[of[d]] = "active"}
Oldest == {d \in Eligible : Cardinality(ahead[d] \cap Eligible) < Batch}

StartPass ==
  /\ stage = "idle" /\ Eligible # {}
  /\ batch' = Oldest
  /\ copy' = [d \in Deliveries |->
                IF d \in Oldest THEN [body |-> body[d], conf |-> conf[of[d]]] ELSE Unread]
  /\ stage' = "next" /\ item' = None /\ disabled' = {}
  /\ UNCHANGED <<hookVars, rowVars, emitVars, obsVars, edits, mishaps>>

\* Mutant: nothing remembers which hooks this pass gave up on.
NextItemAlways ==
  /\ stage = "next" /\ batch # {}
  /\ \E d \in batch :
       /\ ahead[d] \cap batch = {}
       /\ batch' = batch \ {d} /\ item' = d
       /\ stage' = "post"
  /\ UNCHANGED <<hookVars, rowVars, emitVars, copy, disabled, obsVars, edits, mishaps>>

\* The next row of the batch, oldest first: skipped when its hook was switched
\* off by this pass, else its URL, then its secret, are checked as they were read.
NextItem ==
  /\ stage = "next" /\ batch # {}
  /\ \E d \in batch :
       /\ ahead[d] \cap batch = {}
       /\ batch' = batch \ {d} /\ item' = d
       /\ stage' = IF of[d] \in disabled THEN "next"
                   ELSE CASE copy[d].conf = "usable"    -> "post"
                          [] copy[d].conf = "badUrl"    -> "badUrl"
                          [] copy[d].conf = "badSecret" -> "giveUpSpoilt"
  /\ UNCHANGED <<hookVars, rowVars, emitVars, copy, disabled, obsVars, edits, mishaps>>

\* The POST itself.  A destination refused before it is a miss like any other.
Post ==
  /\ stage = "post"
  /\ posts' = [posts EXCEPT ![item] = @ + 1]
  /\ bodies' = [bodies EXCEPT ![item] = @ \cup {copy[item].body}]
  /\ \/ stage' = "landed" /\ misses' = [misses EXCEPT ![of[item]] = 0]
     \/ stage' = "missed" /\ misses' = [misses EXCEPT ![of[item]] = @ + 1]
  /\ UNCHANGED <<hookVars, rowVars, emitVars, batch, item, copy, disabled, edits, mishaps>>

\* delivery_succeeded; its error is ignored, and so is a row that is gone.
Succeeded ==
  /\ stage = "landed" /\ stage' = "next"
  /\ \/ /\ row[item] # "gone"
        /\ row' = [row EXCEPT ![item] = "delivered"]
        /\ attempts' = [attempts EXCEPT ![item] = @ + 1]
        /\ failures' = Forgiven(of[item])
        /\ Undue({item})
        /\ UNCHANGED mishaps
     \/ /\ row[item] = "gone"
        /\ UNCHANGED <<row, attempts, failures, due, ahead, mishaps>>
     \/ Mishap /\ UNCHANGED <<row, attempts, failures, due, ahead>>
  /\ UNCHANGED <<hook, conf, of, body, emitVars, batch, item, copy, disabled, obsVars,
                 edits>>

\* Mutant: one attempt too many.
RetryLate(n) == n < MaxAttempts + 1

\* backoff: is there another attempt after n failed ones.
Retry(n) == n \in 1..(MaxAttempts - 1)

\* The row part of delivery_failed, after which the row waits or is finished.
MarkFailed(again) ==
  /\ attempts' = [attempts EXCEPT ![item] = @ + 1]
  /\ row' = IF again THEN row ELSE [row EXCEPT ![item] = "failed"]
  /\ Undue({item})

\* Mutant: only the exact count switches a hook off.
GivesUpAt(streak) == streak = Threshold

GivesUp(streak) == streak >= Threshold

\* delivery_failed.  A deleted hook (or any database error) ends the whole pass.
Failed ==
  LET h == of[item] IN
  /\ stage = "missed"
  /\ \/ /\ Exists(h)
        /\ MarkFailed(Retry(attempts[item] + 1))
        /\ failures' = [failures EXCEPT ![h] = @ + 1]
        /\ stage' = IF GivesUp(failures[h] + 1) THEN "giveUp" ELSE "next"
        /\ UNCHANGED <<batch, mishaps>>
     \/ /\ hook[h] = "gone"
        /\ stage' = "idle" /\ batch' = {}
        /\ UNCHANGED <<row, attempts, failures, due, ahead, mishaps>>
     \/ /\ Mishap
        /\ stage' = "idle" /\ batch' = {}
        /\ UNCHANGED <<row, attempts, failures, due, ahead>>
  /\ UNCHANGED <<hook, conf, of, body, emitVars, item, copy, disabled, obsVars, edits>>

\* delivery_failed for a URL that would not be stored today: no retry, and its
\* error is ignored.
FailedUrl ==
  LET h == of[item] IN
  /\ stage = "badUrl" /\ stage' = "giveUpSpoilt"
  /\ \/ /\ Exists(h)
        /\ MarkFailed(FALSE)
        /\ failures' = [failures EXCEPT ![h] = @ + 1]
        /\ UNCHANGED mishaps
     \/ /\ hook[h] = "gone"
        /\ UNCHANGED <<row, attempts, failures, due, ahead, mishaps>>
     \/ /\ Mishap
        /\ UNCHANGED <<row, attempts, failures, due, ahead>>
  /\ UNCHANGED <<hook, conf, of, body, emitVars, batch, item, copy, disabled, obsVars,
                 edits>>

\* disable_webhook: the hook goes off and its queue is abandoned.  If the write
\* fails, a spoilt hook is still skipped for the rest of the pass, a failing one not.
Disable ==
  LET h == of[item] IN
  /\ stage \in {"giveUp", "giveUpSpoilt"} /\ stage' = "next"
  /\ \/ /\ hook' = [hook EXCEPT ![h] = IF Exists(h) THEN "off" ELSE @]
        /\ row' = [d \in Deliveries |-> IF d \in QueuedFor(h) THEN "failed" ELSE row[d]]
        /\ Undue(QueuedFor(h))
        /\ disabled' = disabled \cup {h}
        /\ UNCHANGED mishaps
     \/ /\ Mishap
        /\ disabled' = IF stage = "giveUpSpoilt" THEN disabled \cup {h} ELSE disabled
        /\ UNCHANGED <<hook, row, due, ahead>>
  /\ UNCHANGED <<conf, failures, of, attempts, body, emitVars, batch, item, copy, obsVars,
                 edits>>

EndPass ==
  /\ stage = "next" /\ batch = {}
  /\ stage' = "idle" /\ item' = None /\ disabled' = {}
  /\ copy' = [d \in Deliveries |-> Unread]
  /\ UNCHANGED <<hookVars, rowVars, emitVars, batch, obsVars, edits, mishaps>>

PassStep == StartPass \/ NextItem \/ Post \/ Succeeded \/ Failed \/ FailedUrl \/ Disable \/ EndPass

-----------------------------------------------------------------------------
\* The agent dies and is started again.
Crash ==
  /\ Mishap
  /\ emitting' = [e \in Emitters |-> {}] /\ fresh' = [e \in Emitters |-> None]
  /\ probe' = [h \in Hooks |-> "idle"]
  /\ stage' = "idle" /\ batch' = {} /\ item' = None
  /\ copy' = [d \in Deliveries |-> Unread] /\ disabled' = {}
  /\ UNCHANGED <<hookVars, rowVars, obsVars, edits>>

Next ==
  \/ \E h \in Hooks : OperatorStep(h)
  \/ \E e \in Emitters : Emit(e) \/ EmitStep(e)
  \/ \E d \in Deliveries : ComeDue(d)
  \/ PassStep \/ Purge \/ Crash

Spec == Init /\ [][Next]_vars

\* The scheduler starts a pass every half minute, time passes, and every POST
\* has a timeout; nothing is assumed of endpoints, emitters, probes or operators.
Fairness == WF_vars(PassStep) /\ \A d \in Deliveries : WF_vars(ComeDue(d))

FairSpec == Spec /\ Fairness

-----------------------------------------------------------------------------
(* Properties.                                                             *)

\* A row that is delivered or given up is history: no pass re-reads it, also not
\* the rest of a batch that was read before its hook was switched off, which would
\* be "exactly the unbounded retrying the threshold exists to stop".
FinishedStaysFinished ==
  [][\A d \in Deliveries : row[d] \in Finished =>
       row'[d] \in {row[d], "gone"} /\ posts'[d] = posts[d]]_vars

\* At-least-once, within bounds: an endpoint sees a row at most MAX_ATTEMPTS times,
\* and once more for each crash or failed write that lost the record of a POST.
AttemptsBounded ==
  \A d \in Deliveries : posts[d] <= MaxAttempts + mishaps

\* "The bound that stops a dead endpoint from becoming an unbounded retry queue":
\* passes try a hook FAILURE_THRESHOLD times in a row and no more until it is edited,
\* however rows, batches, re-reads and crashes fall between the tries.  A probe that
\* landed starts the row over when it is recorded, which may be after later misses.
DeadEndpointRests ==
  \A h \in Hooks : hook[h] # "gone" => misses[h] <= Threshold + mishaps

\* The queue is "in the database rather than in memory" so that a restart drops
\* nothing: every row of a hook that stays active is finished in the end.
QueueDrains ==
  \A d \in Deliveries :
    row[d] = "pending" ~> row[d] # "pending" \/ hook[of[d]] # "active"

-----------------------------------------------------------------------------
(* What the code says of itself and TLC refutes.                           *)

\* set_delivery_payload is "guarded on `attempts = 0` so this can never rewrite a
\* body somebody has already received and verified a signature over".
BodyFrozen == \A d \in Deliveries : Cardinality(bodies[d]) <= 1
=============================================================================
