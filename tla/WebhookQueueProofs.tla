------------------------- MODULE WebhookQueueProofs -------------------------
(***************************************************************************)
(* Proofs about webhook delivery, for any number of hooks, emitters, rows, *)
(* attempts, edits and mishaps, and any threshold and batch size.          *)
(***************************************************************************)
EXTENDS WebhookQueue, TLAPS

Holding == {"post", "landed", "missed", "badUrl", "giveUp", "giveUpSpoilt"}
Working == {"post", "landed", "missed", "badUrl"}

\* A row belongs to a hook that was created, a live one to a hook that exists.
Owned ==
  \A d \in Deliveries :
    /\ row[d] # "none" => of[d] \in Hooks /\ hook[of[d]] # "none"
    /\ row[d] \in {"pending", "delivered", "failed"} => Exists(of[d])

Open(d) == row[d] = "pending" \/ (row[d] = "gone" /\ hook[of[d]] = "gone")

\* What the pass has still to handle is open, or its hook was switched off by the pass.
BatchOpen ==
  \A d \in batch : row[d] # "none" /\ (of[d] \notin disabled => Open(d))

\* The row it is handling is not in the rest of the batch, and is open until recorded.
ItemOpen ==
  /\ stage \in Holding => item \in Deliveries /\ item \notin batch /\ row[item] # "none"
  /\ stage \in Working => Open(item)

Base == TypeOK /\ Owned /\ BatchOpen /\ ItemOpen

\* The queue of due rows keeps its type when rows stop being due.
LEMMA UndueType ==
  ASSUME TypeOK, NEW D, Undue(D) \/ UNCHANGED <<due, ahead>>
  PROVE  due' \in SUBSET Deliveries /\ ahead' \in [Deliveries -> SUBSET Deliveries]
<1>1. CASE UNCHANGED <<due, ahead>>
  BY <1>1 DEF TypeOK
<1>2. CASE Undue(D)
  <2>1. \A d \in Deliveries : (IF d \in D THEN {} ELSE ahead[d] \ D) \in SUBSET Deliveries
    BY DEF TypeOK
  <2>2. due' = due \ D /\ ahead' = [d \in Deliveries |-> IF d \in D THEN {} ELSE ahead[d] \ D]
    BY <1>2 DEF Undue
  <2> QED
    BY <2>1, <2>2 DEF TypeOK
<1> QED
  BY <1>1, <1>2

\* Every operation, write, POST and crash keeps what the pass holds apart from what is
\* finished.
THEOREM BaseInvariant == Spec => []Base
<1>1. Init => Base
  BY WebhookAssumption DEF Init, Base, TypeOK, Owned, BatchOpen, ItemOpen, Holding, Working, HookStates, Confs, RowStates, Bodies, Probes, Stages, Unread
<1>2. Base /\ [Next]_vars => Base'
  <2> SUFFICES ASSUME TypeOK, Owned, BatchOpen, ItemOpen, [Next]_vars
               PROVE  Base'
    BY DEF Base
  <2>1. ASSUME NEW h \in Hooks, Create(h)
        PROVE  Base'
    <3>1. TypeOK'
      BY <2>1 DEF TypeOK, Create, HookStates, Confs, RowStates, Bodies, Probes, Stages, Unread,
         hookVars, rowVars, emitVars, passVars, obsVars
    <3>2. Owned'
      BY <2>1 DEF TypeOK, Owned, BatchOpen, ItemOpen, Open, Exists, Holding, Working,
         Stages, RowStates, Create, hookVars, rowVars, emitVars, passVars, obsVars
    <3>3. BatchOpen'
      BY <2>1 DEF TypeOK, Owned, BatchOpen, ItemOpen, Open, Exists, Holding, Working,
         Stages, RowStates, Create, hookVars, rowVars, emitVars, passVars, obsVars
    <3>4. ItemOpen'
      BY <2>1 DEF TypeOK, Owned, BatchOpen, ItemOpen, Open, Exists, Holding, Working,
         Stages, RowStates, Create, hookVars, rowVars, emitVars, passVars, obsVars
    <3> QED
      BY <3>1, <3>2, <3>3, <3>4 DEF Base
  <2>2. ASSUME NEW h \in Hooks, Update(h)
        PROVE  Base'
    <3>1. TypeOK'
      BY <2>2 DEF TypeOK, Update, Edit, Exists, Forgiven, HookStates, Confs, RowStates,
         Bodies, Probes, Stages, Unread, hookVars, rowVars, emitVars, passVars, obsVars
    <3>2. Owned'
      BY <2>2 DEF TypeOK, Owned, BatchOpen, ItemOpen, Open, Exists, Holding, Working,
         Stages, RowStates, Update, Edit, Forgiven, hookVars, rowVars, emitVars, passVars,
         obsVars
    <3>3. BatchOpen'
      BY <2>2 DEF TypeOK, Owned, BatchOpen, ItemOpen, Open, Exists, Holding, Working,
         Stages, RowStates, Update, Edit, Forgiven, hookVars, rowVars, emitVars, passVars,
         obsVars
    <3>4. ItemOpen'
      BY <2>2 DEF TypeOK, Owned, BatchOpen, ItemOpen, Open, Exists, Holding, Working,
         Stages, RowStates, Update, Edit, Forgiven, hookVars, rowVars, emitVars, passVars,
         obsVars
    <3> QED
      BY <3>1, <3>2, <3>3, <3>4 DEF Base
  <2>3. ASSUME NEW h \in Hooks, Delete(h)
        PROVE  Base'
    <3>1. TypeOK'
      BY <2>3 DEF TypeOK, Delete, Edit, Exists, Undue, HookStates, Confs, RowStates,
         Bodies, Probes, Stages, Unread, hookVars, rowVars, emitVars, passVars, obsVars
    <3>2. Owned'
      BY <2>3 DEF TypeOK, Owned, BatchOpen, ItemOpen, Open, Exists, Holding, Working,
         Stages, RowStates, Delete, Edit, Undue, hookVars, rowVars, emitVars, passVars,
         obsVars
    <3>3. BatchOpen'
      BY <2>3 DEF TypeOK, Owned, BatchOpen, ItemOpen, Open, Exists, Holding, Working,
         Stages, RowStates, Delete, Edit, Undue, hookVars, rowVars, emitVars, passVars,
         obsVars
    <3>4. ItemOpen'
      BY <2>3 DEF TypeOK, Owned, BatchOpen, ItemOpen, Open, Exists, Holding, Working,
         Stages, RowStates, Delete, Edit, Undue, hookVars, rowVars, emitVars, passVars,
         obsVars
    <3> QED
      BY <3>1, <3>2, <3>3, <3>4 DEF Base
  <2>4. ASSUME NEW h \in Hooks, Test(h)
        PROVE  Base'
    <3>1. TypeOK'
      BY <2>4 DEF TypeOK, Test, Edit, Probes, hookVars, rowVars, passVars, obsVars
    <3>2. Owned' /\ BatchOpen' /\ ItemOpen'
      BY <2>4 DEF Owned, BatchOpen, ItemOpen, Open, Exists, Holding, Working, Test,
         hookVars, rowVars, passVars, obsVars
    <3> QED
      BY <3>1, <3>2 DEF Base
  <2>21. ASSUME NEW h \in Hooks, TestPost(h)
        PROVE  Base'
    <3>1. TypeOK'
      BY <2>21 DEF TypeOK, TestPost, Probes, hookVars, rowVars, passVars, obsVars
    <3>2. Owned' /\ BatchOpen' /\ ItemOpen'
      BY <2>21 DEF Owned, BatchOpen, ItemOpen, Open, Exists, Holding, Working, TestPost,
         hookVars, rowVars, passVars, obsVars
    <3> QED
      BY <3>1, <3>2 DEF Base
  <2>22. ASSUME NEW h \in Hooks, TestRecord(h)
        PROVE  Base'
    <3>1. failures' \in [Hooks -> Nat]
      BY <2>22 DEF TypeOK, TestRecord, Forgiven
    <3>2. misses' \in [Hooks -> Nat]
      BY <2>22 DEF TypeOK, TestRecord
    <3>3. mishaps' \in Nat /\ probe' \in [Hooks -> Probes]
      BY <2>22 DEF TypeOK, TestRecord, Mishap, Probes
    <3>4. TypeOK'
      BY <2>22, <3>1, <3>2, <3>3 DEF TypeOK, TestRecord, rowVars, passVars
    <3>5. Owned' /\ BatchOpen' /\ ItemOpen'
      BY <2>22 DEF Owned, BatchOpen, ItemOpen, Open, Exists, Holding, Working, TestRecord,
         rowVars, passVars
    <3> QED
      BY <3>4, <3>5 DEF Base
  <2>5. ASSUME NEW h \in Hooks, Restore(h)
        PROVE  Base'
    <3>1. TypeOK'
      BY <2>5 DEF TypeOK, Restore, Edit, Exists, HookStates, Confs, RowStates, Bodies, Probes,
         Stages, Unread, hookVars, rowVars, emitVars, passVars, obsVars
    <3>2. Owned' /\ BatchOpen' /\ ItemOpen'
      BY <2>5 DEF Owned, BatchOpen, ItemOpen, Open, Exists, Holding, Working, Restore,
         hookVars, rowVars, emitVars, passVars, obsVars
    <3> QED
      BY <3>1, <3>2 DEF Base
  <2>6. CASE Purge
    <3>1. TypeOK'
      BY <2>6 DEF TypeOK, Purge, Finished, HookStates, Confs, RowStates, Bodies, Probes, Stages,
         Unread, hookVars, rowVars, emitVars, passVars, obsVars
    <3>2. /\ UNCHANGED <<of, hook, disabled, batch, stage, item>>
          /\ \A d \in Deliveries : /\ row'[d] \in {row[d], "gone"}
                                   /\ row[d] \in {"none", "pending", "gone"} => row'[d] = row[d]
      BY <2>6 DEF TypeOK, Purge, Finished, hookVars, passVars
    <3>3. Owned'
      BY <3>2 DEF Owned, Exists
    <3>4. ASSUME NEW d \in Deliveries, Open(d)
          PROVE  Open(d)'
      BY <3>2, <3>4 DEF Open
    <3>5. BatchOpen'
      <4> SUFFICES ASSUME NEW d \in batch PROVE BatchOpen!(d)'
        BY <3>2 DEF BatchOpen
      <4>1. d \in Deliveries /\ row[d] # "none" /\ (of[d] \notin disabled => Open(d))
        BY DEF TypeOK, BatchOpen
      <4> QED BY <3>2, <3>4, <4>1
    <3>6. ItemOpen'
      <4>1. Working \subseteq Holding
        BY DEF Working, Holding
      <4> QED BY <3>2, <3>4, <4>1 DEF ItemOpen
    <3> QED
      BY <3>1, <3>3, <3>5, <3>6 DEF Base
  <2>7. ASSUME NEW e \in Emitters, Emit(e)
        PROVE  Base'
    <3>1. TypeOK'
      BY <2>7 DEF TypeOK, Emit, HookStates, Confs, RowStates, Bodies, Probes, Stages, Unread,
         hookVars, rowVars, emitVars, passVars, obsVars
    <3>2. Owned' /\ BatchOpen' /\ ItemOpen'
      BY <2>7 DEF Owned, BatchOpen, ItemOpen, Open, Exists, Holding, Working, Emit,
         hookVars, rowVars, emitVars, passVars, obsVars
    <3> QED
      BY <3>1, <3>2 DEF Base
  <2>8. ASSUME NEW e \in Emitters, NEW h \in Hooks, Enqueue(e, h)
        PROVE  Base'
    <3>1. emitting' \in [Emitters -> SUBSET Hooks]
      BY <2>8 DEF TypeOK, Enqueue, Exists, Mishap
    <3>2. row' \in [Deliveries -> RowStates]
      BY <2>8 DEF TypeOK, Enqueue, Exists, Mishap, RowStates
    <3>3. of' \in [Deliveries -> Hooks \cup {None}]
      BY <2>8 DEF TypeOK, Enqueue, Exists, Mishap
    <3>4. due' \in SUBSET Deliveries
      BY <2>8 DEF TypeOK, Enqueue, Exists, Mishap
    <3>5. ahead' \in [Deliveries -> SUBSET Deliveries]
      BY <2>8 DEF TypeOK, Enqueue, Exists, Mishap
    <3>6. fresh' \in [Emitters -> Deliveries \cup {None}]
      BY <2>8 DEF TypeOK, Enqueue, Exists, Mishap
    <3>7. mishaps' \in Nat
      BY <2>8 DEF TypeOK, Enqueue, Exists, Mishap
    <3>8. TypeOK'
      BY <2>8, <3>1, <3>2, <3>3, <3>4, <3>5, <3>6, <3>7 DEF TypeOK, Enqueue, hookVars,
         rowVars, emitVars, passVars, obsVars
    <3>9. Owned'
      BY <2>8 DEF TypeOK, Owned, BatchOpen, ItemOpen, Open, Exists, Holding, Working,
         Stages, RowStates, Enqueue, Mishap, hookVars, rowVars, emitVars, passVars,
         obsVars
    <3>10. BatchOpen'
      BY <2>8 DEF TypeOK, Owned, BatchOpen, ItemOpen, Open, Exists, Holding, Working,
         Stages, RowStates, Enqueue, Mishap, hookVars, rowVars, emitVars, passVars,
         obsVars
    <3>11. ItemOpen'
      BY <2>8 DEF TypeOK, Owned, BatchOpen, ItemOpen, Open, Exists, Holding, Working,
         Stages, RowStates, Enqueue, Mishap, hookVars, rowVars, emitVars, passVars,
         obsVars
    <3> QED
      BY <3>8, <3>9, <3>10, <3>11 DEF Base
  <2>9. ASSUME NEW e \in Emitters, SetPayload(e)
        PROVE  Base'
    <3>1. TypeOK'
      BY <2>9 DEF TypeOK, SetPayload, Mishap, HookStates, Confs, RowStates, Bodies, Probes,
         Stages, Unread, hookVars, rowVars, emitVars, passVars, obsVars
    <3>2. Owned' /\ BatchOpen' /\ ItemOpen'
      BY <2>9 DEF Owned, BatchOpen, ItemOpen, Open, Exists, Holding, Working, SetPayload,
         hookVars, rowVars, emitVars, passVars, obsVars
    <3> QED
      BY <3>1, <3>2 DEF Base
  <2>10. ASSUME NEW d \in Deliveries, ComeDue(d)
        PROVE  Base'
    <3>1. TypeOK'
      BY <2>10 DEF TypeOK, ComeDue, HookStates, Confs, RowStates, Bodies, Probes, Stages, Unread,
         hookVars, rowVars, emitVars, passVars, obsVars
    <3>2. Owned' /\ BatchOpen' /\ ItemOpen'
      BY <2>10 DEF Owned, BatchOpen, ItemOpen, Open, Exists, Holding, Working, ComeDue,
         hookVars, rowVars, emitVars, passVars, obsVars
    <3> QED
      BY <3>1, <3>2 DEF Base
  <2>11. CASE StartPass
    <3>1. batch' \in SUBSET Deliveries
      BY <2>11 DEF TypeOK, StartPass, Oldest, Eligible
    <3>2. copy' \in [Deliveries -> [body : Bodies, conf : Confs]]
      BY <2>11 DEF TypeOK, StartPass, Oldest, Eligible, Bodies, Confs, Unread, Owned
    <3>3. stage' \in Stages
      BY <2>11 DEF TypeOK, StartPass, Oldest, Eligible, Stages
    <3>4. item' \in Deliveries \cup {None}
      BY <2>11 DEF TypeOK, StartPass, Oldest, Eligible
    <3>5. disabled' \in SUBSET Hooks
      BY <2>11 DEF TypeOK, StartPass, Oldest, Eligible
    <3>6. TypeOK'
      BY <2>11, <3>1, <3>2, <3>3, <3>4, <3>5 DEF TypeOK, StartPass, hookVars, rowVars,
         emitVars, passVars, obsVars
    <3>7. Owned'
      BY <2>11 DEF Owned, Open, Exists, Holding, Working, StartPass, hookVars, rowVars,
         emitVars, passVars, obsVars
    <3>8. BatchOpen'
      BY <2>11 DEF TypeOK, Owned, BatchOpen, ItemOpen, Open, Exists, Holding, Working,
         Stages, RowStates, StartPass, Oldest, Eligible, hookVars, rowVars, emitVars,
         passVars, obsVars
    <3>9. ItemOpen'
      BY <2>11 DEF TypeOK, Owned, BatchOpen, ItemOpen, Open, Exists, Holding, Working,
         Stages, RowStates, StartPass, Oldest, Eligible, hookVars, rowVars, emitVars,
         passVars, obsVars
    <3> QED
      BY <3>6, <3>7, <3>8, <3>9 DEF Base
  <2>12. CASE NextItem
    <3>1. TypeOK'
      BY <2>12 DEF TypeOK, NextItem, HookStates, Confs, RowStates, Bodies, Probes, Stages, Unread,
         hookVars, rowVars, emitVars, passVars, obsVars
    <3>2. Owned'
      BY <2>12 DEF Owned, Open, Exists, Holding, Working, NextItem, hookVars, rowVars,
         emitVars, passVars, obsVars
    <3>3. BatchOpen'
      BY <2>12 DEF TypeOK, Owned, BatchOpen, ItemOpen, Open, Exists, Holding, Working,
         Stages, RowStates, NextItem, hookVars, rowVars, emitVars, passVars, obsVars
    <3>4. ItemOpen'
      BY <2>12 DEF TypeOK, Owned, BatchOpen, ItemOpen, Open, Exists, Holding, Working,
         Stages, RowStates, NextItem, hookVars, rowVars, emitVars, passVars, obsVars
    <3> QED
      BY <3>1, <3>2, <3>3, <3>4 DEF Base
  <2>13. CASE Post
    <3>1. posts' \in [Deliveries -> Nat]
      <4>1. item \in Deliveries
        BY <2>13 DEF Post, ItemOpen, Holding
      <4>2. posts' = [posts EXCEPT ![item] = posts[item] + 1]
        BY <2>13 DEF Post
      <4> QED
        BY <4>1, <4>2 DEF TypeOK
    <3>2. bodies' \in [Deliveries -> SUBSET Bodies]
      BY <2>13 DEF TypeOK, Post, Bodies
    <3>3. stage' \in Stages
      BY <2>13 DEF TypeOK, Post, Stages
    <3>4. misses' \in [Hooks -> Nat]
      BY <2>13 DEF TypeOK, Post
    <3>5. TypeOK'
      BY <2>13, <3>1, <3>2, <3>3, <3>4 DEF TypeOK, Post, hookVars, rowVars, emitVars,
         passVars, obsVars
    <3>6. Owned' /\ BatchOpen'
      BY <2>13 DEF Owned, BatchOpen, Open, Exists, Holding, Working, Post, hookVars,
         rowVars, emitVars, passVars, obsVars
    <3>7. ItemOpen'
      BY <2>13 DEF TypeOK, Owned, BatchOpen, ItemOpen, Open, Exists, Holding, Working,
         Stages, RowStates, Post, hookVars, rowVars, emitVars, passVars, obsVars
    <3> QED
      BY <3>5, <3>6, <3>7 DEF Base
  <2>14. CASE Succeeded
    <3>1. stage' \in Stages
      BY <2>14 DEF TypeOK, Succeeded, Mishap, Undue, Forgiven, Stages
    <3>2. row' \in [Deliveries -> RowStates]
      BY <2>14 DEF TypeOK, Succeeded, Mishap, Undue, Forgiven, RowStates
    <3>3. attempts' \in [Deliveries -> Nat]
      BY <2>14 DEF TypeOK, Succeeded, Mishap, Undue, Forgiven
    <3>4. failures' \in [Hooks -> Nat]
      BY <2>14 DEF TypeOK, Succeeded, Mishap, Undue, Forgiven
    <3>5. due' \in SUBSET Deliveries
      BY <2>14 DEF TypeOK, Succeeded, Mishap, Undue, Forgiven
    <3>6. ahead' \in [Deliveries -> SUBSET Deliveries]
      <4>1. Undue({item}) \/ UNCHANGED <<due, ahead>>
        BY <2>14 DEF Succeeded
      <4> QED
        BY <4>1, UndueType
    <3>7. mishaps' \in Nat
      BY <2>14 DEF TypeOK, Succeeded, Mishap, Undue, Forgiven
    <3>8. TypeOK'
      BY <2>14, <3>1, <3>2, <3>3, <3>4, <3>5, <3>6, <3>7 DEF TypeOK, Succeeded, hookVars,
         rowVars, emitVars, passVars, obsVars
    <3>9. Owned'
      BY <2>14 DEF TypeOK, Owned, BatchOpen, ItemOpen, Open, Exists, Holding, Working,
         Stages, RowStates, Succeeded, Mishap, Undue, Forgiven, hookVars, rowVars,
         emitVars, passVars, obsVars
    <3>10. BatchOpen'
      BY <2>14 DEF TypeOK, Owned, BatchOpen, ItemOpen, Open, Exists, Holding, Working,
         Stages, RowStates, Succeeded, Mishap, Undue, Forgiven, hookVars, rowVars,
         emitVars, passVars, obsVars
    <3>11. ItemOpen'
      BY <2>14 DEF TypeOK, Owned, BatchOpen, ItemOpen, Open, Exists, Holding, Working,
         Stages, RowStates, Succeeded, Mishap, Undue, Forgiven, hookVars, rowVars,
         emitVars, passVars, obsVars
    <3> QED
      BY <3>8, <3>9, <3>10, <3>11 DEF Base
  <2>15. CASE Failed
    <3>1. row' \in [Deliveries -> RowStates]
      BY <2>15 DEF TypeOK, Failed, Mishap, MarkFailed, Undue, Exists, RowStates
    <3>2. attempts' \in [Deliveries -> Nat]
      <4>1. attempts' = attempts \/ attempts' = [attempts EXCEPT ![item] = attempts[item] + 1]
        BY <2>15 DEF Failed, MarkFailed
      <4>2. item \in Deliveries
        BY <2>15 DEF Failed, ItemOpen, Holding
      <4> QED
        BY <4>1, <4>2 DEF TypeOK
    <3>3. due' \in SUBSET Deliveries
      BY <2>15 DEF TypeOK, Failed, Mishap, MarkFailed, Undue, Exists
    <3>4. ahead' \in [Deliveries -> SUBSET Deliveries]
      BY <2>15 DEF TypeOK, Failed, Mishap, MarkFailed, Undue, Exists
    <3>5. failures' \in [Hooks -> Nat]
      BY <2>15 DEF TypeOK, Failed, Mishap, MarkFailed, Undue, Exists
    <3>6. stage' \in Stages
      BY <2>15 DEF TypeOK, Failed, Mishap, MarkFailed, Undue, Exists, Stages
    <3>7. batch' \in SUBSET Deliveries
      BY <2>15 DEF TypeOK, Failed, Mishap, MarkFailed, Undue, Exists
    <3>8. mishaps' \in Nat
      BY <2>15 DEF TypeOK, Failed, Mishap, MarkFailed, Undue, Exists
    <3>9. TypeOK'
      BY <2>15, <3>1, <3>2, <3>3, <3>4, <3>5, <3>6, <3>7, <3>8 DEF TypeOK, Failed,
         hookVars, rowVars, emitVars, passVars, obsVars
    <3>10. Owned'
      BY <2>15 DEF TypeOK, Owned, BatchOpen, ItemOpen, Open, Exists, Holding, Working,
         Stages, RowStates, Failed, Mishap, MarkFailed, Undue, hookVars, rowVars,
         emitVars, passVars, obsVars
    <3>11. BatchOpen'
      BY <2>15 DEF TypeOK, Owned, BatchOpen, ItemOpen, Open, Exists, Holding, Working,
         Stages, RowStates, Failed, Mishap, MarkFailed, Undue, hookVars, rowVars,
         emitVars, passVars, obsVars
    <3>12. ItemOpen'
      BY <2>15 DEF TypeOK, Owned, BatchOpen, ItemOpen, Open, Exists, Holding, Working,
         Stages, RowStates, Failed, Mishap, MarkFailed, Undue, hookVars, rowVars,
         emitVars, passVars, obsVars
    <3> QED
      BY <3>9, <3>10, <3>11, <3>12 DEF Base
  <2>16. CASE FailedUrl
    <3>1. stage' \in Stages
      BY <2>16 DEF TypeOK, FailedUrl, Mishap, MarkFailed, Undue, Exists, Stages
    <3>2. row' \in [Deliveries -> RowStates]
      BY <2>16 DEF TypeOK, FailedUrl, Mishap, MarkFailed, Undue, Exists, RowStates
    <3>3. attempts' \in [Deliveries -> Nat]
      BY <2>16 DEF TypeOK, FailedUrl, Mishap, MarkFailed, Undue, Exists
    <3>4. due' \in SUBSET Deliveries
      BY <2>16 DEF TypeOK, FailedUrl, Mishap, MarkFailed, Undue, Exists
    <3>5. ahead' \in [Deliveries -> SUBSET Deliveries]
      <4>1. Undue({item}) \/ UNCHANGED <<due, ahead>>
        BY <2>16 DEF FailedUrl, MarkFailed
      <4> QED
        BY <4>1, UndueType
    <3>6. failures' \in [Hooks -> Nat]
      BY <2>16 DEF TypeOK, FailedUrl, Mishap, MarkFailed, Undue, Exists
    <3>7. mishaps' \in Nat
      BY <2>16 DEF TypeOK, FailedUrl, Mishap, MarkFailed, Undue, Exists
    <3>8. TypeOK'
      BY <2>16, <3>1, <3>2, <3>3, <3>4, <3>5, <3>6, <3>7 DEF TypeOK, FailedUrl, hookVars,
         rowVars, emitVars, passVars, obsVars
    <3>9. Owned'
      BY <2>16 DEF TypeOK, Owned, BatchOpen, ItemOpen, Open, Exists, Holding, Working,
         Stages, RowStates, FailedUrl, Mishap, MarkFailed, Undue, hookVars, rowVars,
         emitVars, passVars, obsVars
    <3>10. BatchOpen'
      BY <2>16 DEF TypeOK, Owned, BatchOpen, ItemOpen, Open, Exists, Holding, Working,
         Stages, RowStates, FailedUrl, Mishap, MarkFailed, Undue, hookVars, rowVars,
         emitVars, passVars, obsVars
    <3>11. ItemOpen'
      BY <2>16 DEF TypeOK, Owned, BatchOpen, ItemOpen, Open, Exists, Holding, Working,
         Stages, RowStates, FailedUrl, Mishap, MarkFailed, Undue, hookVars, rowVars,
         emitVars, passVars, obsVars
    <3> QED
      BY <3>8, <3>9, <3>10, <3>11 DEF Base
  <2>17. CASE Disable
    <3>1. stage' \in Stages
      BY <2>17 DEF TypeOK, Disable, Mishap, Undue, Exists, QueuedFor, Stages
    <3>2. hook' \in [Hooks -> HookStates]
      BY <2>17 DEF TypeOK, Disable, Mishap, Undue, Exists, QueuedFor, HookStates
    <3>3. row' \in [Deliveries -> RowStates]
      BY <2>17 DEF TypeOK, Disable, Mishap, Undue, Exists, QueuedFor, RowStates
    <3>4. due' \in SUBSET Deliveries
      BY <2>17 DEF TypeOK, Disable, Mishap, Undue, Exists, QueuedFor
    <3>5. ahead' \in [Deliveries -> SUBSET Deliveries]
      <4>1. Undue(QueuedFor(of[item])) \/ UNCHANGED <<due, ahead>>
        BY <2>17 DEF Disable
      <4> QED
        BY <4>1, UndueType
    <3>6. disabled' \in SUBSET Hooks
      <4>1. of[item] \in Hooks
        BY <2>17 DEF Disable, ItemOpen, Holding, Owned
      <4>2. disabled' = disabled \/ disabled' = disabled \cup {of[item]}
        BY <2>17 DEF Disable
      <4> QED
        BY <4>1, <4>2 DEF TypeOK
    <3>7. mishaps' \in Nat
      BY <2>17 DEF TypeOK, Disable, Mishap, Undue, Exists, QueuedFor
    <3>8. TypeOK'
      BY <2>17, <3>1, <3>2, <3>3, <3>4, <3>5, <3>6, <3>7 DEF TypeOK, Disable, hookVars,
         rowVars, emitVars, passVars, obsVars
    <3>9. Owned'
      BY <2>17 DEF TypeOK, Owned, BatchOpen, ItemOpen, Open, Exists, Holding, Working,
         Stages, RowStates, Disable, Mishap, Undue, QueuedFor, hookVars, rowVars,
         emitVars, passVars, obsVars
    <3>10. BatchOpen'
      BY <2>17 DEF TypeOK, Owned, BatchOpen, ItemOpen, Open, Exists, Holding, Working,
         Stages, RowStates, Disable, Mishap, Undue, QueuedFor, hookVars, rowVars,
         emitVars, passVars, obsVars
    <3>11. ItemOpen'
      BY <2>17 DEF TypeOK, Owned, BatchOpen, ItemOpen, Open, Exists, Holding, Working,
         Stages, RowStates, Disable, Mishap, Undue, QueuedFor, hookVars, rowVars,
         emitVars, passVars, obsVars
    <3> QED
      BY <3>8, <3>9, <3>10, <3>11 DEF Base
  <2>18. CASE EndPass
    <3>1. TypeOK'
      BY <2>18 DEF TypeOK, EndPass, HookStates, Confs, RowStates, Bodies, Probes, Stages, Unread,
         hookVars, rowVars, emitVars, passVars, obsVars
    <3>2. Owned'
      BY <2>18 DEF Owned, Open, Exists, Holding, Working, EndPass, hookVars, rowVars,
         emitVars, passVars, obsVars
    <3>3. BatchOpen'
      BY <2>18 DEF TypeOK, Owned, BatchOpen, ItemOpen, Open, Exists, Holding, Working,
         Stages, RowStates, EndPass, hookVars, rowVars, emitVars, passVars, obsVars
    <3>4. ItemOpen'
      BY <2>18 DEF TypeOK, Owned, BatchOpen, ItemOpen, Open, Exists, Holding, Working,
         Stages, RowStates, EndPass, hookVars, rowVars, emitVars, passVars, obsVars
    <3> QED
      BY <3>1, <3>2, <3>3, <3>4 DEF Base
  <2>19. CASE Crash
    <3>1. TypeOK'
      BY <2>19 DEF TypeOK, Crash, Mishap, HookStates, Confs, RowStates, Bodies, Probes, Stages,
         Unread, hookVars, rowVars, emitVars, passVars, obsVars
    <3>2. Owned'
      BY <2>19 DEF Owned, Open, Exists, Holding, Working, Crash, hookVars, rowVars,
         emitVars, passVars, obsVars
    <3>3. BatchOpen'
      BY <2>19 DEF TypeOK, Owned, BatchOpen, ItemOpen, Open, Exists, Holding, Working,
         Stages, RowStates, Crash, Mishap, hookVars, rowVars, emitVars, passVars, obsVars
    <3>4. ItemOpen'
      BY <2>19 DEF TypeOK, Owned, BatchOpen, ItemOpen, Open, Exists, Holding, Working,
         Stages, RowStates, Crash, Mishap, hookVars, rowVars, emitVars, passVars, obsVars
    <3> QED
      BY <3>1, <3>2, <3>3, <3>4 DEF Base
  <2>20. CASE UNCHANGED vars
    <3>1. TypeOK'
      BY <2>20 DEF TypeOK, vars, HookStates, Confs, RowStates, Bodies, Probes, Stages, Unread,
         hookVars, rowVars, emitVars, passVars, obsVars
    <3>2. Owned' /\ BatchOpen' /\ ItemOpen'
      BY <2>20 DEF Owned, BatchOpen, ItemOpen, Open, Exists, Holding, Working, vars,
         hookVars, rowVars, emitVars, passVars, obsVars
    <3> QED
      BY <3>1, <3>2 DEF Base
  <2> QED
    BY <2>1, <2>2, <2>3, <2>4, <2>5, <2>6, <2>7, <2>8, <2>9, <2>10, <2>11, <2>12, <2>13,
       <2>14, <2>15, <2>16, <2>17, <2>18, <2>19, <2>20, <2>21, <2>22 DEF Next, OperatorStep, EmitStep,
       PassStep
<1> QED
  BY <1>1, <1>2, PTL DEF Spec

\* The two tables, the emitters and the pass keep their types through every operation,
\* retry, failed write and crash.
THEOREM TypeCorrect == Spec => []TypeOK
BY BaseInvariant, PTL DEF Base

\* A delivered or abandoned row is never POSTed or reopened: the pass holds only rows that
\* are open, or that belong to a hook it has itself switched off.
THEOREM HistoryIsFinal == Spec => FinishedStaysFinished
<1>1. Base /\ [Next]_vars =>
        [\A d \in Deliveries : row[d] \in Finished =>
           row'[d] \in {row[d], "gone"} /\ posts'[d] = posts[d]]_vars
  <2> SUFFICES ASSUME Base, [Next]_vars, NEW d \in Deliveries, row[d] \in Finished
               PROVE  row'[d] \in {row[d], "gone"} /\ posts'[d] = posts[d]
    OBVIOUS
  <2>1. ASSUME NEW h \in Hooks, Delete(h)
        PROVE  row'[d] \in {row[d], "gone"} /\ posts'[d] = posts[d]
    BY <2>1 DEF Base, TypeOK, Finished, Delete, Undue, hookVars, rowVars, emitVars,
       passVars, obsVars
  <2>2. CASE Purge
    BY <2>2 DEF Base, TypeOK, Finished, Purge, hookVars, rowVars, emitVars, passVars,
       obsVars
  <2>3. ASSUME NEW e \in Emitters, NEW h \in Hooks, Enqueue(e, h)
        PROVE  row'[d] \in {row[d], "gone"} /\ posts'[d] = posts[d]
    BY <2>3 DEF Base, TypeOK, Finished, Enqueue, hookVars, rowVars, emitVars, passVars,
       obsVars
  <2>4. CASE Post
    BY <2>4 DEF Base, TypeOK, Finished, Post, ItemOpen, Holding, Working, Open, hookVars,
       rowVars, emitVars, passVars, obsVars
  <2>5. CASE Succeeded
    BY <2>5 DEF Base, TypeOK, Finished, Succeeded, Undue, ItemOpen, Holding, Working,
       Open, hookVars, rowVars, emitVars, passVars, obsVars
  <2>6. CASE Failed
    BY <2>6 DEF Base, TypeOK, Finished, Failed, MarkFailed, Undue, ItemOpen, Holding,
       Working, Open, hookVars, rowVars, emitVars, passVars, obsVars
  <2>7. CASE FailedUrl
    BY <2>7 DEF Base, TypeOK, Finished, FailedUrl, MarkFailed, Undue, ItemOpen, Holding,
       Working, Open, hookVars, rowVars, emitVars, passVars, obsVars
  <2>8. CASE Disable
    BY <2>8 DEF Base, TypeOK, Finished, Disable, QueuedFor, Undue, hookVars, rowVars,
       emitVars, passVars, obsVars
  <2>9. CASE UNCHANGED <<row, posts>>
    BY <2>9
  <2> QED
    BY <2>1, <2>2, <2>3, <2>4, <2>5, <2>6, <2>7, <2>8, <2>9 DEF Next, OperatorStep,
       EmitStep, PassStep, Create, Update, Test, TestPost, TestRecord, Restore, Emit, SetPayload, ComeDue,
       StartPass, NextItem, EndPass, Crash, vars, hookVars, rowVars, emitVars, passVars,
       obsVars
<1> QED
  BY <1>1, BaseInvariant, PTL DEF Spec, FinishedStaysFinished

\* A POST of this row has been made and not been recorded yet.
Unrecorded(d) == item = d /\ stage \in {"landed", "missed"}

\* Recorded attempts account for every POST but the one in hand and those a mishap lost.
Accounted ==
  \A d \in Deliveries :
    /\ row[d] # "gone" => posts[d] <= attempts[d] + mishaps + (IF Unrecorded(d) THEN 1 ELSE 0)
    /\ row[d] # "gone" => attempts[d] <= MaxAttempts
    /\ row[d] \in {"none", "pending"} => attempts[d] < MaxAttempts

\* A row that is gone is tried once more at most, and only from a batch read before.
LastTry ==
  \A d \in Deliveries :
    row[d] = "gone" /\ (\/ d \in batch /\ of[d] \notin disabled
                        \/ item = d /\ stage \in {"post", "badUrl"})
      => posts[d] < MaxAttempts + mishaps

Counted == Accounted /\ LastTry /\ AttemptsBounded

\* The attempts of a row and the mishaps account for its POSTs.
THEOREM CountedInvariant == Spec => []Counted
<1>1. Init => Counted
  BY WebhookAssumption DEF Init, Counted, Accounted, LastTry, AttemptsBounded, Unrecorded
<1>2. Base /\ Counted /\ [Next]_vars => Counted'
  <2> SUFFICES ASSUME TypeOK, Owned, BatchOpen, ItemOpen, Accounted, LastTry, AttemptsBounded,
                      [Next]_vars
               PROVE  Counted'
    BY DEF Base, Counted
  <2>1. ASSUME NEW h \in Hooks, Create(h)
        PROVE  Counted'
    <3>1. Accounted' /\ LastTry' /\ AttemptsBounded'
      BY <2>1 DEF Accounted, LastTry, AttemptsBounded, Unrecorded, Create, hookVars,
         rowVars, emitVars, passVars, obsVars
    <3> QED
      BY <3>1 DEF Counted, Accounted, LastTry, AttemptsBounded
  <2>2. ASSUME NEW h \in Hooks, Update(h)
        PROVE  Counted'
    <3>1. Accounted' /\ LastTry' /\ AttemptsBounded'
      BY <2>2 DEF Accounted, LastTry, AttemptsBounded, Unrecorded, Update, hookVars,
         rowVars, emitVars, passVars, obsVars
    <3> QED
      BY <3>1 DEF Counted, Accounted, LastTry, AttemptsBounded
  <2>3. ASSUME NEW h \in Hooks, Delete(h)
        PROVE  Counted'
    <3>1. AttemptsBounded'
      BY <2>3 DEF AttemptsBounded, Delete, hookVars, rowVars, emitVars, passVars, obsVars
    <3>2. ASSUME NEW c \in Deliveries PROVE Accounted!(c)'
      BY <2>3, WebhookAssumption DEF TypeOK, Accounted, LastTry, AttemptsBounded,
         Unrecorded, ItemOpen, BatchOpen, Holding, Working, Open, Delete, Edit, Undue,
         hookVars, rowVars, emitVars, passVars, obsVars
    <3>3. ASSUME NEW c \in Deliveries PROVE LastTry!(c)'
      BY <2>3, WebhookAssumption DEF TypeOK, Accounted, LastTry, AttemptsBounded,
         Unrecorded, ItemOpen, BatchOpen, Holding, Working, Open, Delete, Edit, Undue,
         hookVars, rowVars, emitVars, passVars, obsVars
    <3> QED
      BY <3>1, <3>2, <3>3 DEF Counted, Accounted, LastTry, AttemptsBounded
  <2>4. ASSUME NEW h \in Hooks, Test(h) \/ TestPost(h)
        PROVE  Counted'
    <3>1. Accounted' /\ LastTry' /\ AttemptsBounded'
      BY <2>4 DEF Accounted, LastTry, AttemptsBounded, Unrecorded, Test, TestPost, hookVars,
         rowVars, passVars, obsVars
    <3> QED
      BY <3>1 DEF Counted, Accounted, LastTry, AttemptsBounded
  <2>21. ASSUME NEW h \in Hooks, TestRecord(h)
        PROVE  Counted'
    <3>1. /\ UNCHANGED <<hook, row, of, attempts, stage, item, batch, disabled, posts>>
          /\ mishaps' \in Nat /\ mishaps' >= mishaps
      BY <2>21 DEF TestRecord, Mishap, rowVars, passVars, TypeOK
    <3>2. ASSUME NEW d \in Deliveries PROVE AttemptsBounded!(d)'
      BY <3>1, WebhookAssumption DEF AttemptsBounded, TypeOK
    <3>3. ASSUME NEW d \in Deliveries PROVE Accounted!(d)'
      BY <3>1, WebhookAssumption DEF Accounted, Unrecorded, TypeOK
    <3>4. ASSUME NEW d \in Deliveries PROVE LastTry!(d)'
      BY <3>1, WebhookAssumption DEF LastTry, Unrecorded, TypeOK
    <3> QED
      BY <3>2, <3>3, <3>4 DEF Counted, Accounted, LastTry, AttemptsBounded
  <2>5. ASSUME NEW h \in Hooks, Restore(h)
        PROVE  Counted'
    <3>1. Accounted' /\ LastTry' /\ AttemptsBounded'
      BY <2>5 DEF Accounted, LastTry, AttemptsBounded, Unrecorded, Restore, hookVars,
         rowVars, emitVars, passVars, obsVars
    <3> QED
      BY <3>1 DEF Counted, Accounted, LastTry, AttemptsBounded
  <2>6. CASE Purge
    <3>1. AttemptsBounded'
      BY <2>6 DEF AttemptsBounded, Purge, hookVars, rowVars, emitVars, passVars, obsVars
    <3>2. ASSUME NEW c \in Deliveries PROVE Accounted!(c)'
      BY <2>6, WebhookAssumption DEF TypeOK, Accounted, LastTry, AttemptsBounded,
         Unrecorded, ItemOpen, BatchOpen, Holding, Working, Open, Purge, Finished,
         hookVars, rowVars, emitVars, passVars, obsVars
    <3>3. ASSUME NEW c \in Deliveries PROVE LastTry!(c)'
      BY <2>6, WebhookAssumption DEF TypeOK, Accounted, LastTry, AttemptsBounded,
         Unrecorded, ItemOpen, BatchOpen, Holding, Working, Open, Purge, Finished,
         hookVars, rowVars, emitVars, passVars, obsVars
    <3> QED
      BY <3>1, <3>2, <3>3 DEF Counted, Accounted, LastTry, AttemptsBounded
  <2>7. ASSUME NEW e \in Emitters, Emit(e)
        PROVE  Counted'
    <3>1. Accounted' /\ LastTry' /\ AttemptsBounded'
      BY <2>7 DEF Accounted, LastTry, AttemptsBounded, Unrecorded, Emit, hookVars,
         rowVars, emitVars, passVars, obsVars
    <3> QED
      BY <3>1 DEF Counted, Accounted, LastTry, AttemptsBounded
  <2>8. ASSUME NEW e \in Emitters, NEW h \in Hooks, Enqueue(e, h)
        PROVE  Counted'
    <3>1. ASSUME NEW c \in Deliveries PROVE Accounted!(c)'
      BY <2>8, WebhookAssumption DEF TypeOK, Accounted, LastTry, AttemptsBounded,
         Unrecorded, ItemOpen, BatchOpen, Holding, Working, Open, Enqueue, Mishap,
         hookVars, rowVars, emitVars, passVars, obsVars
    <3>2. ASSUME NEW c \in Deliveries PROVE LastTry!(c)'
      BY <2>8, WebhookAssumption DEF TypeOK, Accounted, LastTry, AttemptsBounded,
         Unrecorded, ItemOpen, BatchOpen, Holding, Working, Open, Enqueue, Mishap,
         hookVars, rowVars, emitVars, passVars, obsVars
    <3>3. ASSUME NEW c \in Deliveries PROVE AttemptsBounded!(c)'
      BY <2>8, WebhookAssumption DEF TypeOK, Accounted, LastTry, AttemptsBounded,
         Unrecorded, ItemOpen, BatchOpen, Holding, Working, Open, Enqueue, Mishap,
         hookVars, rowVars, emitVars, passVars, obsVars
    <3> QED
      BY <3>1, <3>2, <3>3 DEF Counted, Accounted, LastTry, AttemptsBounded
  <2>9. ASSUME NEW e \in Emitters, SetPayload(e)
        PROVE  Counted'
    <3>1. ASSUME NEW c \in Deliveries PROVE Accounted!(c)'
      BY <2>9, WebhookAssumption DEF TypeOK, Accounted, LastTry, AttemptsBounded,
         Unrecorded, ItemOpen, BatchOpen, Holding, Working, Open, SetPayload, Mishap,
         hookVars, rowVars, emitVars, passVars, obsVars
    <3>2. ASSUME NEW c \in Deliveries PROVE LastTry!(c)'
      BY <2>9, WebhookAssumption DEF TypeOK, Accounted, LastTry, AttemptsBounded,
         Unrecorded, ItemOpen, BatchOpen, Holding, Working, Open, SetPayload, Mishap,
         hookVars, rowVars, emitVars, passVars, obsVars
    <3>3. ASSUME NEW c \in Deliveries PROVE AttemptsBounded!(c)'
      BY <2>9, WebhookAssumption DEF TypeOK, Accounted, LastTry, AttemptsBounded,
         Unrecorded, ItemOpen, BatchOpen, Holding, Working, Open, SetPayload, Mishap,
         hookVars, rowVars, emitVars, passVars, obsVars
    <3> QED
      BY <3>1, <3>2, <3>3 DEF Counted, Accounted, LastTry, AttemptsBounded
  <2>10. ASSUME NEW d \in Deliveries, ComeDue(d)
        PROVE  Counted'
    <3>1. Accounted' /\ LastTry' /\ AttemptsBounded'
      BY <2>10 DEF Accounted, LastTry, AttemptsBounded, Unrecorded, ComeDue, hookVars,
         rowVars, emitVars, passVars, obsVars
    <3> QED
      BY <3>1 DEF Counted, Accounted, LastTry, AttemptsBounded
  <2>11. CASE StartPass
    <3>1. AttemptsBounded'
      BY <2>11 DEF AttemptsBounded, StartPass, hookVars, rowVars, emitVars, passVars,
         obsVars
    <3>2. ASSUME NEW c \in Deliveries PROVE Accounted!(c)'
      BY <2>11, WebhookAssumption DEF TypeOK, Accounted, LastTry, AttemptsBounded,
         Unrecorded, ItemOpen, BatchOpen, Holding, Working, Open, StartPass, Oldest,
         Eligible, hookVars, rowVars, emitVars, passVars, obsVars
    <3>3. ASSUME NEW c \in Deliveries PROVE LastTry!(c)'
      BY <2>11, WebhookAssumption DEF TypeOK, Accounted, LastTry, AttemptsBounded,
         Unrecorded, ItemOpen, BatchOpen, Holding, Working, Open, StartPass, Oldest,
         Eligible, hookVars, rowVars, emitVars, passVars, obsVars
    <3> QED
      BY <3>1, <3>2, <3>3 DEF Counted, Accounted, LastTry, AttemptsBounded
  <2>12. CASE NextItem
    <3>1. AttemptsBounded'
      BY <2>12 DEF AttemptsBounded, NextItem, hookVars, rowVars, emitVars, passVars,
         obsVars
    <3>2. ASSUME NEW c \in Deliveries PROVE Accounted!(c)'
      BY <2>12, WebhookAssumption DEF TypeOK, Accounted, LastTry, AttemptsBounded,
         Unrecorded, ItemOpen, BatchOpen, Holding, Working, Open, NextItem, hookVars,
         rowVars, emitVars, passVars, obsVars
    <3>3. ASSUME NEW c \in Deliveries PROVE LastTry!(c)'
      BY <2>12, WebhookAssumption DEF TypeOK, Accounted, LastTry, AttemptsBounded,
         Unrecorded, ItemOpen, BatchOpen, Holding, Working, Open, NextItem, hookVars,
         rowVars, emitVars, passVars, obsVars
    <3> QED
      BY <3>1, <3>2, <3>3 DEF Counted, Accounted, LastTry, AttemptsBounded
  <2>13. CASE Post
    <3>1. ASSUME NEW c \in Deliveries PROVE Accounted!(c)'
      BY <2>13, WebhookAssumption DEF TypeOK, Accounted, LastTry, AttemptsBounded,
         Unrecorded, ItemOpen, BatchOpen, Holding, Working, Open, Post, hookVars, rowVars,
         emitVars, passVars, obsVars
    <3>2. ASSUME NEW c \in Deliveries PROVE LastTry!(c)'
      BY <2>13, WebhookAssumption DEF TypeOK, Accounted, LastTry, AttemptsBounded,
         Unrecorded, ItemOpen, BatchOpen, Holding, Working, Open, Post, hookVars, rowVars,
         emitVars, passVars, obsVars
    <3>3. ASSUME NEW c \in Deliveries PROVE AttemptsBounded!(c)'
      BY <2>13, WebhookAssumption DEF TypeOK, Accounted, LastTry, AttemptsBounded,
         Unrecorded, ItemOpen, BatchOpen, Holding, Working, Open, Post, hookVars, rowVars,
         emitVars, passVars, obsVars
    <3> QED
      BY <3>1, <3>2, <3>3 DEF Counted, Accounted, LastTry, AttemptsBounded
  <2>14. CASE Succeeded
    <3>1. ASSUME NEW c \in Deliveries PROVE Accounted!(c)'
      BY <2>14, WebhookAssumption DEF TypeOK, Accounted, LastTry, AttemptsBounded,
         Unrecorded, ItemOpen, BatchOpen, Holding, Working, Open, Succeeded, Mishap,
         Undue, Forgiven, hookVars, rowVars, emitVars, passVars, obsVars
    <3>2. ASSUME NEW c \in Deliveries PROVE LastTry!(c)'
      BY <2>14, WebhookAssumption DEF TypeOK, Accounted, LastTry, AttemptsBounded,
         Unrecorded, ItemOpen, BatchOpen, Holding, Working, Open, Succeeded, Mishap,
         Undue, Forgiven, hookVars, rowVars, emitVars, passVars, obsVars
    <3>3. ASSUME NEW c \in Deliveries PROVE AttemptsBounded!(c)'
      BY <2>14, WebhookAssumption DEF TypeOK, Accounted, LastTry, AttemptsBounded,
         Unrecorded, ItemOpen, BatchOpen, Holding, Working, Open, Succeeded, Mishap,
         Undue, Forgiven, hookVars, rowVars, emitVars, passVars, obsVars
    <3> QED
      BY <3>1, <3>2, <3>3 DEF Counted, Accounted, LastTry, AttemptsBounded
  <2>15. CASE Failed
    <3>1. Accounted'
      <4>1. item \in Deliveries /\ row[item] \in {"pending", "gone"} /\ (Exists(of[item]) => row[item] = "pending")
        BY <2>15 DEF Failed, ItemOpen, Holding, Working, Open, Exists
      <4>2. SUFFICES ASSUME NEW c \in Deliveries
                     PROVE  Accounted!(c)'
        BY DEF Accounted
      <4>3. CASE MarkFailed(Retry(attempts[item] + 1)) /\ Exists(of[item]) /\ UNCHANGED mishaps
        <5>1. /\ attempts' = [attempts EXCEPT ![item] = attempts[item] + 1]
              /\ row' = row \/ row' = [row EXCEPT ![item] = "failed"]
              /\ row' = row => attempts[item] + 1 < MaxAttempts
          BY <4>1, <4>3, WebhookAssumption DEF MarkFailed, Retry, TypeOK
        <5>2. posts' = posts /\ item' = item /\ ~Unrecorded(c)'
          BY <2>15 DEF Failed, Unrecorded, obsVars
        <5>3. attempts[item] < MaxAttempts /\ row[item] = "pending"
          BY <4>1, <4>3 DEF Accounted
        <5> QED
          BY <4>1, <4>3, <5>1, <5>2, <5>3, WebhookAssumption DEF TypeOK, Accounted, Unrecorded
      <4>4. CASE UNCHANGED <<row, attempts>> /\ ((hook[of[item]] = "gone" /\ UNCHANGED mishaps) \/ Mishap)
        BY <2>15, <4>1, <4>4 DEF Failed, Mishap, TypeOK, Accounted, Unrecorded, ItemOpen, Working, Open, Exists, Owned, obsVars
      <4> QED
        BY <2>15, <4>3, <4>4 DEF Failed
    <3>2. ASSUME NEW c \in Deliveries PROVE LastTry!(c)'
      BY <2>15, WebhookAssumption DEF TypeOK, Accounted, LastTry, AttemptsBounded,
         Unrecorded, ItemOpen, BatchOpen, Holding, Working, Open, Failed, Mishap,
         MarkFailed, Undue, hookVars, rowVars, emitVars, passVars, obsVars
    <3>3. ASSUME NEW c \in Deliveries PROVE AttemptsBounded!(c)'
      BY <2>15, WebhookAssumption DEF TypeOK, Accounted, LastTry, AttemptsBounded,
         Unrecorded, ItemOpen, BatchOpen, Holding, Working, Open, Failed, Mishap,
         MarkFailed, Undue, hookVars, rowVars, emitVars, passVars, obsVars
    <3> QED
      BY <3>1, <3>2, <3>3 DEF Counted, Accounted, LastTry, AttemptsBounded
  <2>16. CASE FailedUrl
    <3>1. Accounted'
      <4>1. item \in Deliveries /\ row[item] \in {"pending", "gone"} /\ (Exists(of[item]) => row[item] = "pending")
        BY <2>16 DEF FailedUrl, ItemOpen, Holding, Working, Open, Exists
      <4>2. SUFFICES ASSUME NEW c \in Deliveries
                     PROVE  Accounted!(c)'
        BY DEF Accounted
      <4>3. CASE MarkFailed(FALSE) /\ Exists(of[item]) /\ UNCHANGED mishaps
        <5>1. /\ attempts' = [attempts EXCEPT ![item] = attempts[item] + 1]
              /\ row' = row \/ row' = [row EXCEPT ![item] = "failed"]
              /\ row' = row => FALSE
          BY <4>1, <4>3, WebhookAssumption DEF MarkFailed, Retry, TypeOK
        <5>2. posts' = posts /\ item' = item /\ ~Unrecorded(c)'
          BY <2>16 DEF FailedUrl, Unrecorded, obsVars
        <5>3. attempts[item] < MaxAttempts /\ row[item] = "pending"
          BY <4>1, <4>3 DEF Accounted
        <5> QED
          BY <4>1, <4>3, <5>1, <5>2, <5>3, WebhookAssumption DEF TypeOK, Accounted, Unrecorded
      <4>4. CASE UNCHANGED <<row, attempts>> /\ ((hook[of[item]] = "gone" /\ UNCHANGED mishaps) \/ Mishap)
        BY <2>16, <4>1, <4>4 DEF FailedUrl, Mishap, TypeOK, Accounted, Unrecorded, ItemOpen, Working, Open, Exists, Owned, obsVars
      <4> QED
        BY <2>16, <4>3, <4>4 DEF FailedUrl
    <3>2. ASSUME NEW c \in Deliveries PROVE LastTry!(c)'
      BY <2>16, WebhookAssumption DEF TypeOK, Accounted, LastTry, AttemptsBounded,
         Unrecorded, ItemOpen, BatchOpen, Holding, Working, Open, FailedUrl, Mishap,
         MarkFailed, Undue, hookVars, rowVars, emitVars, passVars, obsVars
    <3>3. ASSUME NEW c \in Deliveries PROVE AttemptsBounded!(c)'
      BY <2>16, WebhookAssumption DEF TypeOK, Accounted, LastTry, AttemptsBounded,
         Unrecorded, ItemOpen, BatchOpen, Holding, Working, Open, FailedUrl, Mishap,
         MarkFailed, Undue, hookVars, rowVars, emitVars, passVars, obsVars
    <3> QED
      BY <3>1, <3>2, <3>3 DEF Counted, Accounted, LastTry, AttemptsBounded
  <2>17. CASE Disable
    <3>1. ASSUME NEW c \in Deliveries PROVE Accounted!(c)'
      BY <2>17, WebhookAssumption DEF TypeOK, Accounted, LastTry, AttemptsBounded,
         Unrecorded, ItemOpen, BatchOpen, Holding, Working, Open, Disable, Mishap, Undue,
         QueuedFor, hookVars, rowVars, emitVars, passVars, obsVars
    <3>2. ASSUME NEW c \in Deliveries PROVE LastTry!(c)'
      BY <2>17, WebhookAssumption DEF TypeOK, Accounted, LastTry, AttemptsBounded,
         Unrecorded, ItemOpen, BatchOpen, Holding, Working, Open, Disable, Mishap, Undue,
         QueuedFor, hookVars, rowVars, emitVars, passVars, obsVars
    <3>3. ASSUME NEW c \in Deliveries PROVE AttemptsBounded!(c)'
      BY <2>17, WebhookAssumption DEF TypeOK, Accounted, LastTry, AttemptsBounded,
         Unrecorded, ItemOpen, BatchOpen, Holding, Working, Open, Disable, Mishap, Undue,
         QueuedFor, hookVars, rowVars, emitVars, passVars, obsVars
    <3> QED
      BY <3>1, <3>2, <3>3 DEF Counted, Accounted, LastTry, AttemptsBounded
  <2>18. CASE EndPass
    <3>1. AttemptsBounded'
      BY <2>18 DEF AttemptsBounded, EndPass, hookVars, rowVars, emitVars, passVars,
         obsVars
    <3>2. ASSUME NEW c \in Deliveries PROVE Accounted!(c)'
      BY <2>18, WebhookAssumption DEF TypeOK, Accounted, LastTry, AttemptsBounded,
         Unrecorded, ItemOpen, BatchOpen, Holding, Working, Open, EndPass, hookVars,
         rowVars, emitVars, passVars, obsVars
    <3>3. ASSUME NEW c \in Deliveries PROVE LastTry!(c)'
      BY <2>18, WebhookAssumption DEF TypeOK, Accounted, LastTry, AttemptsBounded,
         Unrecorded, ItemOpen, BatchOpen, Holding, Working, Open, EndPass, hookVars,
         rowVars, emitVars, passVars, obsVars
    <3> QED
      BY <3>1, <3>2, <3>3 DEF Counted, Accounted, LastTry, AttemptsBounded
  <2>19. CASE Crash
    <3>1. ASSUME NEW c \in Deliveries PROVE Accounted!(c)'
      BY <2>19, WebhookAssumption DEF TypeOK, Accounted, LastTry, AttemptsBounded,
         Unrecorded, ItemOpen, BatchOpen, Holding, Working, Open, Crash, Mishap, hookVars,
         rowVars, emitVars, passVars, obsVars
    <3>2. ASSUME NEW c \in Deliveries PROVE LastTry!(c)'
      BY <2>19, WebhookAssumption DEF TypeOK, Accounted, LastTry, AttemptsBounded,
         Unrecorded, ItemOpen, BatchOpen, Holding, Working, Open, Crash, Mishap, hookVars,
         rowVars, emitVars, passVars, obsVars
    <3>3. ASSUME NEW c \in Deliveries PROVE AttemptsBounded!(c)'
      BY <2>19, WebhookAssumption DEF TypeOK, Accounted, LastTry, AttemptsBounded,
         Unrecorded, ItemOpen, BatchOpen, Holding, Working, Open, Crash, Mishap, hookVars,
         rowVars, emitVars, passVars, obsVars
    <3> QED
      BY <3>1, <3>2, <3>3 DEF Counted, Accounted, LastTry, AttemptsBounded
  <2>20. CASE UNCHANGED vars
    <3>1. Accounted' /\ LastTry' /\ AttemptsBounded'
      BY <2>20 DEF Accounted, LastTry, AttemptsBounded, Unrecorded, vars, hookVars,
         rowVars, emitVars, passVars, obsVars
    <3> QED
      BY <3>1 DEF Counted, Accounted, LastTry, AttemptsBounded
  <2> QED
    BY <2>1, <2>2, <2>3, <2>4, <2>5, <2>6, <2>7, <2>8, <2>9, <2>10, <2>11, <2>12, <2>13,
       <2>14, <2>15, <2>16, <2>17, <2>18, <2>19, <2>20, <2>21 DEF Next, OperatorStep, EmitStep,
       PassStep
<1> QED
  BY <1>1, <1>2, BaseInvariant, PTL DEF Spec

\* MAX_ATTEMPTS bounds what an endpoint receives for one row, whatever the number of
\* passes, edits, disables and deletions in between; only a lost record adds to it.
THEOREM AttemptsAreBounded == Spec => []AttemptsBounded
BY CountedInvariant, PTL DEF Counted

\* The pass may still POST to this hook.
Targeted(h) ==
  \/ hook[h] = "active"
  \/ stage = "post" /\ of[item] = h
  \/ \E d \in batch : of[d] = h /\ h \notin disabled

\* A miss of this hook waits for its verdict.
Unjudged(h) == stage \in {"missed", "giveUp"} /\ of[item] = h

\* The stored streak accounts for every miss but the one in hand and those a mishap lost,
\* and a hook that may be tried again has one try left.
Streaks ==
  \A h \in Hooks :
    /\ hook[h] # "gone" =>
         misses[h] <= failures[h] + mishaps + (IF stage = "missed" /\ of[item] = h THEN 1 ELSE 0)
    /\ hook[h] = "none" => misses[h] = 0
    /\ stage = "landed" /\ of[item] = h => misses[h] = 0
    /\ hook[h] # "gone" /\ Targeted(h) /\ ~Unjudged(h) => misses[h] < Threshold + mishaps

Rested == Streaks /\ DeadEndpointRests

\* The stored streak of a hook and the mishaps account for its misses.
THEOREM RestedInvariant == Spec => []Rested
<1>1. Init => Rested
  BY WebhookAssumption DEF Init, Rested, Streaks, DeadEndpointRests, Targeted, Unjudged
<1>2. Base /\ Rested /\ [Next]_vars => Rested'
  <2> SUFFICES ASSUME TypeOK, Owned, BatchOpen, ItemOpen, Streaks, DeadEndpointRests, [Next]_vars
               PROVE  Rested'
    BY DEF Base, Rested
  <2>1. ASSUME NEW h \in Hooks, Create(h)
        PROVE  Rested'
    <3>1. ASSUME NEW k \in Hooks PROVE Streaks!(k)'
      BY <2>1, WebhookAssumption DEF TypeOK, Streaks, Targeted, Unjudged, Create,
         hookVars, rowVars, emitVars, passVars, obsVars
    <3>2. ASSUME NEW k \in Hooks PROVE DeadEndpointRests!(k)'
      BY <2>1, WebhookAssumption DEF TypeOK, DeadEndpointRests, Create, hookVars, rowVars,
         emitVars, passVars, obsVars
    <3> QED
      BY <3>1, <3>2 DEF Rested, Streaks, DeadEndpointRests
  <2>2. ASSUME NEW h \in Hooks, Update(h)
        PROVE  Rested'
    <3>1. ASSUME NEW k \in Hooks PROVE Streaks!(k)'
      BY <2>2, WebhookAssumption DEF TypeOK, Streaks, Targeted, Unjudged, Update, Edit,
         Exists, Forgiven, hookVars, rowVars, emitVars, passVars, obsVars
    <3>2. ASSUME NEW k \in Hooks PROVE DeadEndpointRests!(k)'
      BY <2>2, WebhookAssumption DEF TypeOK, DeadEndpointRests, Update, Edit, Exists,
         Forgiven, hookVars, rowVars, emitVars, passVars, obsVars
    <3> QED
      BY <3>1, <3>2 DEF Rested, Streaks, DeadEndpointRests
  <2>3. ASSUME NEW h \in Hooks, Delete(h)
        PROVE  Rested'
    <3>1. ASSUME NEW k \in Hooks PROVE Streaks!(k)'
      BY <2>3, WebhookAssumption DEF TypeOK, Streaks, Targeted, Unjudged, Delete, Edit,
         Exists, Undue, hookVars, rowVars, emitVars, passVars, obsVars
    <3>2. ASSUME NEW k \in Hooks PROVE DeadEndpointRests!(k)'
      BY <2>3, WebhookAssumption DEF TypeOK, DeadEndpointRests, Delete, Edit, Exists,
         Undue, hookVars, rowVars, emitVars, passVars, obsVars
    <3> QED
      BY <3>1, <3>2 DEF Rested, Streaks, DeadEndpointRests
  <2>4. ASSUME NEW h \in Hooks, Test(h) \/ TestPost(h)
        PROVE  Rested'
    <3>1. Streaks' /\ DeadEndpointRests'
      BY <2>4 DEF Streaks, DeadEndpointRests, Targeted, Unjudged, Test, TestPost, hookVars,
         rowVars, passVars, obsVars
    <3> QED
      BY <3>1 DEF Rested, Streaks, DeadEndpointRests
  <2>21. ASSUME NEW h \in Hooks, TestRecord(h)
        PROVE  Rested'
    <3>0. UNCHANGED <<hook, of, stage, item, batch, disabled>>
      BY <2>21 DEF TestRecord, rowVars, passVars
    <3>1. ASSUME NEW k \in Hooks
          PROVE  /\ failures'[k] + mishaps' >= failures[k] + mishaps \/ misses'[k] = 0
                 /\ misses'[k] \in {0, misses[k]} /\ mishaps' >= mishaps
                 /\ failures'[k] \in Nat /\ misses'[k] \in Nat /\ mishaps' \in Nat
      BY <2>21 DEF TypeOK, TestRecord, Forgiven, Mishap
    <3>2. ASSUME NEW k \in Hooks PROVE Streaks!(k)'
      BY <3>0, <3>1, WebhookAssumption DEF TypeOK, Streaks, Targeted, Unjudged
    <3>3. ASSUME NEW k \in Hooks PROVE DeadEndpointRests!(k)'
      BY <3>0, <3>1, WebhookAssumption DEF TypeOK, DeadEndpointRests
    <3> QED
      BY <3>2, <3>3 DEF Rested, Streaks, DeadEndpointRests
  <2>5. ASSUME NEW h \in Hooks, Restore(h)
        PROVE  Rested'
    <3>1. Streaks' /\ DeadEndpointRests'
      BY <2>5 DEF Streaks, DeadEndpointRests, Targeted, Unjudged, Restore, hookVars,
         rowVars, emitVars, passVars, obsVars
    <3> QED
      BY <3>1 DEF Rested, Streaks, DeadEndpointRests
  <2>6. CASE Purge
    <3>1. Streaks' /\ DeadEndpointRests'
      BY <2>6 DEF Streaks, DeadEndpointRests, Targeted, Unjudged, Purge, hookVars,
         rowVars, emitVars, passVars, obsVars
    <3> QED
      BY <3>1 DEF Rested, Streaks, DeadEndpointRests
  <2>7. ASSUME NEW e \in Emitters, Emit(e)
        PROVE  Rested'
    <3>1. Streaks' /\ DeadEndpointRests'
      BY <2>7 DEF Streaks, DeadEndpointRests, Targeted, Unjudged, Emit, hookVars, rowVars,
         emitVars, passVars, obsVars
    <3> QED
      BY <3>1 DEF Rested, Streaks, DeadEndpointRests
  <2>8. ASSUME NEW e \in Emitters, NEW h \in Hooks, Enqueue(e, h)
        PROVE  Rested'
    <3>1. Streaks'
      <4> SUFFICES ASSUME NEW k \in Hooks
                   PROVE  Streaks!(k)'
        BY DEF Streaks
      <4>1. /\ UNCHANGED <<hook, failures, misses, stage, item, batch, disabled>>
            /\ mishaps' \in Nat /\ mishaps' >= mishaps
        BY <2>8 DEF Enqueue, Mishap, TypeOK, hookVars, passVars, obsVars
      <4>2. \A d \in Deliveries : row[d] # "none" => of'[d] = of[d]
        BY <2>8 DEF Enqueue, TypeOK
      <4>3. stage \in Holding => of'[item] = of[item]
        BY <4>2 DEF ItemOpen
      <4>4. \A d \in batch : of'[d] = of[d]
        BY <4>2 DEF BatchOpen, TypeOK
      <4> QED
        BY <4>1, <4>3, <4>4, WebhookAssumption
           DEF Streaks, Targeted, Unjudged, Holding, TypeOK
    <3>2. ASSUME NEW k \in Hooks PROVE DeadEndpointRests!(k)'
      BY <2>8, WebhookAssumption DEF TypeOK, DeadEndpointRests, Enqueue, Exists, Mishap,
         hookVars, rowVars, emitVars, passVars, obsVars
    <3> QED
      BY <3>1, <3>2 DEF Rested, Streaks, DeadEndpointRests
  <2>9. ASSUME NEW e \in Emitters, SetPayload(e)
        PROVE  Rested'
    <3>1. ASSUME NEW k \in Hooks PROVE Streaks!(k)'
      BY <2>9, WebhookAssumption DEF TypeOK, Streaks, Targeted, Unjudged, SetPayload,
         Mishap, hookVars, rowVars, emitVars, passVars, obsVars
    <3>2. ASSUME NEW k \in Hooks PROVE DeadEndpointRests!(k)'
      BY <2>9, WebhookAssumption DEF TypeOK, DeadEndpointRests, SetPayload, Mishap,
         hookVars, rowVars, emitVars, passVars, obsVars
    <3> QED
      BY <3>1, <3>2 DEF Rested, Streaks, DeadEndpointRests
  <2>10. ASSUME NEW d \in Deliveries, ComeDue(d)
        PROVE  Rested'
    <3>1. Streaks' /\ DeadEndpointRests'
      BY <2>10 DEF Streaks, DeadEndpointRests, Targeted, Unjudged, ComeDue, hookVars,
         rowVars, emitVars, passVars, obsVars
    <3> QED
      BY <3>1 DEF Rested, Streaks, DeadEndpointRests
  <2>11. CASE StartPass
    <3>1. DeadEndpointRests'
      BY <2>11 DEF DeadEndpointRests, Targeted, Unjudged, StartPass, hookVars, rowVars,
         emitVars, passVars, obsVars
    <3>2. ASSUME NEW k \in Hooks PROVE Streaks!(k)'
      BY <2>11, WebhookAssumption DEF TypeOK, Streaks, Targeted, Unjudged, StartPass,
         Oldest, Eligible, hookVars, rowVars, emitVars, passVars, obsVars
    <3> QED
      BY <3>1, <3>2 DEF Rested, Streaks, DeadEndpointRests
  <2>12. CASE NextItem
    <3>1. DeadEndpointRests'
      BY <2>12 DEF DeadEndpointRests, Targeted, Unjudged, NextItem, hookVars, rowVars,
         emitVars, passVars, obsVars
    <3>2. Streaks'
      <4> SUFFICES ASSUME NEW k \in Hooks
                   PROVE  Streaks!(k)'
        BY DEF Streaks
      <4>1. PICK d \in batch : /\ batch' = batch \ {d} /\ item' = d
                               /\ stage' \in {"next", "post", "badUrl", "giveUpSpoilt"}
                               /\ stage' = "post" => of[d] \notin disabled
        BY <2>12 DEF NextItem, TypeOK, Confs
      <4>2. stage = "next" /\ UNCHANGED <<hook, failures, of, misses, disabled, mishaps>>
        BY <2>12 DEF NextItem, hookVars, rowVars, obsVars
      <4>3. ASSUME Targeted(k)' PROVE Targeted(k)
        <5>1. CASE hook'[k] = "active"
          BY <4>2, <5>1 DEF Targeted
        <5>2. CASE stage' = "post" /\ of'[item'] = k
          BY <4>1, <4>2, <5>2 DEF Targeted
        <5>3. CASE \E c \in batch' : of'[c] = k /\ k \notin disabled'
          BY <4>1, <4>2, <5>3 DEF Targeted
        <5> QED
          BY <4>3, <5>1, <5>2, <5>3 DEF Targeted
      <4> QED
        BY <4>1, <4>2, <4>3 DEF Streaks, Unjudged
    <3> QED
      BY <3>1, <3>2 DEF Rested, Streaks, DeadEndpointRests
  <2>13. CASE Post
    <3>1. ASSUME NEW k \in Hooks PROVE Streaks!(k)'
      BY <2>13, WebhookAssumption DEF TypeOK, Streaks, Targeted, Unjudged, ItemOpen,
         BatchOpen, Holding, Owned, Post, hookVars, rowVars, emitVars, passVars, obsVars
    <3>2. DeadEndpointRests'
      <4> SUFFICES ASSUME NEW k \in Hooks
                   PROVE  DeadEndpointRests!(k)'
        BY DEF DeadEndpointRests
      <4>1. of[item] = k /\ hook[k] # "gone" => misses[k] < Threshold + mishaps
        BY <2>13 DEF Post, Streaks, Targeted, Unjudged
      <4>2. UNCHANGED <<hook, mishaps>>
        BY <2>13 DEF Post, hookVars
      <4>3. misses'[k] = misses[k] \/ misses'[k] = 0 \/ (of[item] = k /\ misses'[k] = misses[k] + 1)
        BY <2>13 DEF Post, TypeOK
      <4> QED
        BY <4>1, <4>2, <4>3, WebhookAssumption DEF DeadEndpointRests, TypeOK
    <3> QED
      BY <3>1, <3>2 DEF Rested, Streaks, DeadEndpointRests
  <2>14. CASE Succeeded
    <3>1. ASSUME NEW k \in Hooks PROVE Streaks!(k)'
      BY <2>14, WebhookAssumption DEF TypeOK, Streaks, Targeted, Unjudged, ItemOpen,
         BatchOpen, Holding, Owned, Succeeded, Mishap, Undue, Forgiven, hookVars, rowVars,
         emitVars, passVars, obsVars
    <3>2. ASSUME NEW k \in Hooks PROVE DeadEndpointRests!(k)'
      BY <2>14, WebhookAssumption DEF TypeOK, DeadEndpointRests, Succeeded, Mishap, Undue,
         Forgiven, hookVars, rowVars, emitVars, passVars, obsVars
    <3> QED
      BY <3>1, <3>2 DEF Rested, Streaks, DeadEndpointRests
  <2>15. CASE Failed
    <3>1. Streaks'
      <4> SUFFICES ASSUME NEW k \in Hooks
                   PROVE  Streaks!(k)'
        BY DEF Streaks
      <4>1. /\ stage = "missed" /\ of[item] \in Hooks
            /\ UNCHANGED <<hook, of, item, misses, disabled>>
        BY <2>15 DEF Failed, ItemOpen, Holding, Owned, obsVars
      <4>2. CASE /\ Exists(of[item])
                 /\ failures' = [failures EXCEPT ![of[item]] = failures[of[item]] + 1]
                 /\ stage' = IF GivesUp(failures[of[item]] + 1) THEN "giveUp" ELSE "next"
                 /\ UNCHANGED <<batch, mishaps>>
        <5>1. CASE k = of[item]
          <6>1. failures'[k] = failures[k] + 1 /\ failures[k] \in Nat
            BY <4>1, <4>2, <5>1 DEF TypeOK
          <6>2. stage' = "giveUp" \/ (stage' = "next" /\ failures'[k] < Threshold)
            BY <4>2, <5>1, <6>1, WebhookAssumption DEF GivesUp
          <6> QED
            BY <4>1, <4>2, <5>1, <6>1, <6>2, WebhookAssumption
               DEF Streaks, Unjudged, TypeOK, Exists
        <5>2. CASE k # of[item]
          <6>1. failures'[k] = failures[k] /\ stage' \in {"giveUp", "next"}
            BY <4>1, <4>2, <5>2 DEF TypeOK
          <6> QED
            BY <4>1, <4>2, <5>2, <6>1 DEF Streaks, Targeted, Unjudged
        <5> QED
          BY <5>1, <5>2
      <4>3. CASE /\ hook[of[item]] = "gone"
                 /\ stage' = "idle" /\ batch' = {} /\ UNCHANGED <<failures, mishaps>>
        BY <4>1, <4>3 DEF Streaks, Targeted, Unjudged
      <4>4. CASE Mishap /\ stage' = "idle" /\ batch' = {} /\ UNCHANGED failures
        BY <4>1, <4>4, WebhookAssumption
           DEF Streaks, DeadEndpointRests, Targeted, Unjudged, Mishap, TypeOK
      <4> QED
        BY <2>15, <4>2, <4>3, <4>4 DEF Failed
    <3>2. ASSUME NEW k \in Hooks PROVE DeadEndpointRests!(k)'
      BY <2>15, WebhookAssumption DEF TypeOK, DeadEndpointRests, Failed, Mishap,
         MarkFailed, Undue, Exists, hookVars, rowVars, emitVars, passVars, obsVars
    <3> QED
      BY <3>1, <3>2 DEF Rested, Streaks, DeadEndpointRests
  <2>16. CASE FailedUrl
    <3>0. /\ UNCHANGED <<hook, of, item, batch, disabled, misses>>
          /\ stage = "badUrl" /\ stage' = "giveUpSpoilt"
      BY <2>16 DEF FailedUrl, obsVars
    <3>3. ASSUME NEW k \in Hooks
          PROVE  /\ failures'[k] + mishaps' >= failures[k] + mishaps /\ mishaps' >= mishaps
                 /\ failures'[k] \in Nat /\ mishaps' \in Nat
      <4>1. failures' = failures \/ failures' = [failures EXCEPT ![of[item]] = @ + 1]
        BY <2>16 DEF FailedUrl
      <4>2. mishaps' = mishaps \/ mishaps' = mishaps + 1
        BY <2>16 DEF FailedUrl, Mishap
      <4> QED
        BY <4>1, <4>2 DEF TypeOK
    <3>1. ASSUME NEW k \in Hooks PROVE Streaks!(k)'
      BY <3>0, <3>3, WebhookAssumption DEF TypeOK, Streaks, Targeted, Unjudged
    <3>2. ASSUME NEW k \in Hooks PROVE DeadEndpointRests!(k)'
      BY <2>16, WebhookAssumption DEF TypeOK, DeadEndpointRests, FailedUrl, Mishap,
         MarkFailed, Undue, Exists, hookVars, rowVars, emitVars, passVars, obsVars
    <3> QED
      BY <3>1, <3>2 DEF Rested, Streaks, DeadEndpointRests
  <2>17. CASE Disable
    <3>1. Streaks'
      <4> SUFFICES ASSUME NEW k \in Hooks
                   PROVE  Streaks!(k)'
        BY DEF Streaks
      <4>1. /\ stage \in {"giveUp", "giveUpSpoilt"} /\ stage' = "next" /\ of[item] \in Hooks
            /\ UNCHANGED <<failures, of, item, batch, misses>>
        BY <2>17 DEF Disable, ItemOpen, Holding, Owned, obsVars
      <4>2. CASE /\ hook' = [hook EXCEPT ![of[item]] = IF Exists(of[item]) THEN "off" ELSE hook[of[item]]]
                 /\ disabled' = disabled \cup {of[item]} /\ UNCHANGED mishaps
        <5>1. hook'[k] = "gone" <=> hook[k] = "gone"
          BY <4>1, <4>2 DEF Exists, TypeOK
        <5>2. hook'[k] = "none" <=> hook[k] = "none"
          BY <4>1, <4>2 DEF Exists, TypeOK
        <5>3. Targeted(k)' => Targeted(k) /\ k # of[item]
          BY <4>1, <4>2 DEF Targeted, Exists, TypeOK
        <5> QED
          BY <4>1, <4>2, <5>1, <5>2, <5>3 DEF Streaks, Unjudged
      <4>3. CASE Mishap /\ UNCHANGED hook
        BY <4>1, <4>3, WebhookAssumption DEF Streaks, DeadEndpointRests, Mishap, TypeOK
      <4> QED
        BY <2>17, <4>2, <4>3 DEF Disable
    <3>2. ASSUME NEW k \in Hooks PROVE DeadEndpointRests!(k)'
      BY <2>17, WebhookAssumption DEF TypeOK, DeadEndpointRests, Disable, Mishap, Undue,
         Exists, QueuedFor, hookVars, rowVars, emitVars, passVars, obsVars
    <3> QED
      BY <3>1, <3>2 DEF Rested, Streaks, DeadEndpointRests
  <2>18. CASE EndPass
    <3>1. DeadEndpointRests'
      BY <2>18 DEF DeadEndpointRests, Targeted, Unjudged, EndPass, hookVars, rowVars,
         emitVars, passVars, obsVars
    <3>2. ASSUME NEW k \in Hooks PROVE Streaks!(k)'
      BY <2>18, WebhookAssumption DEF TypeOK, Streaks, Targeted, Unjudged, EndPass,
         hookVars, rowVars, emitVars, passVars, obsVars
    <3> QED
      BY <3>1, <3>2 DEF Rested, Streaks, DeadEndpointRests
  <2>19. CASE Crash
    <3>1. Streaks'
      <4>1. /\ stage' = "idle" /\ mishaps' = mishaps + 1
            /\ UNCHANGED <<hook, failures, misses>>
        BY <2>19 DEF Crash, Mishap, hookVars, obsVars
      <4> QED
        BY <4>1, WebhookAssumption DEF Streaks, DeadEndpointRests, TypeOK
    <3>2. ASSUME NEW k \in Hooks PROVE DeadEndpointRests!(k)'
      BY <2>19, WebhookAssumption DEF TypeOK, DeadEndpointRests, Crash, Mishap, hookVars,
         rowVars, emitVars, passVars, obsVars
    <3> QED
      BY <3>1, <3>2 DEF Rested, Streaks, DeadEndpointRests
  <2>20. CASE UNCHANGED vars
    <3>1. Streaks' /\ DeadEndpointRests'
      BY <2>20 DEF Streaks, DeadEndpointRests, Targeted, Unjudged, vars, hookVars,
         rowVars, emitVars, passVars, obsVars
    <3> QED
      BY <3>1 DEF Rested, Streaks, DeadEndpointRests
  <2> QED
    BY <2>1, <2>2, <2>3, <2>4, <2>5, <2>6, <2>7, <2>8, <2>9, <2>10, <2>11, <2>12, <2>13,
       <2>14, <2>15, <2>16, <2>17, <2>18, <2>19, <2>20, <2>21 DEF Next, OperatorStep, EmitStep,
       PassStep
<1> QED
  BY <1>1, <1>2, BaseInvariant, PTL DEF Spec

\* FAILURE_THRESHOLD bounds the consecutive failed POSTs of passes to a hook, whatever the
\* batch size, the order of rows, the edits and the passes; a probe that landed starts the
\* count over when its record is written.
THEOREM DeadEndpointsRest == Spec => []DeadEndpointRests
BY RestedInvariant, PTL DEF Rested
=============================================================================
