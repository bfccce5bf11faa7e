-------------------------- MODULE ConfigApplyProofs --------------------------
(***************************************************************************)
(* The config engine keeps its promise to the running service, whatever    *)
(* the files, the bodies, the checker and the number of callers.           *)
(***************************************************************************)
EXTENDS ConfigApply, TLAPS

\* A call that is under way has a request, and only apply gets as far as a revision.
ReqInv ==
  \A w \in Workers :
    /\ pc[w] \notin Ended => req[w] \in Requests
    /\ pc[w] \in {"checking", "recording"} => req[w].op = "apply"

TypeInv == TypeOK /\ ReqInv

\* A request names a file, and what it wants to find there is a content.
LEMMA RequestTypes ==
  ASSUME NEW w \in Workers, req[w] \in Requests
  PROVE  /\ req[w].file \in Files /\ req[w].body \in Bodies \cup {None}
         /\ req[w].op = "apply" => req[w].body \in Bodies
         /\ req[w].check => req[w].op = "apply"
         /\ Wanted(w) \in Content /\ Wanted(w).body \in Bodies \cup {None}
  <1>1. /\ req[w].file \in Files /\ req[w].body \in Bodies \cup {None}
        /\ req[w].op \in {"apply", "rollback"} => req[w].body \in Bodies
        /\ req[w].op \in {"apply", "rollback", "remove"}
        /\ req[w].check => req[w].op = "apply"
    BY DEF Requests
  <1>2. Wanted(w) \in Content /\ Wanted(w).body \in Bodies \cup {None}
    BY <1>1 DEF Wanted, Absent, Content
  <1> QED BY <1>1, <1>2

\* The tree on disk is a tree.
LEMMA TreeTypes ==
  ASSUME NEW d \in [Files -> Content]
  PROVE  Tree(d) \in Trees
  BY DEF Tree, Trees, Content

\* Writing one file changes the tree at that path alone.
LEMMA TreeUpdate ==
  ASSUME NEW d \in [Files -> Content], NEW f \in Files, NEW c \in Content
  PROVE  Tree([d EXCEPT ![f] = c]) = [Tree(d) EXCEPT ![f] = c.body]
  BY DEF Tree

\* The initial state is well typed.
LEMMA InitTypes == Init => TypeInv
  BY ConfigAssumption
  DEF Init, TypeInv, TypeOK, ReqInv, Content, Absent, Trees, Empty, Nothing, Stages, Ended, NoRequest

\* Returning and moving on keep the call's part of the state well typed.
LEMMA GotoTypes ==
  ASSUME TypeInv, NEW w \in Workers, NEW s \in Stages, Goto(w, s),
         req[w] \in Requests, s \in {"checking", "recording"} => req[w].op = "apply"
  PROVE  /\ holder' \in Workers \cup {None} /\ pc' \in [Workers -> Stages]
         /\ req' \in [Workers -> Requests \cup {NoRequest}] /\ snap' \in [Workers -> Content]
         /\ before' \in [Workers -> [disk : [Files -> Content], live : Trees]]
         /\ ReqInv'
  BY DEF TypeInv, TypeOK, ReqInv, Goto

\* Return ends a call: the lock is given back and what the call knew is dropped.
LEMMA ReturnTypes ==
  ASSUME TypeInv, NEW w \in Workers, NEW s \in Ended, Return(w, s)
  PROVE  /\ holder' \in Workers \cup {None} /\ pc' \in [Workers -> Stages]
         /\ req' \in [Workers -> Requests \cup {NoRequest}] /\ snap' \in [Workers -> Content]
         /\ before' \in [Workers -> [disk : [Files -> Content], live : Trees]]
         /\ ReqInv'
  <1>1. Nothing \in [disk : [Files -> Content], live : Trees] /\ Absent \in Content
    BY DEF Nothing, Absent, Content, Trees, Empty
  <1>2. \A v \in Workers : v # w => pc'[v] = pc[v] /\ req'[v] = req[v]
    BY DEF TypeInv, TypeOK, Return
  <1>3. pc'[w] = s
    BY DEF TypeInv, TypeOK, Return
  <1>4. ReqInv'
    BY <1>2, <1>3 DEF TypeInv, ReqInv, Ended
  <1> QED BY <1>1, <1>4 DEF TypeInv, TypeOK, Return, Stages, Ended

\* Every step keeps the types.
LEMMA NextTypes == TypeInv /\ [Next]_vars => TypeInv'
  <1> SUFFICES ASSUME TypeInv, [Next]_vars
               PROVE  TypeInv'
    OBVIOUS
  <1> USE DEF TypeInv
  <1>1. ASSUME NEW w \in Workers, NEW r \in Requests, Call(w, r)
        PROVE  TypeInv'
    BY <1>1 DEF TypeOK, ReqInv, Call, machineVars, Stages, Ended
  <1>2. ASSUME NEW w \in Workers, Acquire(w)
        PROVE  TypeInv'
    BY <1>2 DEF TypeOK, ReqInv, Acquire, machineVars, Stages, Ended
  <1>3. ASSUME NEW w \in Workers, CallStep(w)
        PROVE  TypeInv'
    <2>0. req[w] \in Requests
      BY <1>3 DEF CallStep, ReqInv, Ended, Look, Write, Validate, Reload, Check, Record, Restore, ReloadAgain
    <2> DEFINE file == req[w].file
    <2>w. /\ file \in Files /\ req[w].body \in Bodies \cup {None}
          /\ req[w].op = "apply" => req[w].body \in Bodies
          /\ req[w].check => req[w].op = "apply"
          /\ Wanted(w) \in Content
      BY <2>0, RequestTypes
    <2>t. Tree(disk) \in Trees
      BY TreeTypes DEF TypeOK
    <2>l. Loads => live' \in Trees
      BY <2>t DEF Loads, TypeOK
    <2>1. CASE Look(w)
      <3>1. Found(w) \in Content
        BY <2>w DEF Found, TypeOK
      <3>2. CASE \E s \in {"unchanged", "failed"} : Return(w, s)
        BY <2>1, <3>2, ReturnTypes DEF Look, TypeOK, machineVars, Ended
      <3>3. CASE /\ snap' = [snap EXCEPT ![w] = Found(w)]
                 /\ pc' = [pc EXCEPT ![w] = "writing"]
                 /\ UNCHANGED <<holder, req, before>>
        BY <2>0, <2>1, <3>1, <3>3 DEF Look, TypeOK, ReqInv, machineVars, Stages, Ended
      <3> QED BY <2>1, <3>2, <3>3 DEF Look
    <2>2. CASE Write(w)
      <3>1. CASE Goto(w, "validating")
        BY <2>0, <2>w, <2>2, <3>1, GotoTypes DEF Write, TypeOK, Stages
      <3>2. CASE Return(w, "failed")
        BY <2>w, <2>2, <3>2, ReturnTypes DEF Write, TypeOK, Ended
      <3> QED BY <2>2, <3>1, <3>2 DEF Write
    <2>3. CASE Validate(w)
      BY <2>0, <2>3, GotoTypes DEF Validate, TypeOK, machineVars, Stages
    <2>4. CASE Reload(w)
      <3>1. live' \in Trees /\ read' \in Trees
        BY <2>t, <2>l, <2>4 DEF Reload, TypeOK
      <3>2. CASE \E s \in {"checking", "recording", "undoingReload"} :
                    Goto(w, s) /\ (s # "undoingReload" => req[w].op = "apply")
        BY <2>0, <2>4, <3>1, <3>2, GotoTypes DEF Reload, TypeOK, Stages
      <3>3. CASE Return(w, "ok")
        BY <2>4, <3>1, <3>3, ReturnTypes DEF Reload, TypeOK, Ended
      <3> QED BY <2>w, <2>4, <3>2, <3>3 DEF Reload, AfterReload
    <2>5. CASE Check(w)
      <3>1. req[w].op = "apply"
        BY <2>5 DEF Check, ReqInv
      <3> QED BY <2>0, <2>5, <3>1, GotoTypes DEF Check, TypeOK, machineVars, Stages
    <2>6. CASE Record(w)
      <3>1. req[w].body \in Bodies
        BY <2>w, <2>6 DEF Record, ReqInv
      <3>2. Return(w, "ok") \/ Return(w, "failed")
        BY <2>6 DEF Record
      <3>3. mishaps' \in Nat
        BY <2>6 DEF Record, Mishap, TypeOK
      <3>4. recorded[file] \cup {req[w].body} \in SUBSET Bodies
        BY <2>w, <3>1 DEF TypeOK
      <3>5. recorded' = recorded \/ recorded' = [recorded EXCEPT ![file] = recorded[file] \cup {req[w].body}]
        BY <2>6 DEF Record
      <3>6. recorded' \in [Files -> SUBSET Bodies]
        BY <2>w, <3>4, <3>5 DEF TypeOK
      <3> QED BY <2>6, <3>2, <3>3, <3>6, ReturnTypes DEF Record, TypeOK, Ended
    <2>7. CASE Restore(w)
      <3>1. disk' \in [Files -> Content] /\ mishaps' \in Nat
        BY <2>w, <2>7 DEF Restore, Mishap, TypeOK
      <3>2. CASE Return(w, "failed")
        BY <2>7, <3>1, <3>2, ReturnTypes DEF Restore, TypeOK, Ended
      <3>3. CASE Goto(w, "reloadingAgain")
        BY <2>0, <2>7, <3>1, <3>3, GotoTypes DEF Restore, TypeOK, Stages
      <3> QED BY <2>7, <3>2, <3>3 DEF Restore
    <2>8. CASE ReloadAgain(w)
      <3>1. live' \in Trees /\ read' \in Trees /\ mishaps' \in Nat
        BY <2>t, <2>l, <2>8 DEF ReloadAgain, Mishap, TypeOK
      <3> QED BY <2>8, <3>1, ReturnTypes DEF ReloadAgain, TypeOK, Ended
    <2> QED BY <1>3, <2>1, <2>2, <2>3, <2>4, <2>5, <2>6, <2>7, <2>8 DEF CallStep
  <1>4. ASSUME NEW f \in Files, HumanEdit(f)
        PROVE  TypeInv'
    BY <1>4 DEF TypeOK, ReqInv, HumanEdit, Mishap, callVars
  <1>5. CASE OutsideReload
    <2>1. Tree(disk) \in Trees
      BY TreeTypes DEF TypeOK
    <2> QED BY <1>5, <2>1 DEF TypeOK, ReqInv, OutsideReload, Loads, Mishap, callVars
  <1>6. CASE Crash
    <2>1. Nothing \in [disk : [Files -> Content], live : Trees] /\ Absent \in Content
      BY DEF Nothing, Absent, Content, Trees, Empty
    <2> QED BY <1>6, <2>1 DEF TypeOK, ReqInv, Crash, Mishap, machineVars, Stages, Ended
  <1>7. CASE UNCHANGED vars
    BY <1>7 DEF TypeOK, ReqInv, vars, machineVars, callVars
  <1> QED BY <1>1, <1>2, <1>3, <1>4, <1>5, <1>6, <1>7 DEF Next

\* The engine's state is well typed, whatever goes wrong around it.
THEOREM TypeCorrect == Spec => []TypeOK
  <1>1. TypeInv => TypeOK
    BY DEF TypeInv
  <1> QED BY <1>1, InitTypes, NextTypes, PTL DEF Spec

-----------------------------------------------------------------------------
(* The invariant behind the promise.  Between calls the tree on disk is    *)
(* valid and is what the service runs on; while a call holds the lock,     *)
(* disk and service differ from what it found in its own file only, in a   *)
(* way that depends on how far it has got.                                 *)

\* Nothing goes wrong but what the engine can see: a checker, a reload, a write or a
\* record that fails.
Calm == Mishaps \cap {"crash", "edit", "lost", "half", "outside"} = {}

\* The tree a call is about to make of what it found.
Target(w) == [before[w].disk EXCEPT ![req[w].file] = Wanted(w)]

Holds(w) ==
  /\ before[w].live = Tree(before[w].disk) /\ before[w].live \in ValidTrees
  /\ pc[w] \in {"looking", "writing"} => disk = before[w].disk /\ live = before[w].live
  /\ pc[w] \in {"writing", "validating", "reloading", "checking", "undoing", "undoingReload"}
       => snap[w] = before[w].disk[req[w].file]
  /\ pc[w] \in {"validating", "reloading", "undoing"} => disk = Target(w) /\ live = before[w].live
  /\ pc[w] \in {"reloading", "checking", "recording", "undoingReload"} => Tree(disk) \in ValidTrees
  /\ pc[w] \in {"checking", "recording"} => disk = Target(w) /\ live = Tree(disk)
  /\ pc[w] = "undoingReload" => disk = Target(w) /\ live \in {before[w].live, Tree(disk)}
  /\ pc[w] = "reloadingAgain" => disk = before[w].disk /\ live \in {before[w].live, Tree(Target(w))}

Outside == Ended \cup {"waiting"}

EngineInv ==
  /\ TypeInv
  /\ \A w \in Workers : pc[w] \notin Outside => holder = w
  /\ holder = None => live = Tree(disk) /\ live \in ValidTrees
  /\ \A w \in Workers : pc[w] \notin Outside => Holds(w)
  /\ read \in ValidTrees

\* One step of a call, seen from its own invariant: it moves on and Holds again, or it
\* returns and leaves a valid tree that is both on disk and running.  What the service
\* was told to load was valid, and what it runs on differs in one file at most.
LEMMA CallStepHolds ==
  ASSUME Calm, EngineInv, NEW w \in Workers, CallStep(w)
  PROVE  /\ read' \in ValidTrees
         /\ \/ /\ \E s \in Stages \ Outside : pc' = [pc EXCEPT ![w] = s]
               /\ holder' = w /\ UNCHANGED <<req, before>> /\ Holds(w)'
            \/ /\ \E s \in Ended : Return(w, s)
               /\ live' = Tree(disk') /\ live' \in ValidTrees
         /\ \/ live' = live
            \/ \E b \in Bodies \cup {None} :
                 live' = [live EXCEPT ![req[w].file] = b] /\ live' \in ValidTrees
  <1>0. /\ pc[w] \notin Outside /\ req[w] \in Requests /\ TypeInv
    BY DEF EngineInv, TypeInv, ReqInv, Outside, Ended, CallStep, Look, Write, Validate, Reload,
           Check, Record, Restore, ReloadAgain
  <1>1. Holds(w) /\ holder = w /\ read \in ValidTrees
    BY <1>0 DEF EngineInv
  <1> DEFINE f == req[w].file
  <1>2. f \in Files /\ Wanted(w) \in Content /\ Wanted(w).body \in Bodies \cup {None}
    BY <1>0, RequestTypes
  <1>3. /\ disk \in [Files -> Content] /\ pc \in [Workers -> Stages]
        /\ before[w].disk \in [Files -> Content] /\ before[w].live \in Trees
        /\ snap \in [Workers -> Content] /\ live \in Trees
    BY <1>0 DEF TypeInv, TypeOK
  <1>4. Tree(Target(w)) = [Tree(before[w].disk) EXCEPT ![f] = Wanted(w).body]
    BY <1>2, <1>3, TreeUpdate DEF Target
  <1>5. CASE Look(w)
    <2>1. CASE \E s \in {"unchanged", "failed"} : Return(w, s)
      BY <1>1, <1>5, <2>1 DEF Look, Holds, machineVars, Ended
    <2>2. CASE /\ snap' = [snap EXCEPT ![w] = Found(w)]
               /\ pc' = [pc EXCEPT ![w] = "writing"]
               /\ UNCHANGED <<holder, req, before>>
      <3>1. snap'[w] = before[w].disk[f] /\ pc'[w] = "writing"
        BY <1>1, <1>3, <1>5, <2>2 DEF Look, Holds, Found
      <3>2. Holds(w)'
        BY <1>1, <1>5, <2>2, <3>1 DEF Look, Holds, machineVars
      <3> QED BY <1>1, <1>5, <2>2, <3>2 DEF Look, machineVars, Stages, Outside, Ended
    <2> QED BY <1>5, <2>1, <2>2 DEF Look
  <1>6. CASE Write(w)
    <2>1. CASE disk' = [disk EXCEPT ![f] = Wanted(w)] /\ Goto(w, "validating")
      <3>1. disk' = Target(w) /\ pc'[w] = "validating"
        BY <1>1, <1>3, <1>6, <2>1 DEF Write, Holds, Target, Goto
      <3>2. Target(w)' = Target(w)
        BY <2>1 DEF Goto, Target, Wanted
      <3>3. Holds(w)'
        BY <1>1, <1>6, <2>1, <3>1, <3>2 DEF Write, Holds, Goto
      <3> QED BY <1>1, <1>6, <2>1, <3>3 DEF Write, Goto, Stages, Outside, Ended
    <2>2. CASE UNCHANGED disk /\ Return(w, "failed")
      BY <1>1, <1>6, <2>2 DEF Write, Holds, Ended
    <2> QED BY <1>6, <2>1, <2>2 DEF Write
  <1>7. CASE Validate(w)
    <2> DEFINE s == pc'[w]
    <2>1. /\ \/ s = "reloading" /\ Tree(disk) \in ValidTrees /\ Goto(w, "reloading")
             \/ s = "undoing" /\ Goto(w, "undoing")
          /\ UNCHANGED <<disk, live, read, req, before, snap, holder>>
      BY <1>3, <1>7 DEF Validate, Goto, machineVars
    <2>2. Target(w)' = Target(w)
      BY <2>1 DEF Target, Wanted
    <2>3. Holds(w)'
      BY <1>1, <1>7, <2>1, <2>2 DEF Validate, Holds
    <2> QED BY <1>1, <2>1, <2>3 DEF Goto, Stages, Outside, Ended
  <1>8. CASE Reload(w)
    <2>1. /\ Tree(disk) \in ValidTrees /\ disk = Target(w) /\ live = before[w].live
          /\ read' = Tree(disk) /\ UNCHANGED disk
          /\ live' = Tree(disk) \/ live' = live
      BY <1>1, <1>8 DEF Reload, Holds, Loads
    <2>2. \/ live' = live
          \/ live' = [live EXCEPT ![f] = Wanted(w).body] /\ live' \in ValidTrees
      BY <1>1, <1>4, <2>1 DEF Holds
    <2>3. CASE Return(w, "ok") /\ live' = Tree(disk)
      BY <1>2, <2>1, <2>2, <2>3 DEF Ended
    <2>4. ASSUME NEW s \in {"checking", "recording", "undoingReload"}, Goto(w, s),
                 s # "undoingReload" => live' = Tree(disk)
          PROVE  Holds(w)' /\ pc' = [pc EXCEPT ![w] = s] /\ holder' = w /\ UNCHANGED <<req, before>>
      <3>1. pc'[w] = s /\ UNCHANGED <<req, before, snap, holder>>
        BY <1>3, <2>4 DEF Goto
      <3>2. Target(w)' = Target(w)
        BY <3>1 DEF Target, Wanted
      <3>3. snap[w] = before[w].disk[f]
        BY <1>1, <1>8 DEF Holds, Reload
      <3> QED BY <1>1, <2>1, <2>4, <3>1, <3>2, <3>3 DEF Holds, Goto
    <2>5. \/ Return(w, "ok") /\ live' = Tree(disk)
          \/ \E s \in {"checking", "recording", "undoingReload"} :
               Goto(w, s) /\ (s # "undoingReload" => live' = Tree(disk))
      BY <1>8 DEF Reload, AfterReload, Loads
    <2> QED BY <1>2, <2>1, <2>2, <2>3, <2>4, <2>5 DEF Stages, Outside, Ended
  <1>9. CASE Check(w)
    <2>1. /\ \E s \in {"recording", "undoingReload"} : Goto(w, s) /\ pc'[w] = s
          /\ UNCHANGED <<disk, live, read, req, before, snap, holder>>
      BY <1>3, <1>9 DEF Check, Goto, machineVars
    <2>2. Target(w)' = Target(w)
      BY <2>1 DEF Target, Wanted
    <2>3. Holds(w)'
      BY <1>1, <1>9, <2>1, <2>2 DEF Check, Holds
    <2> QED BY <1>1, <2>1, <2>3 DEF Goto, Stages, Outside, Ended
  <1>10. CASE Record(w)
    BY <1>1, <1>10 DEF Record, Holds, Ended
  <1>11. CASE Restore(w)
    <2>0. /\ disk' = [disk EXCEPT ![f] = snap[w]] /\ UNCHANGED <<live, read>>
          /\ IF pc[w] = "undoing" THEN Return(w, "failed") ELSE Goto(w, "reloadingAgain")
      BY <1>11 DEF Restore, Mishap, Calm
    <2>1. disk = Target(w) /\ snap[w] = before[w].disk[f]
      BY <1>1, <1>11 DEF Restore, Holds
    <2>2. disk' = before[w].disk
      BY <1>2, <1>3, <2>0, <2>1 DEF Target
    <2>3. CASE pc[w] = "undoing"
      BY <1>1, <2>0, <2>2, <2>3 DEF Holds, Ended
    <2>4. CASE pc[w] = "undoingReload"
      <3>1. pc'[w] = "reloadingAgain" /\ UNCHANGED <<req, before, holder>>
        BY <1>3, <2>0, <2>4 DEF Goto
      <3>2. Target(w)' = Target(w)
        BY <3>1 DEF Target, Wanted
      <3>3. Holds(w)'
        BY <1>1, <2>0, <2>1, <2>2, <2>4, <3>1, <3>2 DEF Holds
      <3> QED BY <1>1, <2>0, <2>4, <3>1, <3>3 DEF Goto, Stages, Outside, Ended
    <2> QED BY <1>11, <2>3, <2>4 DEF Restore
  <1>12. CASE ReloadAgain(w)
    <2>1. /\ disk = before[w].disk /\ Tree(disk) = before[w].live /\ before[w].live \in ValidTrees
          /\ live \in {before[w].live, Tree(Target(w))}
      BY <1>1, <1>12 DEF ReloadAgain, Holds
    <2>2. live' = before[w].live /\ read' = Tree(disk) /\ Return(w, "failed") /\ UNCHANGED disk
      BY <1>12, <2>1 DEF ReloadAgain, Loads, Mishap, Calm
    <2>3. live = before[w].live \/ live = [before[w].live EXCEPT ![f] = Wanted(w).body]
      BY <1>1, <1>4, <2>1 DEF Holds
    <2>4. live' = [live EXCEPT ![f] = before[w].live[f]] /\ before[w].live[f] \in Bodies \cup {None}
      BY <1>2, <1>3, <2>2, <2>3 DEF Trees
    <2> QED BY <2>1, <2>2, <2>4 DEF Ended
  <1> QED BY <1>5, <1>6, <1>7, <1>8, <1>9, <1>10, <1>11, <1>12 DEF CallStep

\* The promise holds of the first state.
LEMMA InitEngine == Init => EngineInv
  <1> SUFFICES ASSUME Init PROVE EngineInv
    OBVIOUS
  <1>1. TypeInv
    BY InitTypes
  <1>2. Tree(disk) = Empty
    BY DEF Init, Tree, Absent, Empty
  <1> QED BY <1>1, <1>2, ConfigAssumption DEF Init, EngineInv, Outside, Ended

\* What a step may do to the tree the service runs on.
OneFileAtATime ==
  \/ live' = live
  \/ \E f \in Files, b \in Bodies \cup {None} :
       live' = [live EXCEPT ![f] = b] /\ live' \in ValidTrees

\* Every step keeps the promise, as long as nothing happens behind the engine's back.
LEMMA NextEngine ==
  ASSUME Calm, EngineInv, [Next]_vars
  PROVE  EngineInv' /\ OneFileAtATime
  <1>0. TypeInv'
    BY NextTypes DEF EngineInv
  <1>t. pc \in [Workers -> Stages] /\ req \in [Workers -> Requests \cup {NoRequest}]
        /\ snap \in [Workers -> Content] /\ DOMAIN before = Workers
    BY DEF EngineInv, TypeInv, TypeOK
  <1>1. ASSUME NEW w \in Workers, NEW r \in Requests, Call(w, r)
        PROVE  EngineInv' /\ OneFileAtATime
    <2>1. \A v \in Workers : pc'[v] \notin Outside => v # w /\ pc[v] \notin Outside /\ Holds(v)'
      <3> SUFFICES ASSUME NEW v \in Workers, pc'[v] \notin Outside
                   PROVE  v # w /\ pc[v] \notin Outside /\ Holds(v)'
        OBVIOUS
      <3>1. v # w /\ pc'[v] = pc[v] /\ req'[v] = req[v] /\ UNCHANGED <<snap, before, disk, live>>
        BY <1>1, <1>t DEF Call, Outside, machineVars
      <3>2. Holds(v)
        BY <3>1 DEF EngineInv
      <3> QED BY <3>1, <3>2 DEF Holds, Target, Wanted
    <2> QED BY <1>0, <1>1, <2>1 DEF EngineInv, OneFileAtATime, Call, machineVars
  <1>2. ASSUME NEW w \in Workers, Acquire(w)
        PROVE  EngineInv' /\ OneFileAtATime
    <2>1. \A v \in Workers : pc[v] \in Outside
      BY <1>2, ConfigAssumption DEF Acquire, EngineInv
    <2>2. \A v \in Workers : pc'[v] \notin Outside => v = w
      BY <1>2, <1>t, <2>1 DEF Acquire
    <2>3. pc'[w] = "looking" /\ before'[w] = [disk |-> disk, live |-> live] /\ UNCHANGED <<disk, live, read>>
      BY <1>2, <1>t DEF Acquire, machineVars
    <2>4. live = Tree(disk) /\ live \in ValidTrees
      BY <1>2 DEF Acquire, EngineInv
    <2>5. Holds(w)'
      BY <2>3, <2>4 DEF Holds
    <2> QED BY <1>0, <1>2, <2>2, <2>3, <2>5, ConfigAssumption DEF EngineInv, OneFileAtATime, Acquire
  <1>3. ASSUME NEW w \in Workers, CallStep(w)
        PROVE  EngineInv' /\ OneFileAtATime
    <2>0. pc[w] \notin Outside /\ holder = w /\ req[w].file \in Files
      <3>1. pc[w] \notin Outside /\ req[w] \in Requests
        BY <1>3 DEF EngineInv, TypeInv, ReqInv, Outside, Ended, CallStep, Look, Write, Validate,
                    Reload, Check, Record, Restore, ReloadAgain
      <3> QED BY <3>1, RequestTypes DEF EngineInv
    <2>1. \A v \in Workers : v # w => pc[v] \in Outside
      BY <2>0 DEF EngineInv
    <2>2. OneFileAtATime /\ read' \in ValidTrees
      BY <1>3, <2>0, CallStepHolds DEF OneFileAtATime
    <2>3. CASE /\ \E s \in Stages \ Outside : pc' = [pc EXCEPT ![w] = s]
               /\ holder' = w /\ Holds(w)'
      BY <1>0, <1>t, <2>1, <2>2, <2>3, ConfigAssumption DEF EngineInv
    <2>4. CASE /\ \E s \in Ended : Return(w, s)
               /\ live' = Tree(disk') /\ live' \in ValidTrees
      <3>1. \A v \in Workers : pc'[v] \in Outside
        BY <1>t, <2>1, <2>4 DEF Return, Outside
      <3> QED BY <1>0, <2>2, <2>4, <3>1 DEF EngineInv
    <2> QED BY <1>3, <2>2, <2>3, <2>4, CallStepHolds
  <1>4. CASE (\E f \in Files : HumanEdit(f)) \/ OutsideReload \/ Crash
    BY <1>4 DEF Calm, HumanEdit, OutsideReload, Crash, Mishap
  <1>5. CASE UNCHANGED vars
    <2>1. \A v \in Workers : Holds(v)' <=> Holds(v)
      BY <1>5 DEF Holds, Target, Wanted, vars, machineVars, callVars
    <2> QED BY <1>0, <1>5, <2>1 DEF EngineInv, OneFileAtATime, vars, machineVars, callVars
  <1> QED BY <1>1, <1>2, <1>3, <1>4, <1>5 DEF Next

\* apply.rs, "never reload a broken configuration": the service is only told to load trees
\* its checker accepts.
THEOREM NeverBroken ==
  ASSUME Calm
  PROVE  Spec => []NeverReloadsBroken
  <1>1. Init => EngineInv
    BY InitEngine
  <1>2. EngineInv /\ [Next]_vars => EngineInv'
    BY NextEngine
  <1>3. EngineInv => NeverReloadsBroken
    BY DEF EngineInv, NeverReloadsBroken
  <1> QED BY <1>1, <1>2, <1>3, PTL DEF Spec

\* The engine implements ConfigStore: the service goes from one valid tree to another, one
\* file at a time.
THEOREM Refinement ==
  ASSUME Calm
  PROVE  Spec => ImplementsStore
  <1>1. Init => EngineInv
    BY InitEngine
  <1>2. EngineInv /\ [Next]_vars => EngineInv'
    BY NextEngine
  <1>3. Init => Store!Init
    BY ConfigAssumption DEF Init, Store!Init
  <1>4. EngineInv /\ [Next]_vars => [Store!Next]_live
    BY NextEngine DEF OneFileAtATime, Store!Next, Store!Change
  <1> QED BY <1>1, <1>2, <1>3, <1>4, PTL DEF Spec, ImplementsStore, Store!Spec

-----------------------------------------------------------------------------
(* What a call's answer means.                                             *)

\* Only a step of a call makes it return, and only its own.
LEMMA WhoReturns ==
  ASSUME Calm, TypeInv, [Next]_vars, NEW w \in Workers, pc[w] \notin Ended, pc'[w] \in Ended
  PROVE  CallStep(w)
  <1>1. pc \in [Workers -> Stages]
    BY DEF TypeInv, TypeOK
  <1>2. ASSUME NEW v \in Workers, NEW r \in Requests, Call(v, r)
        PROVE  FALSE
    BY <1>1, <1>2 DEF Call, Ended
  <1>3. ASSUME NEW v \in Workers, Acquire(v)
        PROVE  FALSE
    BY <1>1, <1>3 DEF Acquire, Ended
  <1>4. ASSUME NEW v \in Workers, CallStep(v)
        PROVE  v = w
    <2>1. \E s \in Stages : pc' = [pc EXCEPT ![v] = s]
      BY <1>4 DEF CallStep, Look, Write, Validate, Reload, AfterReload, Check, Record, Restore,
                  ReloadAgain, Goto, Return, Stages, Ended
    <2> QED BY <1>1, <2>1
  <1>5. CASE (\E f \in Files : HumanEdit(f)) \/ OutsideReload \/ Crash
    BY <1>5 DEF Calm, HumanEdit, OutsideReload, Crash, Mishap
  <1>6. CASE UNCHANGED vars
    BY <1>6 DEF vars, callVars
  <1> QED BY <1>2, <1>3, <1>4, <1>5, <1>6 DEF Next

\* A step that reports success leaves the service running on what was asked for.
LEMMA SuccessIsLive ==
  ASSUME Calm, EngineInv, [Next]_vars
  PROVE  SuccessStep
  <1> SUFFICES ASSUME NEW w \in Workers, Returns(w, "ok") \/ Returns(w, "unchanged")
               PROVE  live'[req[w].file] = Wanted(w).body
    BY DEF SuccessStep
  <1>1. CallStep(w)
    BY WhoReturns DEF EngineInv, Returns, Ended
  <1>2. req[w] \in Requests /\ Holds(w) /\ pc \in [Workers -> Stages]
    BY <1>1 DEF EngineInv, TypeInv, TypeOK, ReqInv, Outside, Ended, CallStep, Look, Write, Validate,
                Reload, Check, Record, Restore, ReloadAgain
  <1> DEFINE f == req[w].file
  <1>3. f \in Files /\ disk \in [Files -> Content] /\ Wanted(w) \in Content
        /\ before[w].disk \in [Files -> Content]
    BY <1>2, RequestTypes DEF EngineInv, TypeInv, TypeOK
  <1>4. \A d \in [Files -> Content] : Tree(d)[f] = d[f].body
    BY <1>3 DEF Tree
  <1>5. Target(w)[f] = Wanted(w) /\ Target(w) \in [Files -> Content]
    BY <1>3 DEF Target
  <1>6. CASE Look(w)
    <2>1. Unchanged(w) /\ UNCHANGED live /\ live = Tree(disk)
      BY <1>2, <1>6 DEF Look, Return, Returns, Holds, machineVars
    <2>2. disk[f].body = Wanted(w).body
      BY <2>1 DEF Unchanged, Found, Wanted
    <2> QED BY <1>3, <1>4, <2>1, <2>2
  <1>7. CASE Reload(w)
    BY <1>2, <1>3, <1>4, <1>5, <1>7 DEF Reload, AfterReload, Goto, Loads, Returns, Holds
  <1>8. CASE Record(w)
    BY <1>2, <1>3, <1>4, <1>5, <1>8 DEF Record, Holds
  <1>9. CASE Write(w) \/ Validate(w) \/ Check(w) \/ Restore(w) \/ ReloadAgain(w)
    BY <1>2, <1>9 DEF Write, Validate, Check, Restore, ReloadAgain, Goto, Return, Returns
  <1> QED BY <1>1, <1>6, <1>7, <1>8, <1>9 DEF CallStep

\* A step that reports a failure leaves every file and the service as they were found, if a
\* revision can always be recorded.
LEMMA FailureIsTraceless ==
  ASSUME Mishaps = {}, EngineInv, [Next]_vars
  PROVE  FailureStep
  <1>0. Calm
    BY DEF Calm
  <1> SUFFICES ASSUME NEW w \in Workers, Returns(w, "failed")
               PROVE  disk' = before[w].disk /\ live' = before[w].live
    BY DEF FailureStep
  <1>1. CallStep(w)
    BY <1>0, WhoReturns DEF EngineInv, Returns, Ended
  <1>2. req[w] \in Requests /\ Holds(w) /\ pc \in [Workers -> Stages]
    BY <1>1 DEF EngineInv, TypeInv, TypeOK, ReqInv, Outside, Ended, CallStep, Look, Write, Validate,
                Reload, Check, Record, Restore, ReloadAgain
  <1>3. req[w].file \in Files /\ before[w].disk \in [Files -> Content]
    BY <1>2, RequestTypes DEF EngineInv, TypeInv, TypeOK
  <1>4. CASE Look(w) \/ Write(w)
    BY <1>2, <1>4 DEF Look, Write, Goto, Returns, Holds, machineVars
  <1>5. CASE Restore(w)
    <2>1. /\ pc[w] = "undoing" /\ disk' = [disk EXCEPT ![req[w].file] = snap[w]] /\ UNCHANGED live
      BY <1>2, <1>5 DEF Restore, Goto, Returns, Mishap
    <2> QED BY <1>2, <1>3, <2>1 DEF Holds, Target
  <1>6. CASE ReloadAgain(w)
    BY <1>2, <1>6 DEF ReloadAgain, Loads, Mishap, Holds
  <1>7. CASE Validate(w) \/ Reload(w) \/ Check(w) \/ Record(w)
    BY <1>2, <1>7 DEF Validate, Reload, AfterReload, Check, Record, Mishap, Goto, Return, Returns
  <1> QED BY <1>1, <1>4, <1>5, <1>6, <1>7 DEF CallStep

\* A call that answers ok, or "unchanged", has its content running.
THEOREM SuccessLive ==
  ASSUME Calm
  PROVE  Spec => OkMeansLive
  <1>1. Init => EngineInv
    BY InitEngine
  <1>2. EngineInv /\ [Next]_vars => EngineInv'
    BY NextEngine
  <1>3. EngineInv /\ [Next]_vars => [SuccessStep]_vars
    BY SuccessIsLive
  <1> QED BY <1>1, <1>2, <1>3, PTL DEF Spec, OkMeansLive

\* tests/apply.rs, "a failed change leaves the server exactly as it was".
THEOREM FailureTraceless ==
  ASSUME Mishaps = {}
  PROVE  Spec => FailedLeavesNoTrace
  <1>0. Calm
    BY DEF Calm
  <1>1. Init => EngineInv
    BY InitEngine
  <1>2. EngineInv /\ [Next]_vars => EngineInv'
    BY <1>0, NextEngine
  <1>3. EngineInv /\ [Next]_vars => [FailureStep]_vars
    BY FailureIsTraceless
  <1> QED BY <1>1, <1>2, <1>3, PTL DEF Spec, FailedLeavesNoTrace

-----------------------------------------------------------------------------
(* What a human wrote.                                                     *)

\* A call that is about to write has asked about the file it looked at.
Asked ==
  \A w \in Workers :
    pc[w] = "writing" /\ snap[w].by \in {"edited", "foreign"} => Consent(w, snap[w].by)

\* A call moves itself alone: it takes another stage, and of what the calls remember only
\* its own part changes.
LEMMA OwnStep ==
  ASSUME TypeInv, NEW w \in Workers, CallStep(w), NEW v \in Workers, v # w
  PROVE  pc'[v] = pc[v] /\ req'[v] = req[v] /\ snap'[v] = snap[v]
  <1>1. /\ DOMAIN pc = Workers /\ DOMAIN req = Workers /\ DOMAIN snap = Workers
    BY DEF TypeInv, TypeOK
  <1>2. \/ \E s \in Stages : Goto(w, s) \/ Return(w, s)
        \/ /\ snap' = [snap EXCEPT ![w] = Found(w)]
           /\ pc' = [pc EXCEPT ![w] = "writing"]
           /\ UNCHANGED <<holder, req, before>>
    BY DEF CallStep, Look, Write, Validate, Reload, AfterReload, Check, Record, Restore,
           ReloadAgain, Stages, Ended
  <1> QED BY <1>1, <1>2 DEF Goto, Return

\* Look refuses what is not to be overwritten, and nothing else leads to a write.
LEMMA NextAsked == TypeInv /\ Asked /\ [Next]_vars => Asked'
  <1> SUFFICES ASSUME TypeInv, Asked, [Next]_vars, NEW v \in Workers,
                      pc'[v] = "writing", snap'[v].by \in {"edited", "foreign"}
               PROVE  Consent(v, snap[v].by)'
    BY DEF Asked
  <1>t. pc \in [Workers -> Stages] /\ DOMAIN req = Workers /\ DOMAIN snap = Workers
    BY DEF TypeInv, TypeOK
  <1>k. ASSUME pc[v] = "writing", req'[v] = req[v], snap'[v] = snap[v]
        PROVE  Consent(v, snap[v].by)'
    BY <1>k DEF Asked, Consent
  <1>1. ASSUME NEW w \in Workers, NEW r \in Requests, Call(w, r)
        PROVE  Consent(v, snap[v].by)'
    BY <1>1, <1>k, <1>t DEF Call
  <1>2. ASSUME NEW w \in Workers, Acquire(w)
        PROVE  Consent(v, snap[v].by)'
    BY <1>2, <1>k, <1>t DEF Acquire
  <1>3. ASSUME NEW w \in Workers, CallStep(w)
        PROVE  Consent(v, snap[v].by)'
    <2>1. CASE v # w
      BY <1>3, <1>k, <2>1, OwnStep
    <2>2. CASE v = w
      <3>1. Look(w)
        BY <1>3, <1>t, <2>2 DEF CallStep, Write, Validate, Reload, AfterReload, Check, Record,
                                Restore, ReloadAgain, Goto, Return
      <3>2. ~Refused(w) /\ snap'[w] = Found(w) /\ req' = req
        BY <1>t, <2>2, <3>1 DEF Look, Return
      <3>3. req[w].op \in {"apply", "rollback", "remove"}
        BY <3>1 DEF Look, TypeInv, ReqInv, Requests, Ended
      <3> QED BY <2>2, <3>2, <3>3 DEF Refused, Consent
    <2> QED BY <2>1, <2>2
  <1>4. CASE (\E f \in Files : HumanEdit(f)) \/ OutsideReload
    BY <1>4, <1>k DEF HumanEdit, OutsideReload, callVars
  <1>5. CASE Crash
    BY <1>5 DEF Crash
  <1>6. CASE UNCHANGED vars
    BY <1>6, <1>k DEF vars, callVars
  <1> QED BY <1>1, <1>2, <1>3, <1>4, <1>5, <1>6 DEF Next

\* A step of a call changes a human's file with consent, or because it is not the file the
\* call had looked at.
LEMMA OverwriteAsked ==
  ASSUME TypeInv, Asked, [Next]_vars
  PROVE  ConsentStep
  <1> SUFFICES ASSUME NEW w \in Workers, NEW f \in Files, pc'[w] # pc[w], disk'[f] # disk[f],
                      disk[f].by \in {"edited", "foreign"}
               PROVE  Consent(w, disk[f].by) \/ snap[w] # disk[f]
    BY DEF ConsentStep
  <1>t. pc \in [Workers -> Stages] /\ disk \in [Files -> Content]
    BY DEF TypeInv, TypeOK
  <1>1. PICK v \in Workers : Write(v) \/ Restore(v)
    BY DEF Next, CallStep, Call, Acquire, Look, Validate, Reload, Check, Record, ReloadAgain,
           HumanEdit, OutsideReload, Crash, vars, machineVars, callVars
  <1>2. v = w
    BY <1>1, OwnStep DEF CallStep
  <1>3. f = req[w].file
    BY <1>1, <1>2, <1>t DEF Write, Restore
  <1>4. CASE Write(w)
    BY <1>4 DEF Write, Asked
  <1>5. CASE Restore(w)
    BY <1>3, <1>5, <1>t DEF Restore
  <1> QED BY <1>1, <1>2, <1>4, <1>5

\* docs/config-safety.md, discarding an edit "is the only path that overwrites, and it is
\* never taken without being asked": through crashes, edits, lost restores and reloads from
\* outside, a call overwrites without consent only what it never saw.
THEOREM EditsKept == Spec => DriftNeedsConsent
  <1>1. Init => TypeInv /\ Asked
    BY InitTypes DEF Init, Asked
  <1>2. TypeInv /\ Asked /\ [Next]_vars => (TypeInv /\ Asked)'
    BY NextTypes, NextAsked
  <1>3. TypeInv /\ Asked /\ [Next]_vars => [ConsentStep]_vars
    BY OverwriteAsked
  <1> QED BY <1>1, <1>2, <1>3, PTL DEF Spec, DriftNeedsConsent
=============================================================================
