--------------------------- MODULE SchedulerProofs ---------------------------
(***************************************************************************)
(* Proofs about the scheduler, for any set of jobs, any choice of slow     *)
(* ones and any number of stops, crashes and faults.                       *)
(***************************************************************************)
EXTENDS Scheduler, TLAPS

\* Every variable keeps its type, whatever the jobs, faults and restarts.
THEOREM TypeCorrect == Spec => []TypeOK
<1>1. Init => TypeOK
  <2> SUFFICES ASSUME Init PROVE TypeOK
    OBVIOUS
  <2>1. Zero \in [Jobs -> Nat]
    BY DEF Zero
  <2>2. asked \in BOOLEAN
    BY DEF Init
  <2> QED
    BY <2>1, <2>2 DEF Init, TypeOK
<1>2. TypeOK /\ [Next]_vars => TypeOK'
  <2> SUFFICES ASSUME TypeOK, [Next]_vars
               PROVE  TypeOK'
    OBVIOUS
  <2>1. CASE Start
    BY <2>1 DEF TypeOK, Start, passVars, counters
  <2>2. CASE Tick
    BY <2>2 DEF TypeOK, Tick, DueJobs, passVars, counters
  <2>3. ASSUME NEW j \in Jobs, Register(j)
       PROVE  TypeOK'
    BY <2>3 DEF TypeOK, Register, RegisterJob, passVars, counters
  <2>4. ASSUME NEW j \in Jobs, Offer(j)
       PROVE  TypeOK'
    BY <2>4 DEF TypeOK, Offer, Claim, passVars, counters
  <2>5. CASE RegisterFails
    BY <2>5 DEF TypeOK, RegisterFails, Fault, passVars, counters
  <2>6. ASSUME NEW j \in Jobs, PassEnds(j)
       PROVE  TypeOK'
    BY <2>6 DEF TypeOK, PassEnds, passVars, counters
  <2>7. ASSUME NEW j \in Jobs, FinishJob(j)
       PROVE  TypeOK'
    BY <2>7 DEF TypeOK, FinishJob, Fault, passVars, counters
  <2>8. ASSUME NEW j \in Jobs, DropClaim(j)
       PROVE  TypeOK'
    BY <2>8 DEF TypeOK, DropClaim, passVars, counters
  <2>9. ASSUME NEW j \in Jobs, PassPanics(j)
       PROVE  TypeOK'
    BY <2>9 DEF TypeOK, PassPanics, Fault, passVars, counters
  <2>10. ASSUME NEW j \in Jobs, FallDue(j)
       PROVE  TypeOK'
    BY <2>10 DEF TypeOK, FallDue, passVars, counters
  <2>11. CASE AskStop
    BY <2>11 DEF TypeOK, AskStop, passVars, counters
  <2>12. CASE BeginDrain
    BY <2>12 DEF TypeOK, BeginDrain, passVars, counters
  <2>13. CASE Drain
    BY <2>13 DEF TypeOK, Drain, Exit, Zero, passVars, counters
  <2>14. CASE StopDead
    BY <2>14 DEF TypeOK, StopDead, Exit, Zero, passVars, counters
  <2>15. CASE Crash
    <3>1. Zero \in [Jobs -> Nat]
      BY DEF Zero
    <3>2. asked' \in BOOLEAN
      BY <2>15 DEF Crash, Exit
    <3> QED
      BY <2>15, <3>1, <3>2 DEF TypeOK, Crash, Exit
  <2>16. CASE UNCHANGED vars
    BY <2>16 DEF TypeOK, vars, passVars, counters
  <2> QED
    BY <2>1, <2>2, <2>3, <2>4, <2>5, <2>6, <2>7, <2>8, <2>9, <2>10, <2>11, <2>12, <2>13, <2>14, <2>15, <2>16 DEF Next, LoopStep, PassStep
<1> QED
  BY <1>1, <1>2, PTL DEF Spec

-----------------------------------------------------------------------------
\* InFlight at work: a job has at most one pass, and holds its claim exactly
\* while that pass lives, through panics, failed writes, stops and crashes.
THEOREM OnePass == Spec => []OnePassPerJob
<1>1. Init => OnePassPerJob
  <2> SUFFICES ASSUME Init, NEW j \in Jobs
               PROVE  Passes(j) = IF j \in claims THEN 1 ELSE 0
    BY DEF OnePassPerJob
  <2>1. running[j] = 0 /\ recording[j] = 0 /\ releasing[j] = 0 /\ claims = {}
    BY DEF Init, Zero
  <2> QED
    BY <2>1 DEF Passes
<1>2. TypeOK /\ OnePassPerJob /\ [Next]_vars => OnePassPerJob'
  <2> SUFFICES ASSUME TypeOK, OnePassPerJob, [Next]_vars
               PROVE  OnePassPerJob'
    OBVIOUS
  <2>1. CASE Start
    BY <2>1 DEF TypeOK, OnePassPerJob, Passes, Start, passVars, counters
  <2>2. CASE Tick
    BY <2>2 DEF TypeOK, OnePassPerJob, Passes, Tick, DueJobs, passVars, counters
  <2>3. ASSUME NEW j \in Jobs, Register(j)
       PROVE  OnePassPerJob'
    BY <2>3 DEF TypeOK, OnePassPerJob, Passes, Register, RegisterJob, passVars, counters
  <2>4. ASSUME NEW j \in Jobs, Offer(j)
       PROVE  OnePassPerJob'
    BY <2>4 DEF TypeOK, OnePassPerJob, Passes, Offer, Claim, passVars, counters
  <2>5. CASE RegisterFails
    BY <2>5 DEF TypeOK, OnePassPerJob, Passes, RegisterFails, Fault, passVars, counters
  <2>6. ASSUME NEW j \in Jobs, PassEnds(j)
       PROVE  OnePassPerJob'
    BY <2>6 DEF TypeOK, OnePassPerJob, Passes, PassEnds, passVars, counters
  <2>7. ASSUME NEW j \in Jobs, FinishJob(j)
       PROVE  OnePassPerJob'
    BY <2>7 DEF TypeOK, OnePassPerJob, Passes, FinishJob, Fault, passVars, counters
  <2>8. ASSUME NEW j \in Jobs, DropClaim(j)
       PROVE  OnePassPerJob'
    BY <2>8 DEF TypeOK, OnePassPerJob, Passes, DropClaim, passVars, counters
  <2>9. ASSUME NEW j \in Jobs, PassPanics(j)
       PROVE  OnePassPerJob'
    BY <2>9 DEF TypeOK, OnePassPerJob, Passes, PassPanics, Fault, passVars, counters
  <2>10. ASSUME NEW j \in Jobs, FallDue(j)
       PROVE  OnePassPerJob'
    BY <2>10 DEF TypeOK, OnePassPerJob, Passes, FallDue, passVars, counters
  <2>11. CASE AskStop
    BY <2>11 DEF TypeOK, OnePassPerJob, Passes, AskStop, passVars, counters
  <2>12. CASE BeginDrain
    BY <2>12 DEF TypeOK, OnePassPerJob, Passes, BeginDrain, passVars, counters
  <2>13. CASE Drain
    BY <2>13 DEF TypeOK, OnePassPerJob, Passes, Drain, Exit, Zero, passVars, counters
  <2>14. CASE StopDead
    BY <2>14 DEF TypeOK, OnePassPerJob, Passes, StopDead, Exit, Zero, passVars, counters
  <2>15. CASE Crash
    BY <2>15 DEF TypeOK, OnePassPerJob, Passes, Crash, Exit, Zero, passVars, counters
  <2>16. CASE UNCHANGED vars
    BY <2>16 DEF TypeOK, OnePassPerJob, Passes, vars, passVars, counters
  <2> QED
    BY <2>1, <2>2, <2>3, <2>4, <2>5, <2>6, <2>7, <2>8, <2>9, <2>10, <2>11, <2>12, <2>13, <2>14, <2>15, <2>16 DEF Next, LoopStep, PassStep
<1> QED
  BY <1>1, <1>2, TypeCorrect, PTL DEF Spec

-----------------------------------------------------------------------------
\* An overdue job stays due across restarts until one of its passes is recorded.
THEOREM OverdueIsKept == Spec => DueUntilRun
<1>1. TypeOK /\ [Next]_vars => [DueStep]_vars
  <2> SUFFICES ASSUME TypeOK, [Next]_vars, NEW k \in Jobs, row[k] = "due", row'[k] # "due"
               PROVE  recording[k] > 0
    BY DEF DueStep
  <2>1. CASE Start
    BY <2>1 DEF TypeOK, Start, passVars, counters
  <2>2. CASE Tick
    BY <2>2 DEF TypeOK, Tick, DueJobs, passVars, counters
  <2>3. ASSUME NEW j \in Jobs, Register(j)
       PROVE  recording[k] > 0
    BY <2>3 DEF TypeOK, Register, RegisterJob, passVars, counters
  <2>4. ASSUME NEW j \in Jobs, Offer(j)
       PROVE  recording[k] > 0
    BY <2>4 DEF TypeOK, Offer, Claim, passVars, counters
  <2>5. CASE RegisterFails
    BY <2>5 DEF TypeOK, RegisterFails, Fault, passVars, counters
  <2>6. ASSUME NEW j \in Jobs, PassEnds(j)
       PROVE  recording[k] > 0
    BY <2>6 DEF TypeOK, PassEnds, passVars, counters
  <2>7. ASSUME NEW j \in Jobs, FinishJob(j)
       PROVE  recording[k] > 0
    BY <2>7 DEF TypeOK, FinishJob, Fault, passVars, counters
  <2>8. ASSUME NEW j \in Jobs, DropClaim(j)
       PROVE  recording[k] > 0
    BY <2>8 DEF TypeOK, DropClaim, passVars, counters
  <2>9. ASSUME NEW j \in Jobs, PassPanics(j)
       PROVE  recording[k] > 0
    BY <2>9 DEF TypeOK, PassPanics, Fault, passVars, counters
  <2>10. ASSUME NEW j \in Jobs, FallDue(j)
       PROVE  recording[k] > 0
    BY <2>10 DEF TypeOK, FallDue, passVars, counters
  <2>11. CASE AskStop
    BY <2>11 DEF TypeOK, AskStop, passVars, counters
  <2>12. CASE BeginDrain
    BY <2>12 DEF TypeOK, BeginDrain, passVars, counters
  <2>13. CASE Drain
    BY <2>13 DEF TypeOK, Drain, Exit, Zero, passVars, counters
  <2>14. CASE StopDead
    BY <2>14 DEF TypeOK, StopDead, Exit, Zero, passVars, counters
  <2>15. CASE Crash
    BY <2>15 DEF TypeOK, Crash, Exit, Zero, passVars, counters
  <2>16. CASE UNCHANGED vars
    BY <2>16 DEF TypeOK, vars, passVars, counters
  <2> QED
    BY <2>1, <2>2, <2>3, <2>4, <2>5, <2>6, <2>7, <2>8, <2>9, <2>10, <2>11, <2>12, <2>13, <2>14, <2>15, <2>16 DEF Next, LoopStep, PassStep
<1> QED
  BY <1>1, TypeCorrect, PTL DEF Spec, DueUntilRun

-----------------------------------------------------------------------------
\* A shutdown that is not a crash cuts short only passes that outlast the drain:
\* what drain reads, the claims, is what runs.
THEOREM OnlySlowCut == Spec => OnlySlowPassesAreCut
<1>1. TypeOK /\ OnePassPerJob /\ [Next]_vars
        => [CutStep]_vars
  <2> SUFFICES ASSUME TypeOK, OnePassPerJob, [Next]_vars,
                      phase = "draining", phase' = "down", UNCHANGED crashes,
                      NEW k \in Jobs \ Slow
               PROVE  Passes(k) = 0
    BY DEF CutStep
  <2>1. CASE Start
    BY <2>1 DEF TypeOK, Start, passVars, counters
  <2>2. CASE Tick
    BY <2>2 DEF TypeOK, Tick, DueJobs, passVars, counters
  <2>3. ASSUME NEW j \in Jobs, Register(j)
       PROVE  Passes(k) = 0
    BY <2>3 DEF TypeOK, Register, RegisterJob, passVars, counters
  <2>4. ASSUME NEW j \in Jobs, Offer(j)
       PROVE  Passes(k) = 0
    BY <2>4 DEF TypeOK, Offer, Claim, passVars, counters
  <2>5. CASE RegisterFails
    BY <2>5 DEF TypeOK, RegisterFails, Fault, passVars, counters
  <2>6. ASSUME NEW j \in Jobs, PassEnds(j)
       PROVE  Passes(k) = 0
    BY <2>6 DEF TypeOK, PassEnds, passVars, counters
  <2>7. ASSUME NEW j \in Jobs, FinishJob(j)
       PROVE  Passes(k) = 0
    BY <2>7 DEF TypeOK, FinishJob, Fault, passVars, counters
  <2>8. ASSUME NEW j \in Jobs, DropClaim(j)
       PROVE  Passes(k) = 0
    BY <2>8 DEF TypeOK, DropClaim, passVars, counters
  <2>9. ASSUME NEW j \in Jobs, PassPanics(j)
       PROVE  Passes(k) = 0
    BY <2>9 DEF TypeOK, PassPanics, Fault, passVars, counters
  <2>10. ASSUME NEW j \in Jobs, FallDue(j)
       PROVE  Passes(k) = 0
    BY <2>10 DEF TypeOK, FallDue, passVars, counters
  <2>11. CASE AskStop
    BY <2>11 DEF TypeOK, AskStop, passVars, counters
  <2>12. CASE BeginDrain
    BY <2>12 DEF TypeOK, BeginDrain, passVars, counters
  <2>13. CASE Drain
    BY <2>13 DEF Drain, OnePassPerJob
  <2>14. CASE StopDead
    BY <2>14 DEF TypeOK, StopDead, Exit, Zero, passVars, counters
  <2>15. CASE Crash
    BY <2>15 DEF TypeOK, Crash, Exit, Zero, passVars, counters
  <2>16. CASE UNCHANGED vars
    BY <2>16 DEF TypeOK, vars, passVars, counters
  <2> QED
    BY <2>1, <2>2, <2>3, <2>4, <2>5, <2>6, <2>7, <2>8, <2>9, <2>10, <2>11, <2>12, <2>13, <2>14, <2>15, <2>16 DEF Next, LoopStep, PassStep
<1> QED
  BY <1>1, TypeCorrect, OnePass, PTL DEF Spec, OnlySlowPassesAreCut

-----------------------------------------------------------------------------
\* j was read as due and has not been offered yet.
Stale(j) == phase = "ticking" /\ j \in todo

\* Why a job has at most one extra pass: while it is due, the one pass started for
\* it is still unrecorded, so the claim stands; once two have been started, no tick
\* holds it any more, and no later tick reads it before it falls due again.
ExtraPassInv ==
  \A j \in Jobs :
    /\ starts[j] <= 2
    /\ row[j] = "due" /\ starts[j] > 0 => starts[j] = 1 /\ running[j] + recording[j] = 1
    /\ row[j] = "later" /\ starts[j] = 2 => ~Stale(j)
    /\ row[j] = "absent" => starts[j] = 0 /\ ~Stale(j)

\* A pass is started without being due at most once per due time, however the
\* passes, the ticks and the restarts interleave.
THEOREM OneExtraPass == Spec => []AtMostOneExtraPass
<1>1. Init => ExtraPassInv
  <2> SUFFICES ASSUME Init, NEW j \in Jobs
               PROVE  starts[j] <= 2 /\ row[j] = "absent" /\ starts[j] = 0 /\ ~Stale(j)
    BY DEF ExtraPassInv
  <2>1. starts[j] = 0
    BY DEF Init, Zero
  <2> QED
    BY <2>1 DEF Init, Stale
<1>2. TypeOK /\ OnePassPerJob /\ ExtraPassInv /\ [Next]_vars => ExtraPassInv'
  <2> SUFFICES ASSUME TypeOK, OnePassPerJob, ExtraPassInv, [Next]_vars
               PROVE  ExtraPassInv'
    OBVIOUS
  <2>1. CASE Start
    BY <2>1 DEF TypeOK, OnePassPerJob, Passes, ExtraPassInv, Stale, Start, passVars, counters
  <2>2. CASE Tick
    BY <2>2 DEF TypeOK, OnePassPerJob, Passes, ExtraPassInv, Stale, Tick, DueJobs, passVars, counters
  <2>3. ASSUME NEW j \in Jobs, Register(j)
       PROVE  ExtraPassInv'
    BY <2>3 DEF TypeOK, OnePassPerJob, Passes, ExtraPassInv, Stale, Register, RegisterJob, passVars, counters
  <2>4. ASSUME NEW j \in Jobs, Offer(j)
       PROVE  ExtraPassInv'
    <3> SUFFICES ASSUME NEW k \in Jobs
                 PROVE  /\ starts'[k] <= 2
                        /\ row'[k] = "due" /\ starts'[k] > 0
                             => starts'[k] = 1 /\ running'[k] + recording'[k] = 1
                        /\ row'[k] = "later" /\ starts'[k] = 2 => ~Stale(k)'
                        /\ row'[k] = "absent" => starts'[k] = 0 /\ ~Stale(k)'
      BY DEF ExtraPassInv
    <3>1. row' = row /\ recording' = recording /\ Stale(j) /\ ~Stale(j)' /\ (Stale(k)' => Stale(k))
      BY <2>4 DEF Offer, Stale
    <3>2. CASE k = j /\ Claim(j)
      <4>1. starts'[k] = starts[k] + 1 /\ running'[k] = running[k] + 1
        BY <2>4, <3>2 DEF Offer, TypeOK
      <4>2. running[k] = 0 /\ recording[k] = 0
        BY <3>2 DEF Claim, OnePassPerJob, Passes, TypeOK
      <4> QED
        BY <3>1, <3>2, <4>1, <4>2 DEF ExtraPassInv, TypeOK
    <3>3. CASE k # j \/ ~Claim(j)
      <4>1. starts'[k] = starts[k] /\ running'[k] = running[k]
        BY <2>4, <3>3 DEF Offer, TypeOK
      <4> QED
        BY <3>1, <4>1 DEF ExtraPassInv
    <3> QED
      BY <3>2, <3>3
  <2>5. CASE RegisterFails
    BY <2>5 DEF TypeOK, OnePassPerJob, Passes, ExtraPassInv, Stale, RegisterFails, Fault, passVars, counters
  <2>6. ASSUME NEW j \in Jobs, PassEnds(j)
       PROVE  ExtraPassInv'
    BY <2>6 DEF TypeOK, OnePassPerJob, Passes, ExtraPassInv, Stale, PassEnds, passVars, counters
  <2>7. ASSUME NEW j \in Jobs, FinishJob(j)
       PROVE  ExtraPassInv'
    BY <2>7 DEF TypeOK, OnePassPerJob, Passes, ExtraPassInv, Stale, FinishJob, Fault, passVars, counters
  <2>8. ASSUME NEW j \in Jobs, DropClaim(j)
       PROVE  ExtraPassInv'
    BY <2>8 DEF TypeOK, OnePassPerJob, Passes, ExtraPassInv, Stale, DropClaim, passVars, counters
  <2>9. ASSUME NEW j \in Jobs, PassPanics(j)
       PROVE  ExtraPassInv'
    BY <2>9 DEF TypeOK, OnePassPerJob, Passes, ExtraPassInv, Stale, PassPanics, Fault, passVars, counters
  <2>10. ASSUME NEW j \in Jobs, FallDue(j)
       PROVE  ExtraPassInv'
    BY <2>10 DEF TypeOK, OnePassPerJob, Passes, ExtraPassInv, Stale, FallDue, passVars, counters
  <2>11. CASE AskStop
    BY <2>11 DEF TypeOK, OnePassPerJob, Passes, ExtraPassInv, Stale, AskStop, passVars, counters
  <2>12. CASE BeginDrain
    BY <2>12 DEF TypeOK, OnePassPerJob, Passes, ExtraPassInv, Stale, BeginDrain, passVars, counters
  <2>13. CASE Drain
    BY <2>13 DEF TypeOK, OnePassPerJob, Passes, ExtraPassInv, Stale, Drain, Exit, Zero, passVars, counters
  <2>14. CASE StopDead
    BY <2>14 DEF TypeOK, OnePassPerJob, Passes, ExtraPassInv, Stale, StopDead, Exit, Zero, passVars, counters
  <2>15. CASE Crash
    BY <2>15 DEF TypeOK, OnePassPerJob, Passes, ExtraPassInv, Stale, Crash, Exit, Zero, passVars, counters
  <2>16. CASE UNCHANGED vars
    BY <2>16 DEF TypeOK, OnePassPerJob, Passes, ExtraPassInv, Stale, vars, passVars, counters
  <2> QED
    BY <2>1, <2>2, <2>3, <2>4, <2>5, <2>6, <2>7, <2>8, <2>9, <2>10, <2>11, <2>12, <2>13, <2>14, <2>15, <2>16 DEF Next, LoopStep, PassStep
<1>3. ExtraPassInv => AtMostOneExtraPass
  BY DEF ExtraPassInv, AtMostOneExtraPass
<1> QED
  BY <1>1, <1>2, <1>3, TypeCorrect, OnePass, PTL DEF Spec
=============================================================================
