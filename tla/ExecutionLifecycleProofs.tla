---------------------- MODULE ExecutionLifecycleProofs ----------------------
(***************************************************************************)
(* Proofs about ExecutionLifecycle for any set of requests and any number  *)
(* of failing writes. That a verdict in the row is true and final rests on *)
(* what the runner knows of the process at each of its steps: Phase.       *)
(***************************************************************************)
EXTENDS ExecutionLifecycle, TLAPS

Phase ==
  /\ run \in {"new", "budget", "block", "spawn"} => proc = "none"
  /\ run = "check" => proc \in Exited
  /\ run \in {"write", "rewrite", "cleanup", "done"} => ~Alive \/ unwatched
  /\ run \in {"write", "rewrite"} /\ verdict = "success" => proc = "ok"
  /\ row \in Final => run \in {"cleanup", "done", "dead"}
  /\ unwatched => /\ run \in {"rewrite", "cleanup", "done", "dead"}
                  /\ verdict # "success" /\ row # "success"
  /\ registered => run \in {"threads", "wait", "kill", "check", "write", "rewrite", "cleanup"}

Inv == Phase /\ VerdictIsTrue

(* Goto and TimerTo keep the types of req and timer.                       *)
LEMMA StepTypes ==
  ASSUME TypeOK, NEW r \in Requests
  PROVE  /\ \A s \in RequestSteps : Goto(r, s) => req' \in [Requests -> RequestSteps]
         /\ \A s \in TimerSteps : TimerTo(r, s) => timer' \in [Requests -> TimerSteps]
         /\ \A t : Cancel(t) => timer' \in [Requests -> TimerSteps]
<1>1. "off" \in TimerSteps
  BY DEF TimerSteps
<1> QED BY <1>1, Zenon DEF TypeOK, Goto, TimerTo, Cancel

(* Every variable has its type at first.                                   *)
LEMMA InitTypeOK == Init => TypeOK
<1> SUFFICES ASSUME Init PROVE TypeOK
  OBVIOUS
<1>1. timer \in [Requests -> TimerSteps] /\ req \in [Requests -> RequestSteps]
  BY DEF Init, TimerSteps, RequestSteps
<1>2. faults \in 0..MaxFaults
  BY LifecycleAssumption DEF Init
<1> QED BY <1>1, <1>2 DEF Init, TypeOK, Statuses, Final, Exited, RunnerSteps, ServerSteps

(* The runner keeps the types.                                             *)
LEMMA RunnerTypeOK == TypeOK /\ RunnerStep => TypeOK'
<1> SUFFICES ASSUME TypeOK, RunnerStep PROVE TypeOK'
  OBVIOUS
<1> USE LifecycleAssumption DEF TypeOK, tracking, timers, requests, execution, RunnerSteps
<1>1. CASE StartExecution
  BY <1>1 DEF StartExecution, Statuses
<1>2. CASE BudgetCheck
  BY <1>2 DEF BudgetCheck
<1>3. CASE BudgetBlocks
  BY <1>3 DEF BudgetBlocks, Statuses, Final
<1>4. CASE Spawn
  BY <1>4 DEF Spawn, Final
<1>5. CASE Register
  BY <1>5 DEF Register
<1>6. CASE StartThreads
  BY <1>6 DEF StartThreads, Final
<1>7. CASE WaitReturns
  BY <1>7 DEF WaitReturns
<1>8. CASE WaitTimesOut
  BY <1>8 DEF WaitTimesOut
<1>9. CASE KillOnTimeout
  BY <1>9 DEF KillOnTimeout, Kill, Final, Exited
<1>10. CASE CheckExit
  BY <1>10 DEF CheckExit, Final
<1>11. CASE Finish
  <2>1. row' \in Statuses /\ verdict' \in Final \cup {"none"}
    BY <1>11 DEF Finish, Statuses, Final
  <2>2. faults' \in 0..MaxFaults /\ run' \in RunnerSteps
    BY <1>11 DEF Finish
  <2> QED BY <1>11, <2>1, <2>2 DEF Finish
<1>12. CASE Cleanup
  <2>1. timer' \in [Requests -> TimerSteps]
    <3>1. "off" \in TimerSteps
      BY DEF TimerSteps
    <3> QED BY <1>12, <3>1 DEF Cleanup, Cancel
  <2> QED BY <1>12, <2>1 DEF Cleanup
<1> QED BY <1>1, <1>2, <1>3, <1>4, <1>5, <1>6, <1>7, <1>8, <1>9, <1>10, <1>11, <1>12
       DEF RunnerStep

(* A request keeps the types.                                              *)
LEMMA RequestTypeOK == ASSUME TypeOK, NEW r \in Requests,
                              \/ AskPause(r) \/ AskResume(r) \/ AskCancel(r)
                              \/ AskBulkCancel(r) \/ TimeLimit(r) \/ Request(r)
                       PROVE  TypeOK'
<1>1. req' \in [Requests -> RequestSteps]
  <2>1. \E s \in RequestSteps : Goto(r, s)
    BY DEF AskPause, AskResume, AskCancel, AskBulkCancel, TimeLimit, Request, PauseGet,
           PauseCas, PauseStop, PauseArm, ResumeGet, ResumeCas, ResumeContinue,
           ResumeDisarm, CancelMark, CancelTerm, AfterResume, RequestSteps
  <2> QED BY <2>1, StepTypes
<1>2. timer' \in [Requests -> TimerSteps] /\ stored' \in Requests \cup {NoTimer}
  <2>1. CASE PauseArm(r)
    BY <2>1, StepTypes DEF PauseArm, TimerSteps
  <2>2. CASE ResumeDisarm(r)
    BY <2>2, StepTypes DEF ResumeDisarm
  <2>3. CASE ~PauseArm(r) /\ ~ResumeDisarm(r)
    <3>1. timer' = timer /\ stored' = stored
      BY <2>3, Zenon
         DEF AskPause, AskResume, AskCancel, AskBulkCancel, TimeLimit, Request, PauseGet,
             PauseCas, PauseStop, ResumeGet, ResumeCas, ResumeContinue, CancelMark,
             CancelTerm, timers, tracking
    <3> QED BY <3>1 DEF TypeOK
  <2> QED BY <2>1, <2>2, <2>3
<1>3. row' \in Statuses /\ proc' \in Exited \cup {"none", "running", "stopped"}
  BY DEF TypeOK, AskPause, AskResume, AskCancel, AskBulkCancel, TimeLimit, Request, PauseGet,
         PauseCas, PauseStop, PauseArm, ResumeGet, ResumeCas, ResumeContinue, ResumeDisarm,
         CancelMark, CancelTerm, execution, Stop, Continue, Statuses
<1>4. registered' \in BOOLEAN /\ cancelled' \in BOOLEAN /\ killer' \in BOOLEAN
  BY Zenon DEF TypeOK, AskPause, AskResume, AskCancel, AskBulkCancel, TimeLimit, Request,
         PauseGet, PauseCas, PauseStop, PauseArm, ResumeGet, ResumeCas, ResumeContinue,
         ResumeDisarm, CancelMark, CancelTerm, tracking, timers
<1>5. bulk' \in SUBSET Requests
  BY DEF TypeOK, AskPause, AskResume, AskCancel, AskBulkCancel, TimeLimit, Request, PauseGet,
         PauseCas, PauseStop, PauseArm, ResumeGet, ResumeCas, ResumeContinue, ResumeDisarm,
         CancelMark, CancelTerm
<1>6. UNCHANGED <<runner, server, faults>>
  BY DEF AskPause, AskResume, AskCancel, AskBulkCancel, TimeLimit, Request, PauseGet,
         PauseCas, PauseStop, PauseArm, ResumeGet, ResumeCas, ResumeContinue, ResumeDisarm,
         CancelMark, CancelTerm
<1> QED BY <1>1, <1>2, <1>3, <1>4, <1>5, <1>6 DEF TypeOK, runner

(* A pause's timer keeps the types.                                        *)
LEMMA AutoCancelTypeOK == ASSUME TypeOK, NEW t \in Requests, AutoCancel(t) PROVE TypeOK'
<1>1. timer' \in [Requests -> TimerSteps]
  <2>1. \E s \in TimerSteps : TimerTo(t, s)
    BY DEF AutoCancel, TimerFires, TimerGet, TimerCas, TimerContinue, TimerMark, TimerTerm,
           TimerClear, TimerSteps
  <2> QED BY <2>1, StepTypes
<1>2. row' \in Statuses /\ proc' \in Exited \cup {"none", "running", "stopped"}
  BY DEF TypeOK, AutoCancel, TimerFires, TimerGet, TimerCas, TimerContinue, TimerMark,
         TimerTerm, TimerClear, execution, Continue, Statuses
<1>3. registered' \in BOOLEAN /\ cancelled' \in BOOLEAN /\ killer' \in BOOLEAN
  BY Zenon DEF TypeOK, AutoCancel, TimerFires, TimerGet, TimerCas, TimerContinue, TimerMark,
         TimerTerm, TimerClear, tracking
<1>4. faults' \in 0..MaxFaults /\ stored' \in Requests \cup {NoTimer}
  BY LifecycleAssumption
     DEF TypeOK, AutoCancel, TimerFires, TimerGet, TimerCas, TimerContinue, TimerMark,
         TimerTerm, TimerClear, tracking
<1>5. UNCHANGED <<runner, requests, server>>
  BY DEF AutoCancel, TimerFires, TimerGet, TimerCas, TimerContinue, TimerMark, TimerTerm,
         TimerClear
<1> QED BY <1>1, <1>2, <1>3, <1>4, <1>5 DEF TypeOK, runner, requests

(* The end of the server keeps the types.                                  *)
LEMMA DieTypeOK == TypeOK /\ Die => TypeOK'
<1> SUFFICES ASSUME TypeOK, Die PROVE TypeOK'
  OBVIOUS
<1>1. timer' \in [Requests -> TimerSteps]
  BY DEF Die, TimerSteps
<1>2. req' \in [Requests -> RequestSteps]
  BY DEF Die, RequestSteps
<1> QED BY <1>1, <1>2 DEF TypeOK, Die, execution, RunnerSteps, ServerSteps

(* Every step keeps the types.                                             *)
LEMMA StepTypeOK == TypeOK /\ [Next]_vars => TypeOK'
<1> SUFFICES ASSUME TypeOK, [Next]_vars PROVE TypeOK'
  OBVIOUS
<1> USE DEF execution, tracking, timers, runner, requests
<1>1. CASE RunnerStep
  BY <1>1, RunnerTypeOK
<1>2. CASE ProcessExits \/ ForceKill \/ BudgetKills
  BY <1>2 DEF ProcessExits, ForceKill, BudgetKills, Kill, TypeOK, Exited
<1>3. ASSUME NEW r \in Requests, \/ AskPause(r) \/ AskResume(r) \/ AskCancel(r)
                                 \/ AskBulkCancel(r) \/ TimeLimit(r) \/ Request(r)
      PROVE  TypeOK'
  BY <1>3, RequestTypeOK
<1>4. ASSUME NEW t \in Requests, AutoCancel(t) PROVE TypeOK'
  BY <1>4, AutoCancelTypeOK
<1>5. CASE ShutdownBegins \/ Drain \/ AtExit
  BY <1>5 DEF ShutdownBegins, Drain, AtExit, Kill, TypeOK, ServerSteps, Exited
<1>6. CASE Interrupt \/ Restart
  BY <1>6 DEF Interrupt, Restart, TypeOK, ServerSteps, Statuses
<1>7. CASE Exit \/ Crash
  BY <1>7, DieTypeOK DEF Exit, Crash
<1>8. CASE UNCHANGED vars
  BY <1>8 DEF vars, TypeOK
<1> QED BY <1>1, <1>2, <1>3, <1>4, <1>5, <1>6, <1>7, <1>8 DEF Next

(* Type correctness.                                                       *)
THEOREM LifecycleTypeCorrect == Spec => []TypeOK
<1> QED BY InitTypeOK, StepTypeOK, PTL DEF Spec

-----------------------------------------------------------------------------
(* Without a row and a process there is nothing to be wrong.               *)
LEMMA InitInv == Init => Inv
BY DEF Init, Inv, Phase, VerdictIsTrue, Final, Alive

(* The runner knows the process when it writes the verdict.                *)
LEMMA RunnerInv == TypeOK /\ Inv /\ RunnerStep => Inv'
<1> SUFFICES ASSUME TypeOK, Inv, RunnerStep PROVE Inv'
  OBVIOUS
<1> USE DEF Inv, Phase, VerdictIsTrue, Final, Alive, Exited, execution, tracking
<1>1. CASE StartExecution
  BY <1>1 DEF StartExecution
<1>2. CASE BudgetCheck
  BY <1>2 DEF BudgetCheck
<1>3. CASE BudgetBlocks
  BY <1>3 DEF BudgetBlocks
<1>4. CASE Spawn
  BY <1>4 DEF Spawn
<1>5. CASE Register
  BY <1>5 DEF Register
<1>6. CASE StartThreads
  BY <1>6 DEF StartThreads
<1>7. CASE WaitReturns
  BY <1>7 DEF WaitReturns
<1>8. CASE WaitTimesOut
  BY <1>8 DEF WaitTimesOut
<1>9. CASE KillOnTimeout
  BY <1>9 DEF KillOnTimeout, Kill
<1>10. CASE CheckExit
  BY <1>10 DEF CheckExit
<1>11. CASE Finish
  <2>1. CASE row' = verdict /\ run' = "cleanup"
    BY <1>11, <2>1 DEF Finish
  <2>2. CASE row' = row
    BY <1>11, <2>2 DEF Finish
  <2> QED BY <1>11, <2>1, <2>2 DEF Finish
<1>12. CASE Cleanup
  BY <1>12 DEF Cleanup
<1> QED BY <1>1, <1>2, <1>3, <1>4, <1>5, <1>6, <1>7, <1>8, <1>9, <1>10, <1>11, <1>12
       DEF RunnerStep

(* What the others can do to the row and to the process: they move between *)
(* statuses that are no verdict, and they cannot bring a process to life.  *)
Others ==
  /\ row' = row \/ (row \notin Final \cup {"none"} /\ row' \notin Final \cup {"none"})
  /\ proc' = proc \/ (Alive /\ proc' \in Exited \cup {"running", "stopped"})
  /\ UNCHANGED unwatched /\ (faults' = 0 => faults = 0)
  /\ \/ UNCHANGED <<run, verdict, registered>> /\ (cancelled => cancelled')
     \/ run' = "dead" /\ registered' = FALSE /\ verdict' = "none" /\ UNCHANGED <<row, proc>>

(* Every step is the runner's or one of the others'.                       *)
LEMMA OthersStep == TypeOK /\ [Next]_vars => RunnerStep \/ Others
<1> SUFFICES ASSUME TypeOK, [Next]_vars PROVE RunnerStep \/ Others
  OBVIOUS
<1> USE DEF Others, execution, runner, tracking, Alive, Exited, Final, Matches
<1>1. CASE ProcessExits \/ ForceKill \/ BudgetKills
  BY <1>1 DEF ProcessExits, ForceKill, BudgetKills, Kill
<1>2. ASSUME NEW r \in Requests, \/ AskPause(r) \/ AskResume(r) \/ AskCancel(r)
                                 \/ AskBulkCancel(r) \/ TimeLimit(r)
      PROVE  Others
  BY <1>2 DEF AskPause, AskResume, AskCancel, AskBulkCancel, TimeLimit
<1>3. ASSUME NEW r \in Requests, Request(r) PROVE Others
  BY <1>3 DEF Request, PauseGet, PauseCas, PauseStop, PauseArm, ResumeGet, ResumeCas,
         ResumeContinue, ResumeDisarm, CancelMark, CancelTerm, Stop, Continue
<1>4. ASSUME NEW t \in Requests, AutoCancel(t) PROVE Others
  BY <1>4 DEF AutoCancel, TimerFires, TimerGet, TimerCas, TimerContinue, TimerMark,
         TimerTerm, TimerClear, Continue, TypeOK
<1>5. CASE ShutdownBegins \/ Drain \/ AtExit \/ Interrupt \/ Restart
  BY <1>5 DEF ShutdownBegins, Drain, AtExit, Interrupt, Restart, Kill
<1>6. CASE Exit \/ Crash
  BY <1>6 DEF Exit, Crash, Die
<1>7. CASE UNCHANGED vars
  BY <1>7 DEF vars
<1> QED BY <1>1, <1>2, <1>3, <1>4, <1>5, <1>6, <1>7 DEF Next

(* Every step keeps the invariant.                                         *)
LEMMA StepInv == TypeOK /\ Inv /\ [Next]_vars => Inv'
<1> SUFFICES ASSUME TypeOK, Inv, Others PROVE Inv'
  BY OthersStep, RunnerInv
<1> QED BY DEF Others, Inv, Phase, VerdictIsTrue, Alive, Exited, Final

(* A verdict in the row is the truth about the process.                    *)
THEOREM VerdictTrueHolds == Spec => []VerdictIsTrue
<1>1. Init => TypeOK /\ Inv
  BY InitTypeOK, InitInv
<1>2. (TypeOK /\ Inv) /\ [Next]_vars => (TypeOK /\ Inv)'
  BY StepTypeOK, StepInv
<1>3. TypeOK /\ Inv => VerdictIsTrue
  BY DEF Inv
<1> QED BY <1>1, <1>2, <1>3, PTL DEF Spec

(* Nothing takes back a verdict.                                           *)
THEOREM VerdictStaysHolds == Spec => VerdictStays
<1>1. Init => TypeOK /\ Inv
  BY InitTypeOK, InitInv
<1>2. (TypeOK /\ Inv) /\ [Next]_vars => (TypeOK /\ Inv)'
  BY StepTypeOK, StepInv
<1>3. (TypeOK /\ Inv) /\ [Next]_vars => [(row \in Final) => (row' = row)]_vars
  <2> SUFFICES ASSUME TypeOK, Inv, [Next]_vars, row \in Final PROVE row' = row
    OBVIOUS
  <2>1. CASE RunnerStep
    <3>1. run \in {"cleanup", "done", "dead"}
      BY DEF Inv, Phase
    <3> QED BY <2>1, <3>1
            DEF RunnerStep, StartExecution, BudgetCheck, BudgetBlocks, Spawn, Register,
                StartThreads, WaitReturns, WaitTimesOut, KillOnTimeout, CheckExit, Finish,
                Cleanup, execution
  <2>2. CASE Others
    BY <2>2 DEF Others
  <2> QED BY <2>1, <2>2, OthersStep
<1> QED BY <1>1, <1>2, <1>3, PTL DEF Spec, VerdictStays

(* From the mark on, the execution is doomed not to be a success.          *)
Doomed ==
  /\ row # "success"
  /\ \/ cancelled /\ run \in {"threads", "wait", "kill", "check"}
     \/ run \in {"write", "rewrite"} /\ verdict # "success"
     \/ run \in {"cleanup", "done", "dead"}

(* Once doomed, never a success.                                           *)
LEMMA DoomedStays == TypeOK /\ Doomed /\ [Next]_vars => Doomed'
<1> SUFFICES ASSUME TypeOK, Doomed, [Next]_vars PROVE Doomed'
  OBVIOUS
<1>1. CASE RunnerStep
  BY <1>1 DEF Doomed, RunnerStep, StartExecution, BudgetCheck, BudgetBlocks, Spawn, Register,
         StartThreads, WaitReturns, WaitTimesOut, KillOnTimeout, CheckExit, Finish, Cleanup,
         execution, tracking
<1>2. CASE Others
  BY <1>2 DEF Others, Doomed, Final
<1> QED BY <1>1, <1>2, OthersStep

(* A cancel that marked a live, registered execution excludes "success"    *)
(* for good.                                                               *)
THEOREM CancelSticksHolds == Spec => CancelSticks
<1>1. Init => TypeOK /\ Inv
  BY InitTypeOK, InitInv
<1>2. (TypeOK /\ Inv) /\ [Next]_vars => (TypeOK /\ Inv)'
  BY StepTypeOK, StepInv
<1>3. (TypeOK /\ Inv) /\ (cancelled /\ registered /\ Alive) => Doomed
  BY DEF Inv, Phase, VerdictIsTrue, Doomed, Final, Alive, Exited
<1>4. TypeOK /\ Doomed /\ [Next]_vars => Doomed'
  BY DoomedStays
<1>5. Doomed => row # "success"
  BY DEF Doomed
<1> QED BY <1>1, <1>2, <1>3, <1>4, <1>5, PTL DEF Spec, CancelSticks

-----------------------------------------------------------------------------
(* What the runner's position says of the row, of the process and of what  *)
(* the runner will write.                                                  *)
Stage ==
  /\ run = "new" => row = "none"
  /\ run \notin {"new", "dead"} => row # "none"
  /\ run \in {"register", "threads"} => proc # "none"
  /\ run \in {"write", "rewrite"} => verdict \in Final

(* The execution is opened with its row, and every verdict is a final      *)
(* status.                                                                 *)
LEMMA StageStep == TypeOK /\ Stage /\ [Next]_vars => Stage'
<1> SUFFICES ASSUME TypeOK, Stage, [Next]_vars PROVE Stage'
  OBVIOUS
<1>1. CASE RunnerStep
  <2> USE <1>1 DEF Stage, Final, execution
  <2>1. CASE StartExecution \/ BudgetCheck \/ BudgetBlocks
    BY <2>1 DEF StartExecution, BudgetCheck, BudgetBlocks
  <2>2. CASE Spawn
    BY <2>2 DEF Spawn
  <2>3. CASE Register \/ StartThreads
    BY <2>3 DEF Register, StartThreads
  <2>4. CASE WaitReturns \/ WaitTimesOut \/ KillOnTimeout
    BY <2>4 DEF WaitReturns, WaitTimesOut, KillOnTimeout
  <2>5. CASE CheckExit
    BY <2>5 DEF CheckExit
  <2>6. CASE Finish
    BY <2>6 DEF Finish
  <2>7. CASE Cleanup
    BY <2>7 DEF Cleanup
  <2> QED BY <2>1, <2>2, <2>3, <2>4, <2>5, <2>6, <2>7 DEF RunnerStep
<1>2. CASE Others
  BY <1>2 DEF Others, Stage, Final, Alive, Exited
<1> QED BY <1>1, <1>2, OthersStep

Known == TypeOK /\ Inv /\ Stage

(* The runner opens, launches, abandons and concludes, or does nothing     *)
(* that anybody else can see.                                              *)
LEMMA RunnerMaps == Known /\ RunnerStep => [Contract!Next]_Contract!vars
<1> SUFFICES ASSUME Known, RunnerStep PROVE [Contract!Next]_Contract!vars
  OBVIOUS
<1> USE DEF Known, Inv, Phase, Stage, Final, Alive, Exited, execution, Contract!Next, Contract!vars
<1>1. CASE StartExecution
  BY <1>1 DEF StartExecution, Contract!Open
<1>2. CASE BudgetCheck \/ Register \/ WaitReturns \/ WaitTimesOut \/ CheckExit \/ Cleanup
  BY <1>2 DEF BudgetCheck, Register, WaitReturns, WaitTimesOut, CheckExit, Cleanup
<1>3. CASE BudgetBlocks
  BY <1>3 DEF BudgetBlocks, Contract!Conclude
<1>4. CASE Spawn
  BY <1>4 DEF Spawn, Contract!Launch
<1>5. CASE StartThreads
  BY <1>5 DEF StartThreads, Contract!Abandon
<1>6. CASE KillOnTimeout
  BY <1>6 DEF KillOnTimeout, Kill, Contract!AgentEnds
<1>7. CASE Finish
  <2>1. CASE row' = verdict
    <3>1. verdict \in Final /\ row # "none" /\ (~Alive \/ unwatched)
      BY <1>7 DEF Finish
    <3>2. verdict = "success" => proc = "ok" /\ ~unwatched
      BY <1>7 DEF Finish
    <3>3. CASE row \in Final
      BY <1>7, <3>3 DEF Finish
    <3>4. CASE row \notin Final
      <4>1. UNCHANGED <<proc, unwatched>>
        BY <1>7 DEF Finish
      <4>2. row \notin Final \cup {"none"} /\ row' \in Final \cup {"none"}
        BY <2>1, <3>1, <3>4
      <4>3. unwatched \/ (IF Alive THEN "live" ELSE proc) # "live"
        BY <1>7, <3>1 DEF Finish, TypeOK
      <4>4. verdict = "success" => (IF Alive THEN "live" ELSE proc) = "ok" /\ ~unwatched
        BY <3>2
      <4>5. Contract!Conclude(verdict)
        BY <2>1, <4>1, <4>2, <4>3, <4>4 DEF Contract!Conclude
      <4> QED BY <3>1, <4>5
    <3> QED BY <3>3, <3>4
  <2>2. CASE UNCHANGED row
    BY <1>7, <2>2 DEF Finish
  <2> QED BY <1>7, <2>1, <2>2 DEF Finish
<1> QED
  BY <1>1, <1>2, <1>3, <1>4, <1>5, <1>6, <1>7 DEF RunnerStep

(* Everybody else can only end the agent.                                  *)
LEMMA OthersMap == Known /\ Others => [Contract!Next]_Contract!vars
BY DEF Known, Others, TypeOK, Alive, Exited, Statuses, Final, Contract!Next, Contract!vars,
       Contract!AgentEnds

(* Behind its threads, requests, timers, shutdown and restart an execution *)
(* is the one that Execution describes.                                    *)
THEOREM LifecycleIsExecution == Spec => IsExecution
<1>1. Init => Known /\ Contract!Init
  BY InitTypeOK, InitInv DEF Known, Init, Stage, Alive, Final, Contract!Init
<1>2. Known /\ [Next]_vars => Known'
  BY StepTypeOK, StepInv, StageStep DEF Known
<1>3. Known /\ [Next]_vars => [Contract!Next]_Contract!vars
  BY RunnerMaps, OthersMap, OthersStep DEF Known
<1> QED
  BY <1>1, <1>2, <1>3, PTL DEF Spec, IsExecution, Contract!Spec

(* The contract is worth having: it alone keeps a verdict and its truth,   *)
(* whatever implements it.                                                 *)
THEOREM ContractKeepsVerdicts == IsExecution => VerdictStays /\ []VerdictIsTrue
<1> DEFINE status == IF row \in Final \cup {"none"} THEN row ELSE "open"
           agent  == IF Alive THEN "live" ELSE proc
           Truth  == status \in Final /\ ~unwatched =>
                       agent # "live" /\ (status = "success" => agent = "ok")
<1>1. Contract!Init => Truth
  BY DEF Contract!Init, Final
<1>2. Truth /\ [Contract!Next]_Contract!vars => Truth'
  <2> SUFFICES ASSUME Truth, [Contract!Next]_Contract!vars, status' \in Final, ~unwatched'
               PROVE  agent' # "live" /\ (status' = "success" => agent' = "ok")
    OBVIOUS
  <2>1. CASE status' = status
    BY <2>1 DEF Contract!Next, Contract!vars, Contract!Open, Contract!Launch,
                Contract!AgentEnds, Contract!Abandon, Contract!Conclude, Final
  <2>2. CASE \E v \in Final : Contract!Conclude(v)
    BY <2>2 DEF Contract!Conclude
  <2>3. CASE Contract!Open
    BY <2>3 DEF Contract!Open, Final
  <2> QED
    BY <2>1, <2>2, <2>3 DEF Contract!Next, Contract!vars, Contract!Launch, Contract!AgentEnds,
                            Contract!Abandon
<1>3. Truth => VerdictIsTrue
  BY DEF VerdictIsTrue, Final, Alive
<1>4. [Contract!Next]_Contract!vars => [(row \in Final) => (row' = row)]_vars
  <2> SUFFICES ASSUME [Contract!Next]_Contract!vars, row \in Final PROVE row' = row
    OBVIOUS
  <2>1. status = row /\ status' = status
    BY DEF Contract!Next, Contract!vars, Contract!Open, Contract!Launch, Contract!AgentEnds,
           Contract!Abandon, Contract!Conclude, Final
  <2> QED
    BY <2>1 DEF Final
<1> HIDE DEF Truth
<1> QED
  BY <1>1, <1>2, <1>3, <1>4, PTL DEF IsExecution, Contract!Spec, VerdictStays
-----------------------------------------------------------------------------
(* The safe half of the liveness properties: at every moment somebody is   *)
(* left whose next step is the one that is awaited.                        *)

(* While the agent is stopped the runner is still on its way to wait, in   *)
(* it, or about to kill, so that its own timeout can always free the agent.*)
StoppedIsWatched ==
  proc = "stopped" /\ ~unwatched => run \in {"register", "threads", "wait", "kill", "dead"}

(* A runner that has come to its end has left a verdict in the row, unless *)
(* a write of it failed.                                                   *)
EndLeavesVerdict == run \in {"cleanup", "done"} /\ faults = 0 => row \in Final

(* Once the server is up again no row says "running", and no request or    *)
(* timer can make it say so.                                               *)
RestartLeavesNoRunning == server = "again" => row # "running"

(* After the server died nobody has the execution registered, and nobody   *)
(* is about to set its row back to running.                                *)
Gone ==
  /\ run = "dead" <=> server \in {"down", "again"}
  /\ run = "dead" => ~registered /\ \A r \in Requests : req[r] # "resume_cas"
  /\ RestartLeavesNoRunning

(* A stopped agent always has a runner that can free it.                   *)
THEOREM StoppedIsWatchedHolds == Spec => []StoppedIsWatched
<1>1. Init => TypeOK /\ Inv
  BY InitTypeOK, InitInv
<1>2. (TypeOK /\ Inv) /\ [Next]_vars => (TypeOK /\ Inv)'
  BY StepTypeOK, StepInv
<1>3. TypeOK /\ Inv => StoppedIsWatched
  BY DEF Inv, Phase, StoppedIsWatched, TypeOK, RunnerSteps, Alive, Exited
<1> QED
  BY <1>1, <1>2, <1>3, PTL DEF Spec

(* The runner comes to its end with a verdict in the row, or a write has   *)
(* failed.                                                                 *)
LEMMA EndStep == Known /\ EndLeavesVerdict /\ [Next]_vars => EndLeavesVerdict'
<1> SUFFICES ASSUME Known, EndLeavesVerdict, [Next]_vars, run' \in {"cleanup", "done"},
                    faults' = 0
             PROVE  row' \in Final
  BY DEF EndLeavesVerdict
<1>1. CASE RunnerStep
  <2>1. CASE BudgetBlocks
    BY <1>1, <2>1 DEF BudgetBlocks, Final
  <2>2. CASE Finish
    BY <2>2 DEF Finish, Known, Stage, TypeOK
  <2>3. CASE Cleanup
    BY <2>3 DEF Cleanup, EndLeavesVerdict, execution
  <2>4. CASE ~BudgetBlocks /\ ~Finish /\ ~Cleanup
    BY <1>1, <2>4 DEF RunnerStep, StartExecution, BudgetCheck, Spawn, Register, StartThreads,
                      WaitReturns, WaitTimesOut, KillOnTimeout, CheckExit
  <2> QED
    BY <2>1, <2>2, <2>3, <2>4
<1>2. CASE Others
  BY <1>2 DEF Others, EndLeavesVerdict
<1> QED
  BY <1>1, <1>2, OthersStep DEF Known

(* No runner ends without a verdict in the row while writes succeed.       *)
THEOREM EndLeavesVerdictHolds == Spec => []EndLeavesVerdict
<1>1. Init => Known /\ EndLeavesVerdict
  BY InitTypeOK, InitInv DEF Known, Init, Stage, EndLeavesVerdict
<1>2. (Known /\ EndLeavesVerdict) /\ [Next]_vars => (Known /\ EndLeavesVerdict)'
  BY StepTypeOK, StepInv, StageStep, EndStep DEF Known
<1> QED
  BY <1>1, <1>2, PTL DEF Spec

(* Nobody takes up an execution again after the server died.               *)
LEMMA GoneStep == TypeOK /\ Gone /\ [Next]_vars => Gone'
<1> SUFFICES ASSUME TypeOK, Gone, [Next]_vars PROVE Gone'
  OBVIOUS
<1> USE DEF Gone, RestartLeavesNoRunning, execution, runner, tracking, requests
<1>1. CASE RunnerStep
  BY <1>1 DEF RunnerStep, StartExecution, BudgetCheck, BudgetBlocks, Spawn, Register,
              StartThreads, WaitReturns, WaitTimesOut, KillOnTimeout, CheckExit, Finish, Cleanup
<1>2. CASE ProcessExits \/ ForceKill \/ BudgetKills
  BY <1>2 DEF ProcessExits, ForceKill, BudgetKills
<1>3. ASSUME NEW r \in Requests, \/ AskPause(r) \/ AskResume(r) \/ AskCancel(r)
                                 \/ AskBulkCancel(r) \/ TimeLimit(r) \/ Request(r)
      PROVE  Gone'
  <2>1. UNCHANGED <<run, server, registered>>
    BY <1>3 DEF AskPause, AskResume, AskCancel, AskBulkCancel, TimeLimit, Request, PauseGet,
                PauseCas, PauseStop, PauseArm, ResumeGet, ResumeCas, ResumeContinue,
                ResumeDisarm, CancelMark, CancelTerm
  <2>2. run # "dead" \/ (req[r] # "resume_cas" /\ ~registered)
    OBVIOUS
  <2>3. row' = row \/ row' # "running" \/ req[r] = "resume_cas"
    BY <1>3 DEF AskPause, AskResume, AskCancel, AskBulkCancel, TimeLimit, Request, PauseGet,
                PauseCas, PauseStop, PauseArm, ResumeGet, ResumeCas, ResumeContinue,
                ResumeDisarm, CancelMark, CancelTerm
  <2>4. \E s \in RequestSteps : Goto(r, s) /\ (s = "resume_cas" => registered)
    BY <1>3 DEF AskPause, AskResume, AskCancel, AskBulkCancel, TimeLimit, Request, PauseGet,
                PauseCas, PauseStop, PauseArm, ResumeGet, ResumeCas, ResumeContinue,
                ResumeDisarm, CancelMark, CancelTerm, AfterResume, RequestSteps
  <2>5. run = "dead" => \A q \in Requests : req'[q] # "resume_cas"
    BY <2>4 DEF Goto, TypeOK
  <2> QED
    BY <2>1, <2>2, <2>3, <2>5
<1>4. ASSUME NEW t \in Requests, AutoCancel(t) PROVE Gone'
  BY <1>4 DEF AutoCancel, TimerFires, TimerGet, TimerCas, TimerContinue, TimerMark,
              TimerTerm, TimerClear
<1>5. CASE ShutdownBegins \/ Drain \/ AtExit
  BY <1>5 DEF ShutdownBegins, Drain, AtExit
<1>6. CASE Interrupt \/ Restart
  BY <1>6 DEF Interrupt, Restart, Matches
<1>7. CASE Exit \/ Crash
  BY <1>7 DEF Exit, Crash, Die
<1>8. CASE UNCHANGED vars
  BY <1>8 DEF vars
<1> QED
  BY <1>1, <1>2, <1>3, <1>4, <1>5, <1>6, <1>7, <1>8 DEF Next

(* A restart leaves no row running, and none becomes so afterwards.        *)
THEOREM RestartLeavesNoRunningHolds == Spec => []RestartLeavesNoRunning
<1>1. Init => TypeOK /\ Gone
  BY InitTypeOK DEF Init, Gone, RestartLeavesNoRunning
<1>2. (TypeOK /\ Gone) /\ [Next]_vars => (TypeOK /\ Gone)'
  BY StepTypeOK, GoneStep
<1>3. Gone => RestartLeavesNoRunning
  BY DEF Gone
<1> QED
  BY <1>1, <1>2, <1>3, PTL DEF Spec
=============================================================================
