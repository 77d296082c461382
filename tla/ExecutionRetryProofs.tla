------------------------ MODULE ExecutionRetryProofs ------------------------
(***************************************************************************)
(* Proofs about ExecutionRetry for any number of executions and timers of  *)
(* the trigger. NoRowForgotten is inductive with the types. OneTimer is    *)
(* not: it speaks of the moments when nobody is inside schedule_retry, so  *)
(* Alone says where the one timer is at every step in between.             *)
(***************************************************************************)
EXTENDS ExecutionRetry, FiniteSetTheorems, TLAPS

Before(j) == pc[j] \in {"cancel", "cancel_last"}

(* Nothing runs before the restored timer is armed. *)
Quiet == boot \in {"off", "arm"} => \A j \in Slots : pc[j] = "none" /\ timer[j] = "none"

Alone ==
  ~overlap =>
    /\ \A i, j \in Scheduling : i = j
    /\ Scheduling # {} => Callbacks = {} /\ ~BootBusy
    /\ BootBusy => Callbacks = {}
    /\ Callbacks # {} => Armed = {}
    /\ \A i, j \in Armed : i = j
    /\ (Scheduling = {} /\ boot = "idle") => \A j \in Armed : entry = j
    /\ \A j \in Slots : Before(j) => \A i \in Armed : victim[j] = i
    /\ \A j \in Slots : pc[j] \in {"pending", "row", "arm"} => Armed = {}
    /\ \A j \in Slots : pc[j] = "register" => Armed \subseteq {j}
    /\ boot = "register" => Armed \subseteq {1} /\ restored = Armed

(* The first slot is a slot, and None is none.                             *)
LEMMA SlotFacts == 1 \in Slots /\ None \notin Slots /\ Slots \subseteq Nat
  BY RetryAssumption DEF Slots, None

(* Every variable has its type at first.                                   *)
LEMMA InitTypeOK == Init => TypeOK
<1> SUFFICES ASSUME Init PROVE TypeOK
  OBVIOUS
<1>1. /\ pc \in [Slots -> {"none", "running", "give_up"} \cup Steps]
      /\ victim \in [Slots -> Slots \cup {None}]
      /\ timer \in [Slots -> {"none", "armed", "fired", "popped", "ready"}]
  BY DEF Init
<1>2. count \in 0..(MaxAttempts + 1) /\ restarts \in 0..MaxRestarts /\ faults \in 0..MaxFaults
  BY RetryAssumption DEF Init
<1> QED BY <1>1, <1>2 DEF Init, TypeOK

(* A job starts in a slot that was free.                                   *)
LEMMA StartJobEffect ==
  ASSUME TypeOK, NEW ended \in SUBSET Slots, StartJob(ended)
  PROVE  \E k \in Slots : pc[k] = "none" /\ pc' = [pc EXCEPT ![k] = "running"]
  BY DEF StartJob

(* What a write leaves behind; with no failed write, the row it was to leave. *)
LEMMA WriteEffect ==
  ASSUME TypeOK, NEW r \in BOOLEAN, Write(r)
  PROVE  /\ row' \in BOOLEAN
         /\ restarts' \in 0..MaxRestarts /\ faults' \in 0..MaxFaults
         /\ faults' = 0 => faults = 0 /\ row' = r
<1>1. row' \in BOOLEAN
  BY Zenon DEF Write, TypeOK
<1>2. restarts' = restarts /\ (faults' = faults \/ (faults < MaxFaults /\ faults' = faults + 1))
  BY Zenon DEF Write, bounds
<1>3. faults' = faults + 1 \/ (faults' = faults /\ row' = r)
  BY Zenon DEF Write, bounds
<1> QED BY <1>1, <1>2, <1>3, RetryAssumption DEF TypeOK

(* Every step keeps the types.                                             *)
LEMMA StepTypeOK == TypeOK /\ [Next]_vars => TypeOK'
<1> SUFFICES ASSUME TypeOK, [Next]_vars PROVE TypeOK'
  OBVIOUS
<1> USE RetryAssumption, SlotFacts DEF TypeOK, threads, memory, history, bounds
<1>1. CASE Arrive
  BY <1>1, StartJobEffect DEF Arrive
<1>2. CASE Crash
  <2>1. /\ pc' \in [Slots -> {"none", "running", "give_up"} \cup Steps]
        /\ victim' \in [Slots -> Slots \cup {None}]
        /\ timer' \in [Slots -> {"none", "armed", "fired", "popped", "ready"}]
    BY <1>2 DEF Crash
  <2>2. count' \in 0..(MaxAttempts + 1) /\ restarts' \in 0..MaxRestarts
    BY <1>2 DEF Crash
  <2> QED BY <1>2, <2>1, <2>2 DEF Crash
<1>3. CASE Boot
  BY <1>3 DEF Boot, ReadRows, RestoreTimer, RegisterRestored
<1>4. ASSUME NEW j \in Slots, JobEnds(j) PROVE TypeOK'
  BY <1>4 DEF JobEnds
<1>5. ASSUME NEW j \in Slots, Schedule(j) PROVE TypeOK'
  <2>1. CASE TakeTimer(j)
    BY <2>1 DEF TakeTimer, Capped, Steps
  <2>2. CASE CancelTimer(j)
    BY <2>2 DEF CancelTimer, Steps
  <2>3. CASE GiveUp(j)
    BY <2>3 DEF GiveUp
  <2>4. CASE SetPending(j)
    BY <2>4 DEF SetPending, Steps
  <2>5. CASE WriteRow(j)
    <3>1. row' \in BOOLEAN /\ restarts' \in 0..MaxRestarts /\ faults' \in 0..MaxFaults
      BY <2>5, WriteEffect DEF WriteRow
    <3> QED BY <2>5, <3>1 DEF WriteRow, Steps
  <2>6. CASE ArmTimer(j)
    BY <2>6 DEF ArmTimer, Steps
  <2>7. CASE RegisterTimer(j)
    BY <2>7 DEF RegisterTimer
  <2> QED BY <1>5, <2>1, <2>2, <2>3, <2>4, <2>5, <2>6, <2>7 DEF Schedule
<1>6. ASSUME NEW j \in Slots, Retry(j) PROVE TypeOK'
  <2>1. CASE ExecuteRetry(j)
    BY <2>1, StartJobEffect DEF ExecuteRetry
  <2>2. CASE Fire(j)
    BY <2>2 DEF Fire
  <2>3. CASE PopEntries(j)
    <3>1. count' \in 0..(MaxAttempts + 1)
      BY <2>3 DEF PopEntries
    <3> QED BY <2>3, <3>1 DEF PopEntries
  <2>4. CASE DeleteRow(j)
    <3>1. row' \in BOOLEAN /\ restarts' \in 0..MaxRestarts /\ faults' \in 0..MaxFaults
      BY <2>4, WriteEffect DEF DeleteRow
    <3> QED BY <2>4, <3>1 DEF DeleteRow
  <2> QED BY <1>6, <2>1, <2>2, <2>3, <2>4 DEF Retry
<1>7. CASE UNCHANGED vars
  BY <1>7 DEF vars
<1> QED BY <1>1, <1>2, <1>3, <1>4, <1>5, <1>6, <1>7 DEF Next

(* Every variable of the retries keeps its type.                             *)
THEOREM RetryTypeCorrect == Spec => []TypeOK
  BY InitTypeOK, StepTypeOK, PTL DEF Spec

-----------------------------------------------------------------------------
Helper == \/ boot \in {"off", "arm"}
          \/ Armed \cup Callbacks # {}
          \/ \E j \in Slots : pc[j] \in (Steps \ {"register"}) \cup {"give_up"}

(* At first there is no row to forget.                                     *)
LEMMA InitNoRow == Init => NoRowForgotten
  BY DEF Init, NoRowForgotten

(* Whoever was about to act still is, or has handed over to the timer it set. *)
LEMMA StepNoRow ==
  ASSUME TypeOK, NoRowForgotten, [Next]_vars
  PROVE  NoRowForgotten'
<1> SUFFICES ASSUME row', faults' = 0, ~gaveUp' PROVE Helper'
  BY DEF NoRowForgotten, Helper
<1> USE DEF TypeOK, Helper, Armed, Callbacks, threads, memory, history, bounds, Steps
<1>1. CASE Arrive
  BY <1>1, StartJobEffect DEF Arrive, NoRowForgotten
<1>2. CASE Crash
  BY <1>2 DEF Crash
<1>3. CASE Boot
  <2>1. CASE ReadRows
    BY <2>1 DEF ReadRows
  <2>2. CASE RestoreTimer
    BY <2>2, SlotFacts DEF RestoreTimer
  <2>3. CASE RegisterRestored
    BY <2>3 DEF RegisterRestored, NoRowForgotten
  <2> QED BY <1>3, <2>1, <2>2, <2>3 DEF Boot
<1>4. ASSUME NEW j \in Slots, JobEnds(j) PROVE Helper'
  BY <1>4 DEF JobEnds, NoRowForgotten
<1>5. ASSUME NEW j \in Slots, Schedule(j) PROVE Helper'
  <2>1. CASE TakeTimer(j)
    BY <2>1 DEF TakeTimer
  <2>2. CASE CancelTimer(j)
    BY <2>2 DEF CancelTimer
  <2>3. CASE GiveUp(j)
    BY <2>3 DEF GiveUp
  <2>4. CASE SetPending(j)
    BY <2>4 DEF SetPending
  <2>5. CASE WriteRow(j)
    BY <2>5 DEF WriteRow
  <2>6. CASE ArmTimer(j)
    BY <2>6 DEF ArmTimer
  <2>7. CASE RegisterTimer(j)
    BY <2>7 DEF RegisterTimer, NoRowForgotten
  <2> QED BY <1>5, <2>1, <2>2, <2>3, <2>4, <2>5, <2>6, <2>7 DEF Schedule
<1>6. ASSUME NEW j \in Slots, Retry(j) PROVE Helper'
  <2>1. CASE Fire(j)
    BY <2>1 DEF Fire
  <2>2. CASE PopEntries(j)
    BY <2>2 DEF PopEntries
  <2>3. CASE DeleteRow(j)
    BY <2>3, WriteEffect DEF DeleteRow
  <2>4. CASE ExecuteRetry(j)
    BY <2>4, StartJobEffect DEF ExecuteRetry, NoRowForgotten
  <2> QED BY <1>6, <2>1, <2>2, <2>3, <2>4 DEF Retry
<1>7. CASE UNCHANGED vars
  BY <1>7 DEF vars, NoRowForgotten
<1> QED BY <1>1, <1>2, <1>3, <1>4, <1>5, <1>6, <1>7 DEF Next

(* A stored retry always has somebody who will act on it, however many       *)
(* callers and timers overlap and wherever the process dies.                 *)
THEOREM NoRowForgottenHolds == Spec => []NoRowForgotten
<1>1. TypeOK /\ NoRowForgotten /\ [Next]_vars => NoRowForgotten'
  BY StepNoRow
<1> QED BY InitNoRow, RetryTypeCorrect, <1>1, PTL DEF Spec

-----------------------------------------------------------------------------
(* At first nobody schedules a retry.                                      *)
LEMMA InitAlone == Init => Alone
  BY DEF Init, Alone, Scheduling, Steps, Armed, Callbacks, BootBusy, Before

(* At first no slot is in use.                                             *)
LEMMA InitQuiet == Init => Quiet
  BY DEF Init, Quiet

(* Nothing runs before the restored timer is armed, after any step.        *)
LEMMA StepQuiet ==
  ASSUME TypeOK, Quiet, [Next]_vars
  PROVE  Quiet'
<1> USE DEF TypeOK, Quiet, threads, memory, history, bounds
<1>1. CASE Arrive
  BY <1>1, StartJobEffect DEF Arrive
<1>2. CASE Crash
  BY <1>2 DEF Crash
<1>3. CASE Boot
  BY <1>3 DEF Boot, ReadRows, RestoreTimer, RegisterRestored
<1>4. ASSUME NEW j \in Slots, JobEnds(j) \/ Schedule(j) \/ Retry(j) PROVE Quiet'
  <2>1. boot \notin {"off", "arm"}
    BY <1>4 DEF JobEnds, Schedule, TakeTimer, CancelTimer, GiveUp, SetPending, WriteRow, ArmTimer,
         RegisterTimer, Retry, Fire, PopEntries, DeleteRow, ExecuteRetry
  <2>2. boot' = boot
    BY <1>4 DEF JobEnds, Schedule, TakeTimer, CancelTimer, GiveUp, SetPending, WriteRow, ArmTimer,
         RegisterTimer, Retry, Fire, PopEntries, DeleteRow, ExecuteRetry
  <2> QED BY <2>1, <2>2
<1>5. CASE UNCHANGED vars
  BY <1>5 DEF vars
<1> QED BY <1>1, <1>2, <1>3, <1>4, <1>5 DEF Next

(* As long as nothing overlaps, one thread at a time moves the one timer. *)
LEMMA StepAlone ==
  ASSUME TypeOK, Quiet, Alone, [Next]_vars
  PROVE  Alone'
<1> SUFFICES ASSUME ~overlap' PROVE Alone'
  BY DEF Alone
<1> USE DEF TypeOK, Quiet, Alone, Scheduling, Steps, Armed, Callbacks, BootBusy, Before, threads,
            memory, history, bounds
<1>1. CASE Arrive
  BY <1>1, StartJobEffect DEF Arrive
<1>2. CASE Crash
  BY <1>2 DEF Crash
<1>3. CASE Boot
  <2>1. CASE ReadRows
    BY <2>1 DEF ReadRows
  <2>2. CASE RestoreTimer
    <3>1. timer' = [timer EXCEPT ![1] = "armed"] /\ restored' = {1} /\ 1 \in Slots
          /\ pc' = pc /\ boot' = "register" /\ boot = "arm" /\ overlap' = overlap
      BY <2>2, SlotFacts DEF RestoreTimer
    <3>2. Armed' = {1} /\ Callbacks' = {} /\ Scheduling' = {}
      BY <3>1
    <3> QED BY <3>1, <3>2
  <2>3. CASE RegisterRestored
    BY <2>3 DEF RegisterRestored
  <2> QED BY <1>3, <2>1, <2>2, <2>3 DEF Boot
<1>4. ASSUME NEW j \in Slots, JobEnds(j) PROVE Alone'
  BY <1>4 DEF JobEnds
<1>5. ASSUME NEW j \in Slots, Schedule(j) PROVE Alone'
  <2>1. CASE TakeTimer(j)
    <3>1. ~overlap /\ Scheduling = {} /\ Callbacks = {} /\ ~BootBusy
      BY <2>1, Zenon DEF TakeTimer
    <3>2. boot = "idle" /\ boot' = boot /\ timer' = timer /\ restored' = restored
      BY <2>1, <3>1 DEF TakeTimer
    <3>3. pc' \in {[pc EXCEPT ![j] = "cancel"], [pc EXCEPT ![j] = "cancel_last"]}
          /\ victim' = [victim EXCEPT ![j] = entry]
      BY <2>1 DEF TakeTimer
    <3>4. Scheduling' = {j} /\ Callbacks' = {} /\ Armed' = Armed
      BY <3>1, <3>2, <3>3
    <3>5. \A i \in Armed : victim'[j] = i
      BY <3>1, <3>2, <3>3
    <3>6. \A i \in Slots : i # j => pc'[i] \notin Steps
      BY <3>4
    <3> QED BY <3>1, <3>2, <3>3, <3>4, <3>5, <3>6
  <2>2. CASE CancelTimer(j)
    BY <2>2 DEF CancelTimer
  <2>3. CASE GiveUp(j)
    BY <2>3 DEF GiveUp
  <2>4. CASE SetPending(j)
    BY <2>4 DEF SetPending
  <2>5. CASE WriteRow(j)
    BY <2>5 DEF WriteRow
  <2>6. CASE ArmTimer(j)
    BY <2>6 DEF ArmTimer
  <2>7. CASE RegisterTimer(j)
    BY <2>7 DEF RegisterTimer
  <2> QED BY <1>5, <2>1, <2>2, <2>3, <2>4, <2>5, <2>6, <2>7 DEF Schedule
<1>6. ASSUME NEW j \in Slots, Retry(j) PROVE Alone'
  <2>1. CASE Fire(j)
    <3>1. ~overlap /\ Scheduling = {} /\ ~BootBusy
      BY <2>1, Zenon DEF Fire
    <3>2. boot = "idle" /\ boot' = boot /\ pc' = pc /\ restored' = restored
          /\ timer' = [timer EXCEPT ![j] = "fired"] /\ timer[j] = "armed"
      BY <2>1, <3>1 DEF Fire
    <3>3. Armed' = {} /\ Scheduling' = {}
      BY <3>1, <3>2
    <3> QED BY <3>1, <3>2, <3>3
  <2>2. CASE PopEntries(j)
    BY <2>2 DEF PopEntries
  <2>3. CASE DeleteRow(j)
    BY <2>3 DEF DeleteRow
  <2>4. CASE ExecuteRetry(j)
    BY <2>4, StartJobEffect DEF ExecuteRetry
  <2> QED BY <1>6, <2>1, <2>2, <2>3, <2>4 DEF Retry
<1>7. CASE UNCHANGED vars
  BY <1>7 DEF vars
<1> QED BY <1>1, <1>2, <1>3, <1>4, <1>5, <1>6, <1>7 DEF Next

(* Unless two accesses overlap, a trigger has one timer, and the next        *)
(* schedule_retry finds it.                                                  *)
THEOREM OneTimerHolds == Spec => []OneTimer
<1>1. TypeOK /\ Quiet /\ Alone /\ [Next]_vars => Quiet' /\ Alone'
  BY StepAlone, StepQuiet
<1>2. TypeOK /\ Alone => OneTimer
  <2> SUFFICES ASSUME Alone, ~overlap, boot = "idle", Scheduling = {}
               PROVE  Cardinality(Armed) <= 1 /\ \A j \in Armed : entry = j
    BY DEF OneTimer
  <2>1. Armed = {} \/ \E j \in Armed : Armed = {j}
    BY DEF Alone
  <2>2. Cardinality({}) = 0 /\ \A j \in Armed : Cardinality({j}) = 1
    BY FS_EmptySet, FS_Singleton
  <2> QED BY <2>1, <2>2 DEF Alone
<1> QED BY InitAlone, InitQuiet, RetryTypeCorrect, <1>1, <1>2, PTL DEF Spec
=============================================================================
