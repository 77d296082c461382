------------------------ MODULE ExecutionQueueProofs ------------------------
(***************************************************************************)
(* Proofs about ExecutionQueue for any triggers, handlers, limits and      *)
(* numbers of rows, crashes and faults.                                    *)
(***************************************************************************)
EXTENDS ExecutionQueue, FiniteSetTheorems, WellFoundedInduction, TLAPS

(* Every count of rows is a natural number.                                 *)
LEMMA RowsFinite ==
  ASSUME NEW S, S \subseteq Entries
  PROVE  IsFiniteSet(S) /\ Cardinality(S) \in Nat
<1>1. IsFiniteSet(Entries)
  BY FS_Interval, EntriesAssumption DEF Entries
<1> QED
  BY <1>1, FS_Subset, FS_CardinalityType

(* A non-empty snapshot has an oldest row: the sets of rows older than a row *)
(* are finite, hence well-founded under strict inclusion.                    *)
LEMMA CurInBatch ==
  ASSUME batch \subseteq Entries, batch # {}
  PROVE  Cur \in batch /\ Cur \in Entries
<1> DEFINE Older(e)  == {f \in batch : f < e}
           Smaller   == StrictSubsetOrdering(Entries)
           OlderSets == {Older(e) : e \in batch}
<1>1. \A x \in batch : x \in Int
  BY DEF Entries
<1>2. OlderSets \subseteq FiniteSubsetsOf(Entries)
  BY RowsFinite DEF FiniteSubsetsOf
<1>3. PICK T \in OlderSets : \A U \in OlderSets : ~(<<U, T>> \in Smaller)
  <2>1. IsWellFoundedOn(Smaller, FiniteSubsetsOf(Entries))
    BY FS_StrictSubsetOrderingWellFounded
  <2>2. OlderSets # {}
    OBVIOUS
  <2> HIDE DEF OlderSets, Smaller
  <2> QED
    BY <1>2, <2>1, <2>2, WFMin
<1>4. PICK e \in batch : T = Older(e)
  BY <1>3
<1>5. ASSUME NEW f \in batch, f < e
      PROVE  FALSE
  <2>1. Older(f) \subseteq Older(e)
    <3>1. ASSUME NEW g \in batch, g < f  PROVE g < e
      BY <1>1, <1>5, <3>1
    <3> QED
      BY <3>1
  <2>2. f \in Older(e) /\ f \notin Older(f)
    BY <1>1, <1>5
  <2>3. Older(f) \in SUBSET Entries /\ Older(e) \in SUBSET Entries
    OBVIOUS
  <2>4. <<Older(f), Older(e)>> \in Smaller
    <3> HIDE DEF Older
    <3> QED
      BY <2>1, <2>2, <2>3 DEF StrictSubsetOrdering
  <2> QED
    BY <1>3, <1>4, <2>4
<1>6. \A f \in batch : e <= f
  BY <1>1, <1>5
<1> QED
  BY <1>6 DEF Cur

-----------------------------------------------------------------------------
(* The inductive invariant: the properties, what the dispatcher knows        *)
(* between its checks, and that nothing runs while the server is down.       *)

DownMeansIdle == ~up => dpc = "sleep" /\ \A e \in Entries : worker[e] = "none"

CheckedCap ==
  /\ \A t \in Triggers : cap[t] <= capPeak[t]
  /\ dpc \in {"breaker", "claim"} => Active(trig[Cur]) < capPeak[trig[Cur]]

(* Every variable has its type at first.                                   *)
LEMMA TypeOKInit == Init => TypeOK
  BY EntriesAssumption DEF Init, TypeOK, Status, Live, Terminal, Entries, DefaultCap

(* The row the dispatcher is looking at was inserted, so it has a trigger.   *)
LEMMA CurHasTrigger ==
  ASSUME TypeOK, dpc # "sleep"
  PROVE  /\ Cur \in batch /\ Cur \in Entries
         /\ status[Cur] \in Status \ {"absent"}
         /\ trig[Cur] \in Triggers
<1>1. Cur \in batch /\ Cur \in Entries
  BY CurInBatch DEF TypeOK
<1>2. Cur \in Int /\ rows \in Int
  BY <1>1 DEF TypeOK, Entries
<1> QED
  BY <1>1, <1>2 DEF TypeOK

(* Every step keeps the types.                                             *)
LEMMA TypeOKStep ==
  ASSUME TypeOK, [Next]_vars
  PROVE  TypeOK'
<1> USE DEF TypeOK, db, mem, envVars
<1>1. ASSUME NEW r \in Requests, NEW t \in Triggers, EnqueueCheckDepth(r, t)
      PROVE  TypeOK'
  BY <1>1 DEF EnqueueCheckDepth, Entries
<1>2. ASSUME NEW r \in Requests, EnqueueInsert(r)
      PROVE  TypeOK'
  <2>1. rows' \in Entries /\ rows' \in 0..MaxEntries /\ rows' = rows + 1
    BY <1>2, EntriesAssumption DEF EnqueueInsert, Entries
  <2>2. checked[r] \in Triggers
    BY <1>2 DEF EnqueueInsert
  <2>3. status' \in [Entries -> Status] /\ trig' \in [Entries -> Triggers \cup {NoTrigger}]
    BY <1>2, <2>1, <2>2 DEF EnqueueInsert, Status, Live
  <2>4. ASSUME NEW e \in Entries
        PROVE  /\ status'[e] = "absent" <=> e > rows'
               /\ e <= rows' => trig'[e] \in Triggers
    <3>1. CASE e = rows'
      BY <1>2, <2>1, <2>2, <3>1 DEF EnqueueInsert, Entries
    <3>2. CASE e # rows'
      <4>1. e > rows' <=> e > rows
        BY <2>1, <3>2 DEF Entries
      <4>2. status'[e] = status[e] /\ trig'[e] = trig[e]
        BY <1>2, <2>1, <3>2 DEF EnqueueInsert
      <4>3. e <= rows' => e <= rows
        BY <2>1, <3>2 DEF Entries
      <4> QED
        BY <4>1, <4>2, <4>3
    <3> QED
      BY <3>1, <3>2
  <2>5. \A e \in batch : status'[e] # "absent"
    BY <1>2, <2>1 DEF EnqueueInsert, Entries
  <2>6. checked' \in [Requests -> Triggers \cup {NoTrigger}]
    BY <1>2 DEF EnqueueInsert
  <2> QED
    BY <1>2, <2>1, <2>3, <2>4, <2>5, <2>6 DEF EnqueueInsert
<1>3. ASSUME NEW t \in Triggers, CancelPending(t)
      PROVE  TypeOK'
  BY <1>3 DEF CancelPending, WithStatus, Status, Live, Terminal
<1>4. ASSUME NEW t \in Triggers, NEW c \in CapChoices, SetConcurrencyCap(t, c)
      PROVE  TypeOK'
  <2>1. cap'[t] \in Nat \ {0}
    BY <1>4, CapAssumption DEF SetConcurrencyCap
  <2>2. cap' \in [Triggers -> Nat \ {0}] /\ capPeak' \in [Triggers -> Nat \ {0}]
    BY <1>4, <2>1 DEF SetConcurrencyCap
  <2> QED
    BY <1>4, <2>2 DEF SetConcurrencyCap
<1>5. ASSUME dpc # "sleep", NextEntry
      PROVE  /\ batch' \subseteq batch
             /\ dpc' \in {"sleep", "cap"} /\ (dpc' = "sleep" <=> batch' = {})
  BY <1>5 DEF NextEntry
<1>6. CASE FetchBatch
  BY <1>6 DEF FetchBatch, FirstPending, PendingRows
<1>7. CASE CheckCap
  BY <1>5, <1>7 DEF CheckCap
<1>8. CASE BreakerRefuses
  BY <1>5, <1>8 DEF BreakerRefuses
<1>9. ASSUME NEW t \in Triggers, BreakerAdmits(t)
      PROVE  TypeOK'
  BY <1>9 DEF BreakerAdmits
<1>10. ASSUME NEW e \in Entries, NEW new \in Status \ {"absent"},
              NEW old \in Status \ {"absent"}, CAS(e, old, new)
       PROVE  /\ status' \in [Entries -> Status]
              /\ \A f \in Entries : status'[f] = "absent" <=> status[f] = "absent"
  BY <1>10 DEF CAS
<1>11. CASE Claim
  <2>1. Cur \in Entries /\ CAS(Cur, "pending", "dispatching")
    BY <1>11, CurHasTrigger DEF Claim
  <2>2. /\ status' \in [Entries -> Status]
        /\ \A f \in Entries : status'[f] = "absent" <=> status[f] = "absent"
    BY <1>10, <2>1 DEF Status, Live
  <2> QED
    BY <1>5, <1>11, <2>2 DEF Claim
<1>12. CASE Spawn
  BY <1>5, <1>12 DEF Spawn
<1>13. CASE BatchFails
  BY <1>13 DEF BatchFails, Fault
<1>14. ASSUME NEW e \in Entries, TriggerMissing(e)
       PROVE  TypeOK'
  <2>1. /\ status' \in [Entries -> Status]
        /\ \A f \in Entries : status'[f] = "absent" <=> status[f] = "absent"
    BY <1>10, <1>14 DEF TriggerMissing, Status, Live, Terminal
  <2> QED
    BY <1>14, <2>1 DEF TriggerMissing, Moves
<1>15. ASSUME NEW e \in Entries, NEW from, NEW outcome \in {"completed", "failed"},
              Finish(e, from, outcome)
       PROVE  TypeOK'
  <2>1. /\ status' \in [Entries -> Status]
        /\ \A f \in Entries : status'[f] = "absent" <=> status[f] = "absent"
    BY <1>10, <1>15 DEF Finish, Status, Live, Terminal
  <2> QED
    BY <1>15, <2>1 DEF Finish, Moves
<1>16. ASSUME NEW e \in Entries, StartWork(e) \/ WorkReturns(e) \/ WorkRaises(e)
       PROVE  TypeOK'
  BY <1>16 DEF StartWork, WorkReturns, WorkRaises, Moves
<1>17. ASSUME NEW e \in Entries, StatementFails(e) \/ LastUpdateFails(e)
       PROVE  TypeOK'
  BY <1>17 DEF StatementFails, LastUpdateFails, Moves, Fault
<1>18. CASE Crash
  <2>1. cap' \in [Triggers -> Nat \ {0}]
    BY <1>18 DEF Crash, DefaultCap
  <2>2. /\ worker' \in [Entries -> {"none", "started", "executing", "returned", "raised"}]
        /\ checked' \in [Requests -> Triggers \cup {NoTrigger}]
        /\ restarts' \in Nat /\ up' = FALSE
    BY <1>18 DEF Crash
  <2> QED
    BY <1>18, <2>1, <2>2 DEF Crash
<1>19. CASE Restart
  BY <1>19 DEF Restart, Status, Live
<1>20. CASE RestartWithoutRecovery
  BY <1>20 DEF RestartWithoutRecovery, Fault
<1>21. ASSUME NEW t \in Triggers, DeleteTrigger(t)
       PROVE  TypeOK'
  BY <1>21 DEF DeleteTrigger
<1>22. CASE UNCHANGED vars
  BY <1>22 DEF vars
<1> QED
  BY <1>1, <1>2, <1>3, <1>4, <1>6, <1>7, <1>8, <1>9, <1>11, <1>12, <1>13, <1>14,
     <1>15, <1>16, <1>17, <1>18, <1>19, <1>20, <1>21, <1>22
  DEF Next, Enqueue, Operator, Dispatcher, Worker, FinishCompleted, FinishFailed,
      Faulty, Environment

(* TypeOK holds in every reachable state.                                    *)
THEOREM TypeCorrect == Spec => []TypeOK
  BY TypeOKInit, TypeOKStep, PTL DEF Spec

-----------------------------------------------------------------------------
(* Row ownership. Only Claim makes a row 'dispatching' while the server is   *)
(* up, and the dispatcher starts its thread before it looks at another row.  *)

(* Every step keeps each thread the owner of its row.                      *)
LEMMA OwnershipStep ==
  ASSUME TypeOK, DownMeansIdle, ThreadOwnsRow, [Next]_vars
  PROVE  DownMeansIdle' /\ ThreadOwnsRow'
<1> USE DEF DownMeansIdle, ThreadOwnsRow, db, mem, envVars
<1>1. dpc # "sleep" => Cur \in batch /\ Cur \in Entries
  BY CurHasTrigger
<1>2. batch' = batch => Cur' = Cur
  BY DEF Cur
<1>3. NextEntry => dpc' # "spawn"
  BY DEF NextEntry
<1>4. ASSUME UNCHANGED <<dpc, batch, worker, up>>,
             \A e \in Entries : status[e] = "dispatching" => status'[e] = "dispatching"
      PROVE  DownMeansIdle' /\ ThreadOwnsRow'
  BY <1>1, <1>2, <1>4 DEF TypeOK
<1>5. ASSUME UNCHANGED <<status, worker, up>>, up, dpc' # "spawn"
      PROVE  DownMeansIdle' /\ ThreadOwnsRow'
  BY <1>5
<1>6. ASSUME NEW e \in Entries, NEW to, up' = up,
             worker' = [worker EXCEPT ![e] = to], up, worker[e] # "none",
             UNCHANGED <<dpc, batch>>,
             \A f \in Entries : f # e \/ to # "none" => status'[f] = status[f]
      PROVE  DownMeansIdle' /\ ThreadOwnsRow'
  BY <1>1, <1>2, <1>6 DEF TypeOK
<1>7. ASSUME NEW r \in Requests, EnqueueInsert(r)
      PROVE  \A e \in Entries : status[e] = "dispatching" => status'[e] = "dispatching"
  <2>1. rows' \in Int /\ rows' > rows
    BY <1>7 DEF EnqueueInsert, TypeOK
  <2>2. \A e \in Entries : e = rows' => status[e] = "absent"
    BY <2>1 DEF TypeOK
  <2> QED
    BY <1>7, <2>2 DEF EnqueueInsert, TypeOK
<1>8. CASE Enqueue
  BY <1>4, <1>7, <1>8 DEF Enqueue, EnqueueInsert, EnqueueCheckDepth
<1>9. CASE Operator
  BY <1>4, <1>9 DEF Operator, CancelPending, SetConcurrencyCap, WithStatus
<1>10. CASE FetchBatch \/ CheckCap \/ BreakerRefuses \/ \E t \in Triggers : BreakerAdmits(t)
  BY <1>3, <1>5, <1>10 DEF FetchBatch, CheckCap, BreakerRefuses, BreakerAdmits
<1>11. CASE Claim
  <2>1. CASE status[Cur] = "pending"
    <3>1. status' = [status EXCEPT ![Cur] = "dispatching"] /\ batch' = batch
      BY <1>11, <2>1 DEF Claim, CAS
    <3>2. worker[Cur] = "none"
      BY <1>1, <1>11, <2>1 DEF Claim
    <3> QED
      BY <1>1, <1>2, <1>11, <3>1, <3>2 DEF Claim, TypeOK
  <2>2. CASE status[Cur] # "pending"
    BY <1>3, <1>5, <1>11, <2>2 DEF Claim, CAS
  <2> QED
    BY <2>1, <2>2
<1>12. CASE Spawn
  BY <1>1, <1>3, <1>12 DEF Spawn, TypeOK
<1>13. CASE BatchFails
  BY <1>5, <1>13 DEF BatchFails
<1>14. ASSUME NEW e \in Entries, Worker(e)
       PROVE  DownMeansIdle' /\ ThreadOwnsRow'
  BY <1>6, <1>14
  DEF Worker, TriggerMissing, StartWork, WorkReturns, WorkRaises, FinishCompleted,
      FinishFailed, Finish, Moves, CAS, TypeOK
<1>15. ASSUME NEW e \in Entries, StatementFails(e) \/ LastUpdateFails(e)
       PROVE  DownMeansIdle' /\ ThreadOwnsRow'
  BY <1>6, <1>15 DEF StatementFails, LastUpdateFails, Moves, TypeOK
<1>16. CASE Crash
  BY <1>16 DEF Crash
<1>17. CASE Restart \/ RestartWithoutRecovery
  BY <1>17 DEF Restart, RestartWithoutRecovery
<1>18. ASSUME NEW t \in Triggers, DeleteTrigger(t)
       PROVE  DownMeansIdle' /\ ThreadOwnsRow'
  BY <1>4, <1>18 DEF DeleteTrigger
<1>19. CASE UNCHANGED vars
  BY <1>4, <1>19 DEF vars
<1> QED
  BY <1>8, <1>9, <1>10, <1>11, <1>12, <1>13, <1>14, <1>15, <1>16, <1>17, <1>18, <1>19
  DEF Next, Dispatcher, Faulty, Environment

-----------------------------------------------------------------------------
(* The concurrency cap. Between the dispatcher's count and its claim, rows   *)
(* can only leave 'dispatching': the count it acted on is an upper bound.    *)

Running(t) == WithStatus(t, "dispatching")

(* The rows that are dispatching can be counted.                           *)
LEMMA RunningFinite ==
  ASSUME NEW t
  PROVE  IsFiniteSet(Running(t)) /\ Active(t) \in Nat
  BY RowsFinite DEF Running, WithStatus, Active

(* Steps in which no row becomes 'dispatching'.                              *)
LEMMA CapKept ==
  ASSUME TypeOK, TypeOK', ConcurrencyCap, CheckedCap,
         \A t \in Triggers : Running(t)' \subseteq Running(t),
         \A t \in Triggers : capPeak[t] <= capPeak'[t] /\ cap'[t] <= capPeak'[t],
         dpc' \in {"breaker", "claim"} =>
           /\ dpc \in {"breaker", "claim"}
           /\ Cur' = Cur /\ trig'[Cur] = trig[Cur]
  PROVE  ConcurrencyCap' /\ CheckedCap'
<1>1. ASSUME NEW t \in Triggers
      PROVE  Active(t)' <= Active(t) /\ Active(t) \in Nat /\ Active(t)' \in Nat
  <2>1. Cardinality(Running(t)') <= Cardinality(Running(t))
    BY RunningFinite, FS_Subset
  <2>2. Cardinality(Running(t)') \in Nat
    BY RunningFinite, FS_Subset, FS_CardinalityType
  <2> QED
    BY <2>1, <2>2, RunningFinite DEF Active, Running
<1>2. \A t \in Triggers : capPeak[t] \in Nat /\ capPeak'[t] \in Nat
  BY DEF TypeOK
<1>3. ConcurrencyCap'
  BY <1>1, <1>2 DEF ConcurrencyCap
<1>4. ASSUME dpc' \in {"breaker", "claim"}
      PROVE  Active(trig[Cur])' < capPeak'[trig[Cur]] /\ trig'[Cur'] = trig[Cur]
  <2>1. trig[Cur] \in Triggers
    BY <1>4, CurHasTrigger
  <2> QED
    BY <1>1, <1>2, <1>4, <2>1 DEF CheckedCap
<1> QED
  BY <1>3, <1>4 DEF CheckedCap, Active, WithStatus

(* Every step keeps the cap, and the free slot behind a cap check that     *)
(* passed.                                                                 *)
LEMMA CapStep ==
  ASSUME TypeOK, TypeOK', ConcurrencyCap, CheckedCap, [Next]_vars
  PROVE  ConcurrencyCap' /\ CheckedCap'
<1> USE DEF db, mem, envVars
<1>1. \A t \in Triggers : /\ cap[t] <= capPeak[t] /\ capPeak[t] <= capPeak[t]
                          /\ cap[t] \in Nat /\ capPeak[t] \in Nat /\ capPeak[t] >= 1
  BY DEF CheckedCap, TypeOK
<1>2. batch' = batch => Cur' = Cur
  BY DEF Cur
<1>3. dpc # "sleep" => Cur \in Entries /\ trig[Cur] \in Triggers /\ status[Cur] # "absent"
  BY CurHasTrigger
<1>4. ASSUME UNCHANGED <<trig, cap, capPeak>>, dpc' \notin {"breaker", "claim"},
             \A e \in Entries : status'[e] = "dispatching" => status[e] = "dispatching"
      PROVE  ConcurrencyCap' /\ CheckedCap'
  BY <1>1, <1>4, CapKept DEF Running, WithStatus
<1>5. ASSUME UNCHANGED <<trig, cap, capPeak, dpc, batch>>,
             \A e \in Entries : status'[e] = "dispatching" => status[e] = "dispatching"
      PROVE  ConcurrencyCap' /\ CheckedCap'
  BY <1>1, <1>2, <1>5, CapKept DEF Running, WithStatus
<1>6. NextEntry => dpc' \notin {"breaker", "claim"}
  BY DEF NextEntry
<1>7. ASSUME NEW r \in Requests, EnqueueInsert(r)
      PROVE  ConcurrencyCap' /\ CheckedCap'
  <2>1. rows' \in Entries /\ rows' \in Int /\ rows' > rows
    BY <1>7, EntriesAssumption DEF EnqueueInsert, TypeOK, Entries
  <2>2. status[rows'] = "absent"
    BY <2>1 DEF TypeOK
  <2>3. \A e \in Entries : e # rows' => status'[e] = status[e] /\ trig'[e] = trig[e]
    BY <1>7, <2>1 DEF EnqueueInsert, TypeOK
  <2>4. status'[rows'] = "pending"
    BY <1>7, <2>1 DEF EnqueueInsert, TypeOK
  <2>5. \A t \in Triggers : Running(t)' \subseteq Running(t)
    BY <2>3, <2>4 DEF Running, WithStatus
  <2>6. dpc # "sleep" => trig'[Cur] = trig[Cur]
    BY <1>3, <2>2, <2>3
  <2> QED
    BY <1>1, <1>2, <1>7, <2>5, <2>6, CapKept DEF EnqueueInsert
<1>8. ASSUME NEW t \in Triggers, NEW c \in CapChoices, SetConcurrencyCap(t, c)
      PROVE  ConcurrencyCap' /\ CheckedCap'
  <2>1. \A u \in Triggers : u # t => cap'[u] = cap[u] /\ capPeak'[u] = capPeak[u]
    BY <1>8 DEF SetConcurrencyCap, TypeOK
  <2>2. capPeak[t] <= capPeak'[t] /\ cap'[t] <= capPeak'[t]
    BY <1>1, <1>8, CapAssumption DEF SetConcurrencyCap, TypeOK
  <2>3. \A u \in Triggers : capPeak[u] <= capPeak'[u] /\ cap'[u] <= capPeak'[u]
    BY <1>1, <2>1, <2>2
  <2>4. \A u \in Triggers : Running(u)' \subseteq Running(u)
    BY <1>8 DEF SetConcurrencyCap, Running, WithStatus
  <2> QED
    BY <1>2, <1>8, <2>3, <2>4, CapKept DEF SetConcurrencyCap
<1>9. CASE Enqueue
  BY <1>5, <1>7, <1>9 DEF Enqueue, EnqueueCheckDepth
<1>10. ASSUME NEW t \in Triggers, CancelPending(t)
       PROVE  ConcurrencyCap' /\ CheckedCap'
  BY <1>5, <1>10 DEF CancelPending
<1>11. CASE CheckCap
  <2>1. CASE Active(trig[Cur]) >= cap[trig[Cur]]
    BY <1>4, <1>6, <1>11, <2>1 DEF CheckCap
  <2>2. CASE ~(Active(trig[Cur]) >= cap[trig[Cur]])
    <3>1. trig[Cur] \in Triggers /\ Active(trig[Cur]) \in Nat
      BY <1>3, <1>11, RunningFinite DEF CheckCap
    <3>2. Active(trig[Cur]) < capPeak[trig[Cur]]
      BY <1>1, <2>2, <3>1
    <3> QED
      BY <1>1, <1>2, <1>11, <2>2, <3>2
      DEF CheckCap, ConcurrencyCap, CheckedCap, Active, WithStatus
  <2> QED
    BY <2>1, <2>2
<1>12. ASSUME NEW t \in Triggers, BreakerAdmits(t)
       PROVE  ConcurrencyCap' /\ CheckedCap'
  BY <1>1, <1>2, <1>12, CapKept DEF BreakerAdmits, Running, WithStatus
<1>13. CASE Claim
  <2>1. CASE status[Cur] = "pending"
    <3>1. PICK t \in Triggers, c \in Entries :
             t = trig[Cur] /\ c = Cur /\ dpc = "claim" /\ dpc' = "spawn"
      BY <1>3, <1>13, <2>1 DEF Claim
    <3>2. status' = [status EXCEPT ![c] = "dispatching"] /\ UNCHANGED <<trig, cap, capPeak>>
      BY <1>13, <2>1, <3>1 DEF Claim, CAS
    <3>3. Running(t)' = Running(t) \cup {c}
      BY <3>1, <3>2 DEF Running, WithStatus, TypeOK
    <3>4. Active(t) < capPeak[t]
      BY <1>3, <3>1 DEF CheckedCap
    <3>5. Cardinality(Running(t)') <= Cardinality(Running(t)) + 1
      <4>1. IsFiniteSet(Running(t)) /\ Cardinality(Running(t)) \in Nat
        BY RunningFinite DEF Active, Running
      <4>2. Cardinality(Running(t) \cup {c}) = IF c \in Running(t)
              THEN Cardinality(Running(t)) ELSE Cardinality(Running(t)) + 1
        BY <4>1, FS_AddElement, Zenon
      <4> QED
        BY <3>3, <4>1, <4>2
    <3>6. Cardinality(Running(t)') \in Nat
      BY <3>3, RunningFinite, FS_AddElement, FS_CardinalityType
    <3>7. Cardinality(Running(t)') <= capPeak[t]
      BY <1>1, <3>1, <3>4, <3>5, <3>6, RunningFinite DEF Active, Running
    <3>8. \A u \in Triggers : u # t => Running(u)' = Running(u)
      BY <3>1, <3>2 DEF Running, WithStatus, TypeOK
    <3>9. \A u \in Triggers : Cardinality(Running(u)') <= capPeak[u]
      BY <3>7, <3>8 DEF ConcurrencyCap, Active, Running
    <3> QED
      BY <1>1, <3>1, <3>2, <3>9
      DEF ConcurrencyCap, CheckedCap, Active, Running, WithStatus
  <2>2. CASE status[Cur] # "pending"
    BY <1>4, <1>6, <1>13, <2>2 DEF Claim, CAS
  <2> QED
    BY <2>1, <2>2
<1>14. CASE FetchBatch \/ BreakerRefuses \/ Spawn \/ BatchFails
  BY <1>4, <1>6, <1>14 DEF FetchBatch, BreakerRefuses, Spawn, BatchFails
<1>15. ASSUME NEW e \in Entries,
              Worker(e) \/ StatementFails(e) \/ LastUpdateFails(e)
       PROVE  ConcurrencyCap' /\ CheckedCap'
  BY <1>5, <1>15
  DEF Worker, TriggerMissing, StartWork, WorkReturns, WorkRaises, FinishCompleted,
      FinishFailed, Finish, CAS, StatementFails, LastUpdateFails, TypeOK
<1>16. CASE Crash
  <2>1. \A t \in Triggers : cap'[t] <= capPeak'[t] /\ capPeak'[t] = capPeak[t]
    BY <1>1, <1>16 DEF Crash, DefaultCap
  <2> QED
    BY <1>1, <1>16, <2>1, CapKept DEF Crash, Running, WithStatus
<1>17. CASE Restart \/ RestartWithoutRecovery
  BY <1>5, <1>17 DEF Restart, RestartWithoutRecovery, TypeOK
<1>18. ASSUME NEW t \in Triggers, DeleteTrigger(t)
       PROVE  ConcurrencyCap' /\ CheckedCap'
  BY <1>5, <1>18 DEF DeleteTrigger
<1>19. CASE UNCHANGED vars
  BY <1>5, <1>19 DEF vars
<1> QED
  BY <1>8, <1>9, <1>10, <1>11, <1>12, <1>13, <1>14, <1>15, <1>16, <1>17, <1>18, <1>19
  DEF Next, Operator, Dispatcher, Faulty, Environment

(* The invariants above, which together are inductive.                       *)
Inv == TypeOK /\ DownMeansIdle /\ ThreadOwnsRow /\ ConcurrencyCap /\ CheckedCap

(* An empty table satisfies the invariants.                                *)
LEMMA InvInit == Init => Inv
<1>1. ASSUME Init, NEW t \in Triggers  PROVE Active(t) = 0
  <2>1. WithStatus(t, "dispatching") = {}
    BY <1>1 DEF Init, WithStatus
  <2> QED
    BY <2>1, FS_EmptySet DEF Active
<1> QED
  BY <1>1, TypeOKInit DEF Init, Inv, DownMeansIdle, ThreadOwnsRow, ConcurrencyCap,
                          CheckedCap, DefaultCap

(* Every step keeps them.                                                  *)
LEMMA InvStep == Inv /\ [Next]_vars => Inv'
  BY TypeOKStep, OwnershipStep, CapStep DEF Inv

(* No trigger ever has more rows dispatching than its largest cap.           *)
THEOREM CapHolds == Spec => []ConcurrencyCap
<1>1. Inv => ConcurrencyCap
  BY DEF Inv
<1> QED
  BY <1>1, InvInit, InvStep, PTL DEF Spec

(* A live thread owns its row in every reachable state.                      *)
THEOREM OwnershipHolds == Spec => []ThreadOwnsRow
<1>1. Inv => ThreadOwnsRow
  BY DEF Inv
<1> QED
  BY <1>1, InvInit, InvStep, PTL DEF Spec

-----------------------------------------------------------------------------
(* The refinement: each step of the queue is a step of JobQueue or leaves    *)
(* the job states, their owners and the limits alone.                        *)

JobState == [e \in Entries |-> Phase[status[e]]]

(* The job state of each status of a row.                                  *)
LEMMA PhaseValues ==
  /\ Phase["absent"] = "new" /\ Phase["pending"] = "waiting"
  /\ Phase["dispatching"] = "running" /\ Phase["cancelled"] = "withdrawn"
  /\ Phase["completed"] = "done" /\ Phase["failed"] = "done"
  /\ \A s \in Status : /\ Phase[s] = "running" <=> s = "dispatching"
                       /\ Phase[s] = "waiting" <=> s = "pending"
  BY DEF Phase, Status, Live, Terminal

(* Every step of the queue is one of JobQueue or changes nothing there.    *)
LEMMA RefinementStep ==
  ASSUME TypeOK, TypeOK', ThreadOwnsRow, CheckedCap, [Next]_vars
  PROVE  [JQ!Next]_(JQ!vars)
<1> USE DEF db, mem, envVars
<1> DEFINE Stutter == UNCHANGED <<status, trig, capPeak>>
<1>1. Stutter => UNCHANGED JQ!vars
  BY DEF JQ!vars
<1>2. ASSUME NEW r \in Requests, EnqueueInsert(r)
      PROVE  JQ!Next
  <2>1. PICK j \in Entries, o \in Triggers : j = rows' /\ o = checked[r]
    BY <1>2, EntriesAssumption DEF EnqueueInsert, TypeOK, Entries
  <2>2. status[j] = "absent"
    BY <1>2, <2>1 DEF EnqueueInsert, TypeOK
  <2>3. status' = [status EXCEPT ![j] = "pending"] /\ trig' = [trig EXCEPT ![j] = o]
    BY <1>2, <2>1 DEF EnqueueInsert
  <2>4. JobState' = [JobState EXCEPT ![j] = "waiting"]
    BY <2>3, PhaseValues DEF JobState, TypeOK
  <2>5. JQ!Submit(j, o)
    BY <1>2, <2>2, <2>3, <2>4, PhaseValues DEF JQ!Submit, JobState, EnqueueInsert
  <2> QED
    BY <2>1, <2>5 DEF JQ!Next
<1>3. ASSUME NEW t \in Triggers, CancelPending(t)
      PROVE  JQ!Next
  <2>1. JobState' = [j \in Entries |-> IF trig[j] = t /\ JobState[j] = "waiting"
                                       THEN "withdrawn" ELSE JobState[j]]
    BY <1>3, PhaseValues DEF CancelPending, WithStatus, JobState, TypeOK
  <2>2. JQ!Withdraw(t)
    BY <1>3, <2>1 DEF JQ!Withdraw, JobState, CancelPending
  <2> QED
    BY <2>2 DEF JQ!Next
<1>4. ASSUME NEW t \in Triggers, NEW c \in CapChoices, SetConcurrencyCap(t, c)
      PROVE  JQ!Next \/ Stutter
  <2>1. \A u \in Triggers \ {t} : capPeak'[u] = capPeak[u]
    BY <1>4 DEF SetConcurrencyCap, TypeOK
  <2>2. CASE capPeak'[t] = capPeak[t]
    BY <1>4, <2>1, <2>2 DEF SetConcurrencyCap, TypeOK
  <2>3. CASE capPeak'[t] # capPeak[t]
    <3>1. capPeak' \in [Triggers -> Nat] /\ capPeak'[t] > capPeak[t]
      BY <1>4, <2>3 DEF SetConcurrencyCap, TypeOK
    <3>2. JQ!RaiseLimit(t)
      BY <1>4, <2>1, <3>1 DEF JQ!RaiseLimit, SetConcurrencyCap
    <3> QED
      BY <3>2 DEF JQ!Next
  <2> QED
    BY <2>2, <2>3
<1>5. CASE Enqueue \/ Operator
  BY <1>1, <1>2, <1>3, <1>4, <1>5 DEF Enqueue, EnqueueCheckDepth, Operator
<1>6. CASE Claim
  <2>1. CASE status[Cur] = "pending"
    <3>1. PICK j \in Entries, o \in Triggers : j = Cur /\ o = trig[j]
      BY <1>6, CurHasTrigger DEF Claim
    <3>2. status' = [status EXCEPT ![j] = "dispatching"]
      BY <1>6, <2>1, <3>1 DEF Claim, CAS
    <3>3. JobState' = [JobState EXCEPT ![j] = "running"]
      BY <3>2, PhaseValues DEF JobState, TypeOK
    <3>4. JQ!RunningOf(o) = Running(o)
      BY PhaseValues DEF JQ!RunningOf, Running, WithStatus, TypeOK
    <3>5. JQ!Cardinality(JQ!RunningOf(o)) < capPeak[o]
      <4>1. Cardinality(Running(o)) < capPeak[o]
        BY <1>6, <3>1 DEF Claim, CheckedCap, Active, Running
      <4>2. JQ!Cardinality(Running(o)) = Cardinality(Running(o))
        BY DEF JQ!Cardinality, Cardinality
      <4> QED
        BY <3>4, <4>1, <4>2
    <3>6. JobState[j] = "waiting"
      BY <2>1, <3>1, PhaseValues DEF JobState
    <3>7. JQ!Start(j)
      BY <1>6, <3>1, <3>3, <3>5, <3>6 DEF JQ!Start, JobState, Claim
    <3> QED
      BY <3>1, <3>7 DEF JQ!Next
  <2>2. CASE status[Cur] # "pending"
    BY <1>1, <1>6, <2>2 DEF Claim, CAS
  <2> QED
    BY <2>1, <2>2
<1>7. ASSUME NEW e \in Entries, NEW new \in {"completed", "failed"}, worker[e] # "none",
             CAS(e, "dispatching", new), UNCHANGED <<trig, capPeak>>
      PROVE  JQ!Next
  <2>1. status' = [status EXCEPT ![e] = new] /\ JobState[e] = "running"
    BY <1>7, PhaseValues DEF CAS, ThreadOwnsRow, JobState
  <2>2. JobState' = [JobState EXCEPT ![e] = "done"]
    <3>1. Phase[new] = "done"
      BY <1>7, PhaseValues
    <3> QED
      BY <2>1, <3>1 DEF JobState, TypeOK
  <2>3. JQ!End(e)
    BY <1>7, <2>1, <2>2 DEF JQ!End, JobState
  <2> QED
    BY <2>3 DEF JQ!Next
<1>8. ASSUME NEW e \in Entries,
             Worker(e) \/ StatementFails(e) \/ LastUpdateFails(e)
      PROVE  JQ!Next \/ Stutter
  BY <1>7, <1>8
  DEF Worker, TriggerMissing, StartWork, WorkReturns, WorkRaises, FinishCompleted,
      FinishFailed, Finish, Moves, StatementFails, LastUpdateFails
<1>9. CASE Restart
  <2>1. JobState' = [j \in Entries |-> IF JobState[j] = "running"
                                       THEN "waiting" ELSE JobState[j]]
    <3>1. ASSUME NEW j \in Entries
          PROVE  Phase[status'[j]] = IF Phase[status[j]] = "running"
                                     THEN "waiting" ELSE Phase[status[j]]
      <4>1. status[j] \in Status
        BY DEF TypeOK
      <4>2. status'[j] = IF status[j] = "dispatching" THEN "pending" ELSE status[j]
        BY <1>9 DEF Restart
      <4> QED
        BY <4>1, <4>2, PhaseValues
    <3> QED
      BY <3>1 DEF JobState
  <2>2. JQ!Recover
    BY <1>9, <2>1 DEF JQ!Recover, JobState, Restart
  <2> QED
    BY <2>2 DEF JQ!Next
<1>10. ASSUME \/ FetchBatch \/ CheckCap \/ BreakerRefuses \/ Spawn \/ BatchFails
              \/ Crash \/ RestartWithoutRecovery \/ UNCHANGED vars
              \/ \E t \in Triggers : BreakerAdmits(t) \/ DeleteTrigger(t)
       PROVE  Stutter
  BY <1>10 DEF FetchBatch, CheckCap, BreakerRefuses, Spawn, BatchFails, Crash,
               RestartWithoutRecovery, BreakerAdmits, DeleteTrigger, vars
<1> QED
  BY <1>1, <1>5, <1>6, <1>8, <1>9, <1>10 DEF Next, Dispatcher, Faulty, Environment

(* The queue implements the abstract at-least-once job queue.                *)
THEOREM QueueIsJobQueue == Spec => IsJobQueue
<1>1. Init => JQ!Init
  BY PhaseValues DEF Init, JQ!Init, DefaultCap
<1>2. Inv /\ Inv' /\ [Next]_vars => [JQ!Next]_(JQ!vars)
  BY RefinementStep DEF Inv
<1> QED
  BY <1>1, <1>2, InvInit, InvStep, PTL DEF Spec, IsJobQueue, JQ!Spec

(* A row that ended or was withdrawn is never heard of again and no row      *)
(* changes its trigger: neither a restart's sweep nor a worker that comes    *)
(* late takes an end back.                                                   *)
EndedForGood ==
  [][\A e \in Entries :
       /\ JobState[e] \in {"done", "withdrawn"} => JobState'[e] = JobState[e]
       /\ JobState[e] # "new" => trig'[e] = trig[e]]_vars

(* It follows from what JobQueue allows.                                     *)
THEOREM QueueEndsForGood == Spec => EndedForGood
<1>1. Inv /\ Inv' /\ [Next]_vars =>
        [\A e \in Entries :
           /\ JobState[e] \in {"done", "withdrawn"} => JobState'[e] = JobState[e]
           /\ JobState[e] # "new" => trig'[e] = trig[e]]_vars
  <2> SUFFICES ASSUME Inv, Inv', [Next]_vars, NEW e \in Entries
               PROVE  /\ JobState[e] \in {"done", "withdrawn"} => JobState'[e] = JobState[e]
                      /\ JobState[e] # "new" => trig'[e] = trig[e]
    OBVIOUS
  <2>1. [JQ!Next]_(JQ!vars)
    BY RefinementStep DEF Inv
  <2>2. DOMAIN trig = Entries /\ trig \in [Entries -> Triggers \cup {NoTrigger}]
    BY DEF Inv, TypeOK
  <2> QED
    BY <2>1, <2>2 DEF JQ!Next, JQ!vars, JQ!Submit, JQ!Withdraw, JQ!Start, JQ!End, JQ!Recover,
                      JQ!RaiseLimit, JobState
<1> QED
  BY <1>1, InvInit, InvStep, PTL DEF Spec, EndedForGood

-----------------------------------------------------------------------------
(* How far the queue of a trigger can outgrow MaxDepth. Claiming, recovering *)
(* and failing move a row between 'pending' and 'dispatching' or out of      *)
(* both, so only the handlers inside enqueue() can add to the sum.           *)

LiveRows(t) == {e \in Entries : trig[e] = t /\ status[e] \in Live}

(* Waiting and dispatching rows are the live rows, and all of it can be    *)
(* counted.                                                                *)
LEMMA DepthSum ==
  ASSUME NEW t
  PROVE  /\ Depth(t) + Active(t) = Cardinality(LiveRows(t))
         /\ IsFiniteSet(LiveRows(t)) /\ Cardinality(LiveRows(t)) \in Nat
         /\ IsFiniteSet(InEnqueue(t)) /\ Cardinality(InEnqueue(t)) \in Nat
         /\ Cardinality(InEnqueue(t)) <= Cardinality(Requests)
         /\ Cardinality(Requests) \in Nat /\ Depth(t) \in Nat /\ Active(t) \in Nat
<1> DEFINE P == WithStatus(t, "pending")
           D == WithStatus(t, "dispatching")
<1>1. IsFiniteSet(P) /\ IsFiniteSet(D) /\ Cardinality(P) \in Nat /\ Cardinality(D) \in Nat
  BY RowsFinite DEF WithStatus
<1>2. P \cap D = {} /\ LiveRows(t) = P \cup D
  BY DEF WithStatus, LiveRows, Live
<1>3. Cardinality(P \cap D) = 0
  BY <1>2, FS_EmptySet
<1>4. Cardinality(P \cup D) = Cardinality(P) + Cardinality(D) - Cardinality(P \cap D)
  <2> HIDE DEF P, D
  <2> QED
    BY <1>1, FS_Union
<1>5. Cardinality(P) + Cardinality(D) = Cardinality(LiveRows(t))
  <2> HIDE DEF P, D
  <2> QED
    BY <1>1, <1>2, <1>3, <1>4
<1>6. InEnqueue(t) \subseteq Requests
  BY DEF InEnqueue
<1>7. /\ IsFiniteSet(InEnqueue(t)) /\ Cardinality(InEnqueue(t)) <= Cardinality(Requests)
      /\ Cardinality(InEnqueue(t)) \in Nat /\ Cardinality(Requests) \in Nat
  BY <1>6, RequestsAssumption, FS_Subset, FS_CardinalityType
<1>8. IsFiniteSet(LiveRows(t)) /\ Cardinality(LiveRows(t)) \in Nat
  BY RowsFinite DEF LiveRows
<1> QED
  BY <1>1, <1>5, <1>7, <1>8 DEF Depth, Active

(* Two finite sets with nothing in common: their sizes add up.             *)
LEMMA DisjointCardinality ==
  ASSUME NEW P, NEW D, IsFiniteSet(P), IsFiniteSet(D), P \cap D = {}
  PROVE  Cardinality(P \cup D) = Cardinality(P) + Cardinality(D)
<1>1. Cardinality(P) \in Nat /\ Cardinality(D) \in Nat
  BY FS_CardinalityType
<1>2. Cardinality(P \cup D) = Cardinality(P) + Cardinality(D) - Cardinality({})
  BY FS_Union
<1>3. Cardinality({}) = 0
  BY FS_EmptySet
<1> QED
  BY <1>1, <1>2, <1>3

(* Every step keeps the overrun within its bound.                          *)
LEMMA DepthStep ==
  ASSUME TypeOK, TypeOK', ThreadOwnsRow, ConcurrencyCap, DepthOverrunBounded,
         [Next]_vars
  PROVE  DepthOverrunBounded'
<1> USE DEF db, mem, envVars
<1> DEFINE Sum(t) == Cardinality(LiveRows(t)) + Cardinality(InEnqueue(t))
           Bound  == MaxDepth + Cardinality(Requests) - 1
<1>1. Bound \in Int
  BY LimitAssumption, DepthSum
<1>2. SUFFICES ASSUME NEW t \in Triggers
               PROVE  Cardinality(LiveRows(t)') + Cardinality(InEnqueue(t)')
                        <= Bound + capPeak'[t]
  <2>1. ASSUME NEW t \in Triggers
        PROVE  /\ Depth(t)' + Active(t)' = Cardinality(LiveRows(t)')
               /\ Cardinality(LiveRows(t)') \in Nat /\ Cardinality(InEnqueue(t)') \in Nat
               /\ Depth(t)' \in Nat /\ Active(t)' \in Nat
    <3>1. /\ IsFiniteSet(WithStatus(t, "pending")') /\ IsFiniteSet(WithStatus(t, "dispatching")')
          /\ Cardinality(WithStatus(t, "pending")') \in Nat
          /\ Cardinality(WithStatus(t, "dispatching")') \in Nat
          /\ Cardinality(LiveRows(t)') \in Nat
      BY RowsFinite DEF WithStatus, LiveRows, Entries
    <3>2. /\ WithStatus(t, "pending")' \cap WithStatus(t, "dispatching")' = {}
          /\ LiveRows(t)' = WithStatus(t, "pending")' \cup WithStatus(t, "dispatching")'
      BY DEF WithStatus, LiveRows, Live
    <3>3. Cardinality(LiveRows(t)') = Cardinality(WithStatus(t, "pending")')
                                      + Cardinality(WithStatus(t, "dispatching")')
      BY <3>1, <3>2, DisjointCardinality, Zenon
    <3>4. Cardinality(InEnqueue(t)') \in Nat
      BY RequestsAssumption, FS_Subset, FS_CardinalityType DEF InEnqueue
    <3> QED
      BY <3>1, <3>3, <3>4 DEF Depth, Active
  <2> QED
    BY <2>1 DEF DepthOverrunBounded
<1>3. /\ Sum(t) <= Bound + capPeak[t] /\ Active(t) <= capPeak[t]
      /\ capPeak[t] \in Nat /\ Depth(t) + Active(t) = Cardinality(LiveRows(t))
      /\ Cardinality(LiveRows(t)) \in Nat /\ Cardinality(InEnqueue(t)) \in Nat
      /\ IsFiniteSet(LiveRows(t)) /\ IsFiniteSet(InEnqueue(t))
      /\ Depth(t) \in Nat /\ Active(t) \in Nat
  BY DepthSum DEF DepthOverrunBounded, ConcurrencyCap, TypeOK
<1>4. ASSUME LiveRows(t)' \subseteq LiveRows(t), InEnqueue(t)' \subseteq InEnqueue(t),
             capPeak'[t] \in Nat, capPeak[t] <= capPeak'[t]
      PROVE  Cardinality(LiveRows(t)') + Cardinality(InEnqueue(t)') <= Bound + capPeak'[t]
  <2>1. /\ Cardinality(LiveRows(t)') <= Cardinality(LiveRows(t))
        /\ Cardinality(InEnqueue(t)') <= Cardinality(InEnqueue(t))
        /\ Cardinality(LiveRows(t)') \in Nat /\ Cardinality(InEnqueue(t)') \in Nat
    BY <1>3, <1>4, FS_Subset, FS_CardinalityType
  <2> QED
    BY <1>1, <1>3, <1>4, <2>1
<1>5. ASSUME UNCHANGED <<trig, checked, capPeak>>,
             \A e \in Entries : status'[e] \in Live => status[e] \in Live
      PROVE  Cardinality(LiveRows(t)') + Cardinality(InEnqueue(t)') <= Bound + capPeak'[t]
  BY <1>3, <1>4, <1>5 DEF LiveRows, InEnqueue
<1>6. ASSUME NEW r \in Requests, NEW u \in Triggers, EnqueueCheckDepth(r, u)
      PROVE  Cardinality(LiveRows(t)') + Cardinality(InEnqueue(t)') <= Bound + capPeak'[t]
  <2>1. LiveRows(t)' = LiveRows(t) /\ capPeak' = capPeak
    BY <1>6 DEF EnqueueCheckDepth, LiveRows
  <2>2. CASE u = t /\ Depth(t) < MaxDepth
    <3>1. Cardinality(InEnqueue(t)') <= Cardinality(Requests)
          /\ Cardinality(InEnqueue(t)') \in Nat /\ Cardinality(Requests) \in Nat
      BY RequestsAssumption, FS_Subset, FS_CardinalityType DEF InEnqueue
    <3> QED
      BY <1>3, <2>1, <2>2, <3>1, LimitAssumption
  <2>3. CASE u # t \/ Depth(t) >= MaxDepth
    <3>1. InEnqueue(t)' \subseteq InEnqueue(t)
      BY <1>6, <2>3, LimitAssumption, DepthSum DEF EnqueueCheckDepth, InEnqueue, TypeOK
    <3> QED
      BY <1>3, <1>4, <2>1, <3>1
  <2> QED
    BY <1>3, <2>2, <2>3, LimitAssumption
<1>7. ASSUME NEW r \in Requests, EnqueueInsert(r)
      PROVE  Cardinality(LiveRows(t)') + Cardinality(InEnqueue(t)') <= Bound + capPeak'[t]
  <2>1. PICK j \in Entries, o \in Triggers : j = rows' /\ o = checked[r]
    BY <1>7, EntriesAssumption DEF EnqueueInsert, TypeOK, Entries
  <2>2. status[j] = "absent"
    BY <1>7, <2>1 DEF EnqueueInsert, TypeOK
  <2>3. /\ status' = [status EXCEPT ![j] = "pending"] /\ trig' = [trig EXCEPT ![j] = o]
        /\ checked' = [checked EXCEPT ![r] = NoTrigger] /\ capPeak' = capPeak
    BY <1>7, <2>1 DEF EnqueueInsert
  <2>4. CASE o # t
    <3>1. LiveRows(t)' \subseteq LiveRows(t) /\ InEnqueue(t)' \subseteq InEnqueue(t)
      BY <2>1, <2>2, <2>3, <2>4, RequestsAssumption DEF LiveRows, InEnqueue, Live, TypeOK
    <3> QED
      BY <1>3, <1>4, <2>3, <3>1
  <2>5. CASE o = t
    <3>1. LiveRows(t)' = LiveRows(t) \cup {j} /\ j \notin LiveRows(t)
      BY <2>1, <2>2, <2>3, <2>5 DEF LiveRows, Live, TypeOK
    <3>2. InEnqueue(t)' = InEnqueue(t) \ {r} /\ r \in InEnqueue(t)
      BY <2>1, <2>3, <2>5, RequestsAssumption DEF InEnqueue, TypeOK
    <3>3. Cardinality(LiveRows(t) \cup {j}) = Cardinality(LiveRows(t)) + 1
      BY <1>3, <3>1, FS_AddElement
    <3>4. Cardinality(InEnqueue(t) \ {r}) = Cardinality(InEnqueue(t)) - 1
      BY <1>3, <3>2, FS_RemoveElement
    <3> QED
      BY <1>1, <1>3, <2>3, <3>1, <3>2, <3>3, <3>4
  <2> QED
    BY <2>4, <2>5
<1>8. ASSUME NEW u \in Triggers, NEW c \in CapChoices, SetConcurrencyCap(u, c)
      PROVE  Cardinality(LiveRows(t)') + Cardinality(InEnqueue(t)') <= Bound + capPeak'[t]
  <2>1. capPeak[t] <= capPeak'[t] /\ capPeak'[t] \in Nat
    BY <1>3, <1>8, CapAssumption DEF SetConcurrencyCap, TypeOK
  <2>2. LiveRows(t)' = LiveRows(t) /\ InEnqueue(t)' = InEnqueue(t)
    BY <1>8 DEF SetConcurrencyCap, LiveRows, InEnqueue
  <2> QED
    BY <1>4, <2>1, <2>2
<1>9. ASSUME NEW u \in Triggers, CancelPending(u)
      PROVE  Cardinality(LiveRows(t)') + Cardinality(InEnqueue(t)') <= Bound + capPeak'[t]
  BY <1>5, <1>9 DEF CancelPending, Live
<1>10. CASE Claim
  BY <1>5, <1>10, CurHasTrigger DEF Claim, CAS, Live, TypeOK
<1>11. ASSUME NEW e \in Entries, Worker(e) \/ StatementFails(e) \/ LastUpdateFails(e)
       PROVE  Cardinality(LiveRows(t)') + Cardinality(InEnqueue(t)') <= Bound + capPeak'[t]
  BY <1>5, <1>11
  DEF Worker, TriggerMissing, StartWork, WorkReturns, WorkRaises, FinishCompleted,
      FinishFailed, Finish, CAS, StatementFails, LastUpdateFails, Live, TypeOK
<1>12. CASE Crash
  <2>1. LiveRows(t)' = LiveRows(t) /\ capPeak' = capPeak
    BY <1>12 DEF Crash, LiveRows
  <2>2. InEnqueue(t)' \subseteq InEnqueue(t)
    BY <1>12, RequestsAssumption DEF Crash, InEnqueue
  <2> QED
    BY <1>3, <1>4, <2>1, <2>2
<1>13. CASE Restart
  BY <1>5, <1>13 DEF Restart, Live
<1>14. ASSUME \/ FetchBatch \/ CheckCap \/ BreakerRefuses \/ Spawn \/ BatchFails
              \/ RestartWithoutRecovery \/ UNCHANGED vars
              \/ \E u \in Triggers : BreakerAdmits(u) \/ DeleteTrigger(u)
       PROVE  Cardinality(LiveRows(t)') + Cardinality(InEnqueue(t)') <= Bound + capPeak'[t]
  BY <1>5, <1>14 DEF FetchBatch, CheckCap, BreakerRefuses, Spawn, BatchFails,
               RestartWithoutRecovery, BreakerAdmits, DeleteTrigger, vars
<1> QED
  BY <1>6, <1>7, <1>8, <1>9, <1>10, <1>11, <1>12, <1>13, <1>14
  DEF Next, Enqueue, Operator, Dispatcher, Faulty, Environment

(* A trigger's queue outgrows MaxDepth by less than the handlers that may be *)
(* inside enqueue() at once plus its largest cap.                            *)
THEOREM DepthOverrunHolds == Spec => []DepthOverrunBounded
<1>1. Init => DepthOverrunBounded
  <2>1. SUFFICES ASSUME Init  PROVE DepthOverrunBounded
    OBVIOUS
  <2>2. ASSUME NEW t \in Triggers
        PROVE  WithStatus(t, "dispatching") = {} /\ WithStatus(t, "pending") = {}
               /\ InEnqueue(t) = {}
    BY <2>1, RequestsAssumption DEF Init, WithStatus, InEnqueue
  <2>3. \A t \in Triggers : Active(t) = 0 /\ Depth(t) = 0 /\ Cardinality(InEnqueue(t)) = 0
    BY <2>2, FS_EmptySet DEF Active, Depth
  <2>4. Cardinality(Requests) \in Nat
    BY RequestsAssumption, FS_CardinalityType
  <2>5. \A t \in Triggers : capPeak[t] = 1
    BY <2>1 DEF Init, DefaultCap
  <2> QED
    BY <2>3, <2>4, <2>5, LimitAssumption DEF DepthOverrunBounded
<1>2. Inv /\ Inv' /\ DepthOverrunBounded /\ [Next]_vars => DepthOverrunBounded'
  BY DepthStep DEF Inv
<1> QED
  BY <1>1, <1>2, InvInit, InvStep, PTL DEF Spec

-----------------------------------------------------------------------------
(* Executed again only after a restart. A row that may still be started, now *)
(* or after the server has come up again, has runs to spare.                 *)

RunsToSpare ==
  \A e \in Entries :
    /\ runs[e] <= 1 + restarts
    /\ (\/ ~up
        \/ status[e] \in {"absent", "pending"}
        \/ worker[e] = "started"
        \/ dpc = "spawn" /\ e = Cur) => runs[e] <= restarts

(* Every step keeps the spare run of the rows that may need it.              *)
LEMMA RunsStep ==
  ASSUME TypeOK, DownMeansIdle, ThreadOwnsRow, RunsToSpare, [Next]_vars
  PROVE  RunsToSpare'
<1> USE DEF db, mem, envVars
<1>1. dpc # "sleep" => Cur \in batch /\ Cur \in Entries
  BY CurHasTrigger
<1>2. batch' = batch => Cur' = Cur
  BY DEF Cur
<1>3. NextEntry => dpc' # "spawn"
  BY DEF NextEntry
<1>4. restarts \in Nat /\ runs \in [Entries -> Nat]
  BY DEF TypeOK
<1>5. ASSUME UNCHANGED <<runs, restarts>>,
             \A e \in Entries :
               (\/ ~up'
                \/ status'[e] \in {"absent", "pending"}
                \/ worker'[e] = "started"
                \/ dpc' = "spawn" /\ e = Cur')
               => (\/ ~up
                   \/ status[e] \in {"absent", "pending"}
                   \/ worker[e] = "started"
                   \/ dpc = "spawn" /\ e = Cur)
      PROVE  RunsToSpare'
  BY <1>5 DEF RunsToSpare
<1>6. ASSUME NEW r \in Requests, EnqueueInsert(r)
      PROVE  RunsToSpare'
  <2>1. rows' \in Int /\ rows' > rows /\ rows \in Int
    BY <1>6 DEF EnqueueInsert, TypeOK
  <2>2. \A e \in Entries : e = rows' => status[e] = "absent"
    BY <2>1 DEF TypeOK
  <2>3. \A e \in Entries : status'[e] \in {"absent", "pending"}
                               => status[e] \in {"absent", "pending"}
    BY <1>6, <2>2 DEF EnqueueInsert, TypeOK
  <2> QED
    BY <1>2, <1>5, <1>6, <2>3 DEF EnqueueInsert
<1>7. ASSUME NEW r \in Requests, NEW t \in Triggers, EnqueueCheckDepth(r, t)
      PROVE  RunsToSpare'
  BY <1>2, <1>5, <1>7 DEF EnqueueCheckDepth
<1>8. CASE Operator
  BY <1>2, <1>5, <1>8 DEF Operator, CancelPending, SetConcurrencyCap, WithStatus
<1>9. CASE FetchBatch \/ CheckCap \/ BreakerRefuses \/ \E t \in Triggers : BreakerAdmits(t)
  BY <1>3, <1>5, <1>9 DEF FetchBatch, CheckCap, BreakerRefuses, BreakerAdmits
<1>10. CASE Claim
  <2>1. CASE status[Cur] = "pending"
    <3>1. status' = [status EXCEPT ![Cur] = "dispatching"] /\ Cur' = Cur
      BY <1>2, <1>10, <2>1 DEF Claim, CAS
    <3>2. UNCHANGED <<runs, restarts, up, worker>>
      BY <1>10 DEF Claim
    <3>3. \A e \in Entries : status'[e] \in {"absent", "pending"} => status'[e] = status[e]
      BY <1>1, <1>10, <3>1 DEF Claim, TypeOK
    <3> QED
      BY <1>5, <2>1, <3>1, <3>2, <3>3
  <2>2. CASE status[Cur] # "pending"
    BY <1>3, <1>5, <1>10, <2>2 DEF Claim, CAS
  <2> QED
    BY <2>1, <2>2
<1>11. CASE Spawn
  <2>1. worker' = [worker EXCEPT ![Cur] = "started"] /\ UNCHANGED <<runs, restarts, up, status>>
    BY <1>11 DEF Spawn
  <2>2. dpc = "spawn" /\ dpc' # "spawn"
    BY <1>3, <1>11 DEF Spawn
  <2>3. \A e \in Entries : worker'[e] = "started" => worker[e] = "started" \/ e = Cur
    BY <2>1 DEF TypeOK
  <2> QED
    BY <1>5, <2>1, <2>2, <2>3
<1>12. CASE BatchFails
  BY <1>5, <1>12 DEF BatchFails
<1>13. ASSUME NEW e \in Entries, StartWork(e)
       PROVE  RunsToSpare'
  <2>1. /\ worker[e] = "started" /\ worker' = [worker EXCEPT ![e] = "executing"]
        /\ runs' = [runs EXCEPT ![e] = @ + 1] /\ up' = up /\ up /\ Cur' = Cur
        /\ UNCHANGED <<status, dpc, batch, restarts>>
    BY <1>2, <1>13 DEF StartWork, Moves
  <2>2. status[e] = "dispatching" /\ ~(dpc = "spawn" /\ e = Cur)
    BY <2>1 DEF ThreadOwnsRow
  <2>3. runs[e] <= restarts /\ runs'[e] = runs[e] + 1 /\ worker'[e] = "executing"
    BY <1>4, <2>1 DEF RunsToSpare, TypeOK
  <2>4. \A f \in Entries \ {e} : runs'[f] = runs[f] /\ worker'[f] = worker[f]
    BY <1>4, <2>1 DEF TypeOK
  <2>5. ASSUME NEW f \in Entries
        PROVE  /\ runs'[f] <= 1 + restarts'
               /\ (\/ ~up'
                   \/ status'[f] \in {"absent", "pending"}
                   \/ worker'[f] = "started"
                   \/ dpc' = "spawn" /\ f = Cur') => runs'[f] <= restarts'
    <3>1. CASE f = e
      BY <1>4, <2>1, <2>2, <2>3, <3>1
    <3>2. CASE f # e
      BY <2>1, <2>4, <3>2 DEF RunsToSpare
    <3> QED
      BY <3>1, <3>2
  <2> QED
    BY <2>5 DEF RunsToSpare
<1>14. ASSUME NEW e \in Entries, WorkReturns(e) \/ WorkRaises(e)
       PROVE  RunsToSpare'
  BY <1>2, <1>5, <1>14 DEF WorkReturns, WorkRaises, Moves, TypeOK
<1>15. ASSUME NEW e \in Entries, TriggerMissing(e) \/ FinishCompleted(e) \/ FinishFailed(e)
       PROVE  RunsToSpare'
  BY <1>2, <1>5, <1>15 DEF TriggerMissing, FinishCompleted, FinishFailed, Finish, Moves, CAS, TypeOK
<1>16. ASSUME NEW e \in Entries, StatementFails(e) \/ LastUpdateFails(e)
       PROVE  RunsToSpare'
  BY <1>2, <1>5, <1>16 DEF StatementFails, LastUpdateFails, Moves, TypeOK
<1>17. CASE Crash
  <2>1. UNCHANGED runs /\ restarts' = restarts + 1
    BY <1>17 DEF Crash
  <2>2. \A e \in Entries : runs[e] <= restarts' /\ runs[e] <= 1 + restarts'
    BY <1>4, <2>1 DEF RunsToSpare
  <2> QED
    BY <2>1, <2>2 DEF RunsToSpare
<1>18. CASE Restart \/ RestartWithoutRecovery
  BY <1>5, <1>18 DEF Restart, RestartWithoutRecovery
<1>19. ASSUME NEW t \in Triggers, DeleteTrigger(t)
       PROVE  RunsToSpare'
  BY <1>2, <1>5, <1>19 DEF DeleteTrigger
<1>20. CASE UNCHANGED vars
  BY <1>2, <1>5, <1>20 DEF vars
<1> QED
  BY <1>6, <1>7, <1>8, <1>9, <1>10, <1>11, <1>12, <1>13, <1>14, <1>15, <1>16, <1>17,
     <1>18, <1>19, <1>20
  DEF Next, Enqueue, Dispatcher, Worker, Faulty, Environment

(* A row's work is started at most once in a life of the server, however     *)
(* often rows are claimed, fail, and are recovered.                          *)
THEOREM RerunOnlyAfterRestartHolds == Spec => []RerunOnlyAfterRestart
<1>1. Init => RunsToSpare
  BY DEF Init, RunsToSpare, Entries
<1>2. Inv /\ RunsToSpare /\ [Next]_vars => RunsToSpare'
  BY RunsStep DEF Inv
<1>3. RunsToSpare => RerunOnlyAfterRestart
  BY DEF RunsToSpare, RerunOnlyAfterRestart
<1> QED
  BY <1>1, <1>2, <1>3, InvInit, InvStep, PTL DEF Spec

-----------------------------------------------------------------------------
(* No slot leaks without a fault.                                            *)

Slotted ==
  (faults = 0 /\ up) =>
    \A e \in Entries :
      status[e] = "dispatching" => worker[e] # "none" \/ (dpc = "spawn" /\ e = Cur)

(* Claim hands the row to the dispatcher, Spawn to a thread, and the thread  *)
(* keeps it until its last UPDATE.                                           *)
LEMMA SlotStep ==
  ASSUME TypeOK, Slotted, [Next]_vars
  PROVE  Slotted'
<1> USE DEF db, mem, envVars
<1>1. dpc # "sleep" => Cur \in batch /\ Cur \in Entries
  BY CurHasTrigger
<1>2. batch' = batch => Cur' = Cur
  BY DEF Cur
<1>3. faults \in Nat
  BY DEF TypeOK
<1>4. ASSUME UNCHANGED <<faults, up>>,
             \A e \in Entries :
               /\ status'[e] = "dispatching" => status[e] = "dispatching"
               /\ worker[e] # "none" /\ status'[e] = "dispatching" => worker'[e] # "none"
               /\ (dpc = "spawn" /\ e = Cur) => worker'[e] # "none" \/ (dpc' = "spawn" /\ e = Cur')
      PROVE  Slotted'
  BY <1>4 DEF Slotted
<1>5. Fault => faults' # 0
  BY <1>3 DEF Fault
<1>6. CASE Enqueue \/ Operator
  BY <1>2, <1>4, <1>6 DEF Enqueue, EnqueueInsert, EnqueueCheckDepth, Operator,
     CancelPending, SetConcurrencyCap, WithStatus, TypeOK
<1>7. CASE FetchBatch \/ CheckCap \/ BreakerRefuses \/ \E t \in Triggers : BreakerAdmits(t)
  BY <1>4, <1>7 DEF FetchBatch, CheckCap, BreakerRefuses, BreakerAdmits
<1>8. CASE Claim
  <2>1. CASE status[Cur] = "pending"
    <3>1. /\ status' = [status EXCEPT ![Cur] = "dispatching"] /\ Cur' = Cur /\ dpc' = "spawn"
          /\ dpc # "spawn" /\ UNCHANGED <<worker, faults, up>>
      BY <1>2, <1>8, <2>1 DEF Claim, CAS
    <3>2. \A e \in Entries : e # Cur => status'[e] = status[e]
      BY <3>1 DEF TypeOK
    <3> QED
      BY <3>1, <3>2 DEF Slotted
  <2>2. CASE status[Cur] # "pending"
    BY <1>4, <1>8, <2>2 DEF Claim, CAS
  <2> QED
    BY <2>1, <2>2
<1>9. CASE Spawn
  <2>1. worker' = [worker EXCEPT ![Cur] = "started"] /\ UNCHANGED <<faults, up, status>>
    BY <1>9 DEF Spawn
  <2>2. \A e \in Entries : worker'[e] = IF e = Cur THEN "started" ELSE worker[e]
    BY <2>1 DEF TypeOK
  <2> QED
    BY <1>4, <2>1, <2>2
<1>10. CASE BatchFails
  BY <1>5, <1>10 DEF BatchFails, Slotted
<1>11. ASSUME NEW e \in Entries, Worker(e)
       PROVE  Slotted'
  BY <1>2, <1>4, <1>11
  DEF Worker, TriggerMissing, StartWork, WorkReturns, WorkRaises, FinishCompleted,
      FinishFailed, Finish, Moves, CAS, TypeOK
<1>12. ASSUME NEW e \in Entries, StatementFails(e) \/ LastUpdateFails(e)
       PROVE  Slotted'
  BY <1>5, <1>12 DEF StatementFails, LastUpdateFails, Slotted
<1>13. CASE Crash
  BY <1>13 DEF Crash, Slotted
<1>14. CASE Restart
  BY <1>14 DEF Restart, Slotted
<1>15. CASE RestartWithoutRecovery
  BY <1>5, <1>15 DEF RestartWithoutRecovery, Slotted
<1>16. ASSUME NEW t \in Triggers, DeleteTrigger(t)
       PROVE  Slotted'
  BY <1>2, <1>4, <1>16 DEF DeleteTrigger
<1>17. CASE UNCHANGED vars
  BY <1>2, <1>4, <1>17 DEF vars
<1> QED
  BY <1>6, <1>7, <1>8, <1>9, <1>10, <1>11, <1>12, <1>13, <1>14, <1>15, <1>16, <1>17
  DEF Next, Dispatcher, Faulty, Environment

(* A row holds its trigger's slot without a thread only when a statement or  *)
(* a thread start has failed.                                                *)
THEOREM OrphanOnlyAfterFaultHolds == Spec => []OrphanOnlyAfterFault
<1>1. Init => Slotted
  BY DEF Init, Slotted
<1>2. Inv /\ Slotted /\ [Next]_vars => Slotted'
  BY SlotStep DEF Inv
<1>3. Slotted => OrphanOnlyAfterFault
  BY DEF Slotted, OrphanOnlyAfterFault, Orphans
<1> QED
  BY <1>1, <1>2, <1>3, InvInit, InvStep, PTL DEF Spec
=============================================================================
