--------------------------- MODULE ExecutionQueue ---------------------------
(***************************************************************************)
(* The durable execution queue of the backend                              *)
(* (services/execution_queue_service.py over db/execution_queue.py): HTTP  *)
(* handlers append rows to a SQLite table, one dispatcher thread polls the *)
(* table and hands each eligible row to a thread of its own, and a row     *)
(* left behind by a crash is put back at the next start.                   *)
(*                                                                         *)
(* One action is one database statement, or one step of a thread between   *)
(* two of them: every such step may interleave with every other thread.    *)
(* A row is named by its rowid, so "<" on Entries is ORDER BY created_at   *)
(* (enqueue() never passes a priority, so all rows have priority 0).       *)
(* A definition named Bug... is a faulty variant of the definition that    *)
(* follows it: the properties were tried on it, no action refers to it.    *)
(***************************************************************************)
EXTENDS Integers, FiniteSets

CONSTANTS Triggers,       \* trigger ids
          Requests,       \* handler threads that may be inside enqueue() together
          MaxEntries,     \* bound: rows ever inserted
          MaxDepth,       \* MAX_QUEUE_DEPTH_PER_TRIGGER
          BatchLimit,     \* the limit of get_pending_entries
          CapChoices,     \* arguments of set_concurrency_cap
          MaxRestarts,    \* bound: crashes
          MaxFaults,      \* bound: failing database statements and thread starts
          NoTrigger       \* the trigger of a handler that is not inside enqueue()

ASSUME EntriesAssumption  == MaxEntries \in Nat
ASSUME LimitAssumption    == MaxDepth \in Nat \ {0} /\ BatchLimit \in Nat \ {0}
ASSUME CapAssumption      == CapChoices \subseteq Int
ASSUME FaultAssumption    == MaxRestarts \in Nat /\ MaxFaults \in Nat
ASSUME RequestsAssumption == IsFiniteSet(Requests) /\ NoTrigger \notin Triggers

VARIABLES
  status,      \* execution_queue.status of every row ("absent" before its INSERT)
  trig,        \* execution_queue.trigger_id
  rows,        \* rows inserted so far
  known,       \* the triggers table: triggers that have not been deleted
  checked,     \* per handler: the trigger whose depth it found below the limit
  dpc,         \* where the dispatcher thread is
  batch,       \* the rows of its snapshot it has not dealt with
  worker,      \* per row: where its _dispatch_entry thread is
  cap,         \* _concurrency_caps
  capPeak,     \* the largest cap ever in force (history)
  runs,        \* per row: how often its work was started (history)
  up, restarts, faults

db       == <<status, trig, rows>>
mem      == <<checked, dpc, batch, worker, cap, capPeak, runs>>
envVars  == <<known, restarts, faults, up>>
vars     == <<db, mem, envVars>>

Entries  == 1..MaxEntries
Live     == {"pending", "dispatching"}
Terminal == {"completed", "failed", "cancelled"}
Status   == {"absent"} \cup Live \cup Terminal
DefaultCap == 1

(* The SELECTs. *)
WithStatus(t, s) == {e \in Entries : trig[e] = t /\ status[e] = s}
Active(t)        == Cardinality(WithStatus(t, "dispatching"))
Depth(t)         == Cardinality(WithStatus(t, "pending"))
PendingRows      == {e \in Entries : status[e] = "pending"}
FirstPending     == {e \in PendingRows :
                       Cardinality({f \in PendingRows : f < e}) < BatchLimit}

(* UPDATE ... SET status = new WHERE id = e AND status = old. *)
CAS(e, old, new) ==
  status' = IF status[e] = old THEN [status EXCEPT ![e] = new] ELSE status

Cur == CHOOSE e \in batch : \A f \in batch : e <= f

Init ==
  /\ status = [e \in Entries |-> "absent"]
  /\ trig = [e \in Entries |-> NoTrigger]
  /\ rows = 0
  /\ known = Triggers
  /\ checked = [r \in Requests |-> NoTrigger]
  /\ dpc = "sleep"
  /\ batch = {}
  /\ worker = [e \in Entries |-> "none"]
  /\ cap = [t \in Triggers |-> DefaultCap]
  /\ capPeak = cap
  /\ runs = [e \in Entries |-> 0]
  /\ up = TRUE
  /\ restarts = 0
  /\ faults = 0

Fault == faults < MaxFaults /\ faults' = faults + 1

-----------------------------------------------------------------------------
(* enqueue: read the depth, then, in another transaction, INSERT. *)

InEnqueue(t) == {r \in Requests : checked[r] = t}

BugDepthOffByOne(r, t) ==
  /\ up /\ checked[r] = NoTrigger
  /\ rows + Cardinality({q \in Requests : checked[q] # NoTrigger}) < MaxEntries
  /\ checked' = IF Depth(t) > MaxDepth THEN checked ELSE [checked EXCEPT ![r] = t]
  /\ UNCHANGED <<db, dpc, batch, worker, cap, capPeak, runs, envVars>>

EnqueueCheckDepth(r, t) ==
  /\ up /\ checked[r] = NoTrigger
  /\ rows + Cardinality({q \in Requests : checked[q] # NoTrigger}) < MaxEntries
  /\ checked' = IF Depth(t) >= MaxDepth THEN checked   \* QueueFullError
                                        ELSE [checked EXCEPT ![r] = t]
  /\ UNCHANGED <<db, dpc, batch, worker, cap, capPeak, runs, envVars>>

EnqueueInsert(r) ==
  /\ up /\ checked[r] # NoTrigger
  /\ rows < MaxEntries
  /\ rows' = rows + 1
  /\ status' = [status EXCEPT ![rows'] = "pending"]
  /\ trig' = [trig EXCEPT ![rows'] = checked[r]]
  /\ checked' = [checked EXCEPT ![r] = NoTrigger]
  /\ UNCHANGED <<dpc, batch, worker, cap, capPeak, runs, envVars>>

BugCancelsDispatching(t) ==
  /\ up
  /\ status' = [e \in Entries |-> IF trig[e] = t /\ status[e] \in Live
                                  THEN "cancelled" ELSE status[e]]
  /\ UNCHANGED <<trig, rows, mem, envVars>>

(* DELETE /executions/queue/<trigger_id> *)
CancelPending(t) ==
  /\ up
  /\ WithStatus(t, "pending") # {}
  /\ status' = [e \in Entries |-> IF e \in WithStatus(t, "pending")
                                  THEN "cancelled" ELSE status[e]]
  /\ UNCHANGED <<trig, rows, mem, envVars>>

SetConcurrencyCap(t, c) ==
  /\ up
  /\ cap' = [cap EXCEPT ![t] = IF c > 1 THEN c ELSE 1]
  /\ capPeak' = [capPeak EXCEPT ![t] = IF cap'[t] > @ THEN cap'[t] ELSE @]
  /\ UNCHANGED <<db, checked, dpc, batch, worker, runs, envVars>>

-----------------------------------------------------------------------------
(* The dispatcher thread: _dispatcher_loop and _dispatch_batch. *)

BugNeverSleeps == batch' = batch \ {Cur} /\ dpc' = "cap"

NextEntry == /\ batch' = batch \ {Cur}
             /\ dpc' = IF batch' = {} THEN "sleep" ELSE "cap"

FetchBatch ==
  /\ up /\ dpc = "sleep"
  /\ batch' = FirstPending
  /\ dpc' = IF batch' = {} THEN "sleep" ELSE "cap"
  /\ UNCHANGED <<db, checked, worker, cap, capPeak, runs, envVars>>

BugCapOffByOne ==
  /\ up /\ dpc = "cap"
  /\ IF Active(trig[Cur]) > cap[trig[Cur]]
     THEN NextEntry
     ELSE dpc' = "breaker" /\ UNCHANGED batch
  /\ UNCHANGED <<db, checked, worker, cap, capPeak, runs, envVars>>

CheckCap ==
  /\ up /\ dpc = "cap"
  /\ IF Active(trig[Cur]) >= cap[trig[Cur]]
     THEN NextEntry
     ELSE dpc' = "breaker" /\ UNCHANGED batch
  /\ UNCHANGED <<db, checked, worker, cap, capPeak, runs, envVars>>

(* CircuitBreakerService.can_execute(backend_type) is any answer here; the   *)
(* CircuitBreaker module says when it is which. No trigger, or an exception  *)
(* inside the check: the dispatch goes on.                                   *)
BreakerRefuses ==
  /\ up /\ dpc = "breaker"
  /\ trig[Cur] \in known
  /\ NextEntry
  /\ UNCHANGED <<db, checked, worker, cap, capPeak, runs, envVars>>

BreakerAdmits(t) ==
  /\ up /\ dpc = "breaker"
  /\ trig[Cur] = t
  /\ dpc' = "claim"
  /\ UNCHANGED <<db, checked, batch, worker, cap, capPeak, runs, envVars>>

Claim ==
  /\ up /\ dpc = "claim"
  /\ CAS(Cur, "pending", "dispatching")
  /\ IF status[Cur] = "pending"
     THEN dpc' = "spawn" /\ UNCHANGED batch
     ELSE NextEntry
  /\ UNCHANGED <<trig, rows, checked, worker, cap, capPeak, runs, envVars>>

Spawn ==
  /\ up /\ dpc = "spawn"
  /\ worker' = [worker EXCEPT ![Cur] = "started"]
  /\ NextEntry
  /\ UNCHANGED <<db, checked, cap, capPeak, runs, envVars>>

(* Any statement of the batch, or the thread's start, may raise:            *)
(* _dispatcher_loop logs it and drops the rest of the batch.                *)
BatchFails ==
  /\ up /\ dpc # "sleep" /\ dpc # "breaker" /\ Fault
  /\ batch' = {} /\ dpc' = "sleep"
  /\ UNCHANGED <<db, checked, worker, cap, capPeak, runs,
                 known, restarts, up>>

-----------------------------------------------------------------------------
(* One _dispatch_entry thread per claimed row. *)

Moves(e, from, to) == up /\ worker[e] = from /\ worker' = [worker EXCEPT ![e] = to]

BugMissingTriggerForgotten(e) ==
  /\ trig[e] \notin known
  /\ Moves(e, "started", "none")
  /\ UNCHANGED <<db, checked, dpc, batch, cap, capPeak, runs, envVars>>

(* The trigger was deleted while its row waited. *)
TriggerMissing(e) ==
  /\ trig[e] \notin known
  /\ Moves(e, "started", "none")
  /\ CAS(e, "dispatching", "failed")
  /\ UNCHANGED <<trig, rows, checked, dpc, batch, cap, capPeak, runs, envVars>>

(* execute_team or execute_with_fallback is called. *)
StartWork(e) ==
  /\ trig[e] \in known
  /\ Moves(e, "started", "executing")
  /\ runs' = [runs EXCEPT ![e] = @ + 1]
  /\ UNCHANGED <<db, checked, dpc, batch, cap, capPeak, envVars>>

(* The call returns; its ExecutionResult is not looked at. *)
WorkReturns(e) ==
  /\ Moves(e, "executing", "returned")
  /\ UNCHANGED <<db, checked, dpc, batch, cap, capPeak, runs, envVars>>

WorkRaises(e) ==
  /\ Moves(e, "executing", "raised")
  /\ UNCHANGED <<db, checked, dpc, batch, cap, capPeak, runs, envVars>>

Finish(e, from, outcome) ==
  /\ Moves(e, from, "none")
  /\ CAS(e, "dispatching", outcome)
  /\ UNCHANGED <<trig, rows, checked, dpc, batch, cap, capPeak, runs, envVars>>

BugRequeues(e)     == Finish(e, "raised", "pending")
FinishCompleted(e) == Finish(e, "returned", "completed")
FinishFailed(e)    == Finish(e, "raised", "failed")

(* A statement of the try block raises: the except block is next. *)
StatementFails(e) ==
  /\ Fault
  /\ Moves(e, "started", "raised") \/ Moves(e, "returned", "raised")
  /\ UNCHANGED <<db, checked, dpc, batch, cap, capPeak, runs,
                 known, restarts, up>>

(* The UPDATE of the except block raises: the thread dies, its row stays    *)
(* 'dispatching' and keeps its slot.                                        *)
LastUpdateFails(e) ==
  /\ Fault
  /\ Moves(e, "raised", "none")
  /\ UNCHANGED <<db, checked, dpc, batch, cap, capPeak, runs,
                 known, restarts, up>>

-----------------------------------------------------------------------------
(* The server and what surrounds the queue. *)

(* Every thread is a daemon thread and dies with the process; so do the caps. *)
Crash ==
  /\ up /\ restarts < MaxRestarts
  /\ up' = FALSE
  /\ restarts' = restarts + 1
  /\ checked' = [r \in Requests |-> NoTrigger]
  /\ dpc' = "sleep"
  /\ batch' = {}
  /\ worker' = [e \in Entries |-> "none"]
  /\ cap' = [t \in Triggers |-> DefaultCap]
  /\ UNCHANGED <<db, capPeak, runs, known, faults>>

BugRecoversFailed ==
  /\ ~up /\ up' = TRUE
  /\ status' = [e \in Entries |-> IF status[e] \in {"dispatching", "failed"}
                                  THEN "pending" ELSE status[e]]
  /\ UNCHANGED <<trig, rows, mem, known, restarts, faults>>

BugNoRecovery ==
  /\ ~up /\ up' = TRUE
  /\ UNCHANGED <<db, mem, known, restarts, faults>>

(* start_dispatcher: reset_stale_dispatching, then the thread. *)
Restart ==
  /\ ~up /\ up' = TRUE
  /\ status' = [e \in Entries |-> IF status[e] = "dispatching"
                                  THEN "pending" ELSE status[e]]
  /\ UNCHANGED <<trig, rows, mem, known, restarts, faults>>

(* The recovery raised; the dispatcher starts all the same. *)
RestartWithoutRecovery ==
  /\ ~up /\ up' = TRUE
  /\ Fault
  /\ UNCHANGED <<db, mem, known, restarts>>

DeleteTrigger(t) ==
  /\ up /\ t \in known
  /\ known' = known \ {t}
  /\ UNCHANGED <<db, mem, restarts, faults, up>>

-----------------------------------------------------------------------------
Enqueue ==
  \E r \in Requests : EnqueueInsert(r) \/ \E t \in Triggers : EnqueueCheckDepth(r, t)

Dispatcher ==
  \/ FetchBatch \/ CheckCap \/ BreakerRefuses \/ Claim \/ Spawn
  \/ \E t \in Triggers : BreakerAdmits(t)

Worker(e) ==
  \/ TriggerMissing(e) \/ StartWork(e)
  \/ WorkReturns(e) \/ WorkRaises(e)
  \/ FinishCompleted(e) \/ FinishFailed(e)

Faulty ==
  \/ BatchFails \/ RestartWithoutRecovery
  \/ \E e \in Entries : StatementFails(e) \/ LastUpdateFails(e)

Environment ==
  \/ Crash \/ Restart
  \/ \E t \in Triggers : DeleteTrigger(t)

Operator ==
  \E t \in Triggers : CancelPending(t) \/ \E c \in CapChoices : SetConcurrencyCap(t, c)

Next ==
  \/ Enqueue \/ Operator \/ Dispatcher
  \/ \E e \in Entries : Worker(e)
  \/ Faulty \/ Environment

Spec == Init /\ [][Next]_vars

(* Threads keep running, a run ends (execute_with_fallback waits at most    *)
(* EXECUTION_TIMEOUT_MAX for each attempt), the service manager restarts    *)
(* the server, and a breaker that is asked again and again admits one: it    *)
(* turns half-open when its reset timeout has passed.                       *)
Fairness ==
  /\ WF_vars(Dispatcher)
  /\ WF_vars(Restart)
  /\ \A e \in Entries : WF_vars(Worker(e))
  /\ \A r \in Requests : WF_vars(EnqueueInsert(r))
  /\ \A t \in Triggers : SF_vars(BreakerAdmits(t))

FairSpec == Spec /\ Fairness
-----------------------------------------------------------------------------
TypeOK ==
  /\ status \in [Entries -> Status]
  /\ trig \in [Entries -> Triggers \cup {NoTrigger}]
  /\ rows \in 0..MaxEntries
  /\ known \subseteq Triggers
  /\ checked \in [Requests -> Triggers \cup {NoTrigger}]
  /\ dpc \in {"sleep", "cap", "breaker", "claim", "spawn"}
  /\ batch \subseteq Entries
  /\ dpc = "sleep" <=> batch = {}
  /\ \A e \in batch : status[e] # "absent"
  /\ \A e \in Entries : /\ status[e] = "absent" <=> e > rows
                        /\ e <= rows => trig[e] \in Triggers
  /\ worker \in [Entries -> {"none", "started", "executing", "returned", "raised"}]
  /\ cap \in [Triggers -> Nat \ {0}] /\ capPeak \in [Triggers -> Nat \ {0}]
  /\ runs \in [Entries -> Nat]
  /\ up \in BOOLEAN /\ restarts \in Nat /\ faults \in Nat

(* "Dispatch entries up to per-trigger concurrency caps": however the        *)
(* dispatcher's count, the handlers, the workers and restarts interleave, a  *)
(* trigger never has more rows dispatching than the largest cap it was given.*)
ConcurrencyCap == \A t \in Triggers : Active(t) <= capPeak[t]

(* A row belongs to its thread: while a _dispatch_entry thread lives, or is  *)
(* about to be started, its row is 'dispatching', so no cancelled or ended   *)
(* row executes and the thread's final compare-and-swap always finds its row.*)
ThreadOwnsRow ==
  /\ \A e \in Entries : worker[e] # "none" => status[e] = "dispatching"
  /\ dpc = "spawn" => status[Cur] = "dispatching" /\ worker[Cur] = "none"

(* A row's work is started at most once per life of the server: only a       *)
(* restart, which cannot know how far the work got, starts it again.         *)
RerunOnlyAfterRestart == \A e \in Entries : runs[e] <= 1 + restarts

(* A slot leaks (a row 'dispatching' with no thread that will ever end it)   *)
(* only when a database statement or a thread start has failed.              *)
Orphans == {e \in Entries : /\ status[e] = "dispatching" /\ worker[e] = "none"
                            /\ ~(dpc = "spawn" /\ e = Cur) /\ up}
OrphanOnlyAfterFault == faults = 0 => Orphans = {}

(* The depth limit is read and acted on in two transactions, and recovery    *)
(* turns dispatching rows into pending ones: by how much a trigger's queue   *)
(* can still outgrow MAX_QUEUE_DEPTH_PER_TRIGGER.                            *)
DepthOverrunBounded ==
  \A t \in Triggers :
    Depth(t) + Cardinality(InEnqueue(t)) + Active(t)
      <= MaxDepth + Cardinality(Requests) - 1 + capPeak[t]

(* The queue is an at-least-once job queue with a limit per trigger.         *)
Phase == [absent |-> "new", pending |-> "waiting", dispatching |-> "running",
          completed |-> "done", failed |-> "done", cancelled |-> "withdrawn"]
JQ == INSTANCE JobQueue WITH
        Jobs <- Entries, Owners <- Triggers, NoOwner <- NoTrigger,
        state <- [e \in Entries |-> Phase[status[e]]], owner <- trig, limit <- capPeak
IsJobQueue == JQ!Spec

(* Nothing that was accepted is forgotten: across a crash, an open breaker,  *)
(* a full batch and a busy trigger, every pending row ends.                  *)
EveryRowEnds ==
  \A e \in Entries : status[e] = "pending" ~> status[e] \in Terminal

(* tests/test_execution_queue.py:277 "Entries are dispatched in FIFO order": *)
(* of two pending rows of one trigger the older is claimed first.            *)
FifoPerTrigger ==
  [][\A e, f \in Entries :
       (f < e /\ trig[f] = trig[e] /\ status[f] = "pending" /\ status[e] = "pending")
         => ~(status'[e] = "dispatching" /\ status'[f] = "pending")]_vars
=============================================================================
