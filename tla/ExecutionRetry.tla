--------------------------- MODULE ExecutionRetry ---------------------------
(***************************************************************************)
(* Rate-limit retries of one trigger (services/execution_retry.py). An     *)
(* execution whose whole fallback chain was rate-limited calls             *)
(* schedule_retry in its own thread; the retry is a threading.Timer, a     *)
(* dictionary entry and a row of pending_retries; the timer's thread runs  *)
(* _retry, which executes the trigger again. Triggers share only           *)
(* _rate_limit_lock, held for one dictionary access at a time, so one      *)
(* trigger is modelled. One action is one critical section, one database   *)
(* call or one call on a timer.                                            *)
(*                                                                         *)
(* A slot is a thread running execute_with_fallback together with the timer*)
(* it may set; it is free again when both have ended. A reference to a     *)
(* timer that has ended is the same as none: cancelling it does nothing.   *)
(* A definition named Bug... is a faulty variant of the definition that    *)
(* follows it: the properties were tried on it, no action refers to it.    *)
(***************************************************************************)
EXTENDS Integers, FiniteSets

CONSTANTS MaxAttempts,   \* MAX_RETRY_ATTEMPTS
          MaxSlots,      \* bound: executions and timers of the trigger at once
          MaxRestarts,   \* bound: crashes
          MaxFaults      \* bound: failing writes of pending_retries

ASSUME RetryAssumption == /\ MaxAttempts \in Nat /\ MaxSlots \in Nat \ {0}
                          /\ MaxRestarts \in Nat /\ MaxFaults \in Nat

VARIABLES
  pc,         \* per slot: where its thread is
  victim,     \* per slot: the local existing, the timer to cancel
  timer,      \* per slot: its timer and how far the timer's thread has come
  restored,   \* timers set by restore_pending_retries
  entry,      \* _retry_timers[trigger_id]
  pending,    \* trigger_id is in _pending_retries
  count,      \* _retry_counts[trigger_id], 0 when absent
  row,        \* pending_retries has a row for the trigger
  boot,       \* where the start of the server is
  gaveUp,     \* a schedule_retry went past MAX_RETRY_ATTEMPTS (history)
  overlap,    \* two accesses to the trigger's retry overlapped (history)
  owed,       \* an execution was rate-limited and none was started since (history)
  restarts, faults

threads == <<pc, victim>>
memory  == <<entry, pending, count>>
history == <<gaveUp, overlap, owed>>
bounds  == <<restarts, faults>>
vars    == <<threads, timer, restored, memory, row, boot, history, bounds>>

None  == 0
Slots == 1..MaxSlots
Steps == {"cancel", "cancel_last", "pending", "row", "arm", "register"}
Scheduling == {j \in Slots : pc[j] \in Steps}
Armed      == {j \in Slots : timer[j] = "armed"}
Callbacks  == {j \in Slots : timer[j] \in {"fired", "popped"}}
BootBusy   == boot \in {"arm", "register"}

(* From the second failure in excess on, nothing depends on the count. *)
Capped(n) == IF n > MaxAttempts THEN MaxAttempts + 1 ELSE n

Init ==
  /\ pc = [j \in Slots |-> "none"] /\ victim = [j \in Slots |-> None]
  /\ timer = [j \in Slots |-> "none"] /\ restored = {}
  /\ entry = None /\ pending = FALSE /\ count = 0 /\ row = FALSE
  /\ boot = "idle"
  /\ gaveUp = FALSE /\ overlap = FALSE /\ owed = FALSE
  /\ restarts = 0 /\ faults = 0

(* A new execution takes the first of the slots whose timer has ended. *)
StartJob(ended) ==
  LET free == {k \in ended : pc[k] = "none"}
  IN  \E k \in free : (\A i \in free : k <= i) /\ pc' = [pc EXCEPT ![k] = "running"]

-----------------------------------------------------------------------------
(* Executions. A new event is dispatched while the server serves requests. *)

Arrive ==
  /\ boot = "idle"
  /\ StartJob({k \in Slots : timer[k] = "none"})
  /\ UNCHANGED <<victim, timer, restored, memory, row, boot, history, bounds>>

(* The chain found an account that was not rate-limited, or was never tried. *)
JobEnds(j) ==
  /\ pc[j] = "running"
  /\ pc' = [pc EXCEPT ![j] = "none"]
  /\ UNCHANGED <<victim, timer, restored, memory, row, boot, history, bounds>>

-----------------------------------------------------------------------------
(* schedule_retry *)

BugKeepsOldTimer(j) ==
  /\ pc[j] = "running"
  /\ victim' = [victim EXCEPT ![j] = None]
  /\ count' = Capped(count + 1)
  /\ pc' = [pc EXCEPT ![j] = IF count' > MaxAttempts THEN "cancel_last" ELSE "cancel"]
  /\ overlap' = (overlap \/ Scheduling \cup Callbacks # {} \/ BootBusy)
  /\ owed' = TRUE
  /\ UNCHANGED <<timer, restored, entry, pending, row, boot, gaveUp, bounds>>

TakeTimer(j) ==
  /\ pc[j] = "running"
  /\ victim' = [victim EXCEPT ![j] = entry]
  /\ entry' = None
  /\ count' = Capped(count + 1)
  /\ pc' = [pc EXCEPT ![j] = IF count' > MaxAttempts THEN "cancel_last" ELSE "cancel"]
  /\ overlap' = (overlap \/ Scheduling \cup Callbacks # {} \/ BootBusy)
  /\ owed' = TRUE
  /\ UNCHANGED <<timer, restored, pending, row, boot, gaveUp, bounds>>

(* Timer.cancel does nothing to a timer whose thread has woken up. *)
CancelTimer(j) ==
  /\ pc[j] \in {"cancel", "cancel_last"}
  /\ timer' = [i \in Slots |-> IF i = victim[j] /\ timer[i] = "armed" THEN "none"
                                                                    ELSE timer[i]]
  /\ pc' = [pc EXCEPT ![j] = IF pc[j] = "cancel" THEN "pending" ELSE "give_up"]
  /\ victim' = [victim EXCEPT ![j] = None]
  /\ UNCHANGED <<restored, memory, row, boot, history, bounds>>

(* start_execution is called without its parameter command: the TypeError  *)
(* leaves schedule_retry, and the clean-up behind the call is not reached. *)
GiveUp(j) ==
  /\ pc[j] = "give_up"
  /\ pc' = [pc EXCEPT ![j] = "none"]
  /\ gaveUp' = TRUE
  /\ UNCHANGED <<victim, timer, restored, memory, row, boot,
                 overlap, owed, bounds>>

SetPending(j) ==
  /\ pc[j] = "pending"
  /\ pending' = TRUE
  /\ pc' = [pc EXCEPT ![j] = "row"]
  /\ UNCHANGED <<victim, timer, restored, entry, count, row, boot,
                 history, bounds>>

(* upsert_pending_retry and delete_pending_retry return False on an error,   *)
(* which nobody looks at.                                                    *)
Write(r) == \/ row' = r /\ UNCHANGED bounds
            \/ /\ faults < MaxFaults /\ faults' = faults + 1
               /\ UNCHANGED <<row, restarts>>

WriteRow(j) ==
  /\ pc[j] = "row"
  /\ Write(TRUE)
  /\ pc' = [pc EXCEPT ![j] = "arm"]
  /\ UNCHANGED <<victim, timer, restored, memory, boot, history>>

BugNeverStarts(j) ==
  /\ pc[j] = "arm"
  /\ pc' = [pc EXCEPT ![j] = "register"]
  /\ UNCHANGED <<victim, timer, restored, memory, row, boot,
                 history, bounds>>

ArmTimer(j) ==
  /\ pc[j] = "arm"
  /\ timer' = [timer EXCEPT ![j] = "armed"]
  /\ pc' = [pc EXCEPT ![j] = "register"]
  /\ UNCHANGED <<victim, restored, memory, row, boot, history, bounds>>

RegisterTimer(j) ==
  /\ pc[j] = "register"
  /\ entry' = IF timer[j] = "none" THEN None ELSE j
  /\ pc' = [pc EXCEPT ![j] = "none"]
  /\ UNCHANGED <<victim, timer, restored, pending, count, row, boot,
                 history, bounds>>

-----------------------------------------------------------------------------
(* _retry, in the timer's thread *)

Fire(j) ==
  /\ timer[j] = "armed"
  /\ timer' = [timer EXCEPT ![j] = "fired"]
  /\ overlap' = (overlap \/ Scheduling # {} \/ BootBusy)
  /\ UNCHANGED <<threads, restored, memory, row, boot, gaveUp, owed, bounds>>

(* It pops whatever the dictionaries hold, its own entry or a newer one; the *)
(* _retry made by restore_pending_retries leaves _retry_counts alone.        *)
PopEntries(j) ==
  /\ timer[j] = "fired"
  /\ timer' = [timer EXCEPT ![j] = "popped"]
  /\ entry' = None /\ pending' = FALSE
  /\ count' = IF j \in restored THEN count ELSE 0
  /\ UNCHANGED <<threads, restored, row, boot, history, bounds>>

BugKeepsRow(j) ==
  /\ timer[j] = "popped"
  /\ timer' = [timer EXCEPT ![j] = "ready"]
  /\ UNCHANGED <<threads, restored, memory, row, boot, history, bounds>>

DeleteRow(j) ==
  /\ timer[j] = "popped"
  /\ Write(FALSE)
  /\ timer' = [timer EXCEPT ![j] = "ready"]
  /\ UNCHANGED <<threads, restored, memory, boot, history>>

ExecuteRetry(j) ==
  /\ timer[j] = "ready"
  /\ timer' = [timer EXCEPT ![j] = "none"]
  /\ restored' = restored \ {j}
  /\ StartJob({k \in Slots : timer'[k] = "none"})
  /\ owed' = FALSE
  /\ entry' = IF entry = j THEN None ELSE entry
  /\ victim' = [k \in Slots |-> IF victim[k] = j THEN None ELSE victim[k]]
  /\ UNCHANGED <<pending, count, row, boot, gaveUp, overlap, bounds>>

-----------------------------------------------------------------------------
(* The process dies with its threads, timers and dictionaries. *)
Crash ==
  /\ restarts < MaxRestarts /\ boot # "off"
  /\ restarts' = restarts + 1
  /\ boot' = "off"
  /\ pc' = [j \in Slots |-> "none"] /\ victim' = [j \in Slots |-> None]
  /\ timer' = [j \in Slots |-> "none"] /\ restored' = {}
  /\ entry' = None /\ pending' = FALSE /\ count' = 0
  /\ gaveUp' = FALSE /\ overlap' = FALSE /\ owed' = FALSE
  /\ UNCHANGED <<row, faults>>

(* restore_pending_retries, before requests are served. *)
BugRestoresNothing ==
  /\ boot = "off"
  /\ boot' = "idle"
  /\ UNCHANGED <<threads, timer, restored, memory, row, history, bounds>>

ReadRows ==
  /\ boot = "off"
  /\ pending' = row
  /\ boot' = IF row THEN "arm" ELSE "idle"
  /\ UNCHANGED <<threads, timer, restored, entry, count, row, history, bounds>>

RestoreTimer ==
  /\ boot = "arm"
  /\ timer' = [timer EXCEPT ![1] = "armed"]
  /\ restored' = {1}
  /\ boot' = "register"
  /\ UNCHANGED <<threads, memory, row, history, bounds>>

RegisterRestored ==
  /\ boot = "register"
  /\ entry' = IF 1 \in restored THEN 1 ELSE None
  /\ boot' = "idle"
  /\ UNCHANGED <<threads, timer, restored, pending, count, row, history, bounds>>

-----------------------------------------------------------------------------
Schedule(j) == \/ TakeTimer(j) \/ CancelTimer(j) \/ GiveUp(j) \/ SetPending(j)
               \/ WriteRow(j) \/ ArmTimer(j) \/ RegisterTimer(j)
Retry(j)    == Fire(j) \/ PopEntries(j) \/ DeleteRow(j) \/ ExecuteRetry(j)
Boot        == ReadRows \/ RestoreTimer \/ RegisterRestored

Next == \/ Arrive \/ Crash \/ Boot
        \/ \E j \in Slots : JobEnds(j) \/ Schedule(j) \/ Retry(j)

Spec == Init /\ [][Next]_vars

(* Threads run, timers expire, executions end (they have a timeout), and the *)
(* service manager starts the server again.                                  *)
FairSpec == /\ Spec /\ WF_vars(Boot)
            /\ \A j \in Slots : WF_vars(Schedule(j) \/ JobEnds(j)) /\ WF_vars(Retry(j))

-----------------------------------------------------------------------------
TypeOK ==
  /\ pc \in [Slots -> {"none", "running", "give_up"} \cup Steps]
  /\ victim \in [Slots -> Slots \cup {None}]
  /\ timer \in [Slots -> {"none", "armed", "fired", "popped", "ready"}]
  /\ restored \subseteq Slots
  /\ entry \in Slots \cup {None} /\ pending \in BOOLEAN /\ row \in BOOLEAN
  /\ count \in 0..(MaxAttempts + 1)
  /\ boot \in {"off", "arm", "register", "idle"}
  /\ gaveUp \in BOOLEAN /\ overlap \in BOOLEAN /\ owed \in BOOLEAN
  /\ restarts \in 0..MaxRestarts /\ faults \in 0..MaxFaults

(* A row of pending_retries always has somebody who will act on it: a thread *)
(* about to arm a timer, an armed timer, or a callback that will delete the  *)
(* row, until the trigger gives up or a write fails.                         *)
NoRowForgotten ==
  (row /\ faults = 0 /\ ~gaveUp)
    => \/ boot \in {"off", "arm"}
       \/ Armed \cup Callbacks # {}
       \/ \E j \in Slots : pc[j] \in (Steps \ {"register"}) \cup {"give_up"}

(* "Replaces any existing pending retry for the same trigger": as long as    *)
(* no two accesses overlapped, a trigger has one timer, and it is the one    *)
(* that the next schedule_retry will find and cancel.                        *)
OneTimer ==
  (~overlap /\ boot = "idle" /\ Scheduling = {})
     => Cardinality(Armed) <= 1 /\ \A j \in Armed : entry = j

(* Without a crash, and until the trigger gives up, an execution that was    *)
(* rate-limited is followed by a retry: concurrent callers replace and       *)
(* cancel each other's timers, but never the last one.                       *)
RetryHappens == owed ~> (~owed \/ gaveUp \/ boot = "off")

(* A retry that was stored is executed, after a crash too, unless the        *)
(* trigger gave up or a write failed: no row stays for ever.                 *)
RowEnds == row ~> (~row \/ gaveUp \/ faults > 0)

(* tests/test_rate_limit_service.py:470 "Should NOT be in pending retries or *)
(* timers -- it gave up": giving up leaves nothing behind that says a retry  *)
(* will happen.                                                              *)
GivingUpClears ==
  [][\A j \in Slots : (pc[j] = "give_up" /\ pc'[j] = "none" /\ boot' # "off")
                        => ~pending' /\ entry' = None /\ count' = 0]_vars

(* execution_retry.py:95 "giving up to prevent infinite retry loop": once no *)
(* new event arrives, the retries of the old ones come to an end.            *)
RetriesStop == (<>[][~Arrive]_vars) => <>[](Armed = {})
=============================================================================
