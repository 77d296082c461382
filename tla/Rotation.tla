------------------------------- MODULE Rotation -------------------------------
(***************************************************************************)
(* The rotation of a running execution to another account: the job that    *)
(* looks at the active executions every 15 seconds (services/rotation_     *)
(* evaluator.py), the thread that it starts for one of them (execute_      *)
(* rotation in services/rotation_service.py: terminate the process, finish *)
(* the execution, run its continuation), the runner thread of the          *)
(* execution (run_trigger), which knows nothing of it, and a cancel        *)
(* request. A continuation is an execution like any other and may be       *)
(* rotated in its turn; the thread that rotates e is its runner.           *)
(*                                                                         *)
(* What the usage windows say, and whether an account is free, is a        *)
(* choice. Pauses, failing writes, budgets, shutdown and crash are those   *)
(* of ExecutionLifecycle and left out.                                     *)
(* A definition named Bug... is a faulty variant of the definition that    *)
(* follows it: the properties were tried on it, no action refers to it.    *)
(***************************************************************************)
EXTENDS Naturals

CONSTANTS MaxRotations,   \* MAX_ROTATIONS_PER_EXECUTION
          HysteresisPolls,     \* rotation_hysteresis_polls
          MaxExecutions,  \* bound: an execution and its continuations
          MaxCancels      \* bound: cancel requests

ASSUME RotationAssumption ==
  /\ MaxRotations \in Nat \ {0} /\ HysteresisPolls \in Nat \ {0} /\ MaxExecutions \in Nat \ {0}
  /\ MaxCancels \in Nat

Executions == 1..MaxExecutions

VARIABLES
  status,      \* execution_logs.status
  proc,        \* the process; "ok" and "bad" are exits with and without code 0
  runner,      \* where run_trigger is
  verdict,     \* what it is about to write
  registered,  \* _processes
  cancelled,   \* _cancelled
  killers,     \* executions for which a _force_kill timer runs
  cancels,     \* cancel requests so far
  due,         \* active executions that the job has not evaluated yet
  rotatePolls, \* consecutive_rotate_polls
  phase,       \* per execution: where the thread that rotates it is
  heir,        \* per execution: its continuation, or 0
  event,       \* rotation_status of its last rotation event
  events       \* number of its rotation events

execution == <<status, proc, runner, verdict>>
tracking  == <<registered, cancelled, killers, cancels>>
job       == <<due, rotatePolls>>
rotator   == <<phase, heir, event, events>>
rotationVars      == <<execution, tracking, job, rotator>>

Each(x) == [e \in Executions |-> x]
Alive(e) == proc[e] = "running"
Exits == {"ok", "bad"}
Verdicts == {"success", "failed", "timeout", "cancelled"}
RunnerPlaces == {"none", "spawn", "register", "wait", "check", "write", "cleanup", "done"}

RotationInit ==
  /\ status = [Each("none") EXCEPT ![1] = "running"]
  /\ proc = Each("none") /\ verdict = Each("none")
  /\ runner = [Each("none") EXCEPT ![1] = "spawn"]
  /\ registered = {} /\ cancelled = {} /\ killers = {} /\ cancels = 0
  /\ due = {} /\ rotatePolls = Each(0)
  /\ phase = Each("none") /\ heir = Each(0) /\ event = Each("none") /\ events = Each(0)

-----------------------------------------------------------------------------
(* run_trigger *)

RunnerTo(e, place) == runner' = [runner EXCEPT ![e] = place]
Decide(e, v) == verdict' = [verdict EXCEPT ![e] = v]

(* Popen; it fails, or the budget forbids it. *)
Spawn(e) ==
  /\ runner[e] = "spawn"
  /\ \/ /\ proc' = [proc EXCEPT ![e] = "running"]
        /\ RunnerTo(e, "register") /\ UNCHANGED verdict
     \/ Decide(e, "failed") /\ RunnerTo(e, "write") /\ UNCHANGED proc
  /\ UNCHANGED <<status, tracking, job, rotator>>

Register(e) ==
  /\ runner[e] = "register" /\ RunnerTo(e, "wait")
  /\ registered' = registered \cup {e}
  /\ UNCHANGED <<status, proc, verdict, cancelled, killers, cancels, job, rotator>>

WaitReturns(e) ==
  /\ runner[e] = "wait" /\ proc[e] \in Exits
  /\ RunnerTo(e, "check")
  /\ UNCHANGED <<status, proc, verdict, tracking, job, rotator>>

WaitTimesOut(e) ==
  /\ runner[e] = "wait" /\ Alive(e)
  /\ proc' = [proc EXCEPT ![e] = "bad"]
  /\ Decide(e, "timeout") /\ RunnerTo(e, "write")
  /\ UNCHANGED <<status, tracking, job, rotator>>

CheckExit(e) ==
  /\ runner[e] = "check" /\ RunnerTo(e, "write")
  /\ Decide(e, IF e \in cancelled THEN "cancelled"
               ELSE IF proc[e] = "ok" THEN "success" ELSE "failed")
  /\ UNCHANGED <<status, proc, tracking, job, rotator>>

WriteVerdict(e) ==
  /\ runner[e] = "write" /\ RunnerTo(e, "cleanup")
  /\ status' = [status EXCEPT ![e] = verdict[e]]
  /\ UNCHANGED <<proc, verdict, tracking, job, rotator>>

Forget(e) == registered' = registered \ {e} /\ cancelled' = cancelled \ {e}

Cleanup(e) ==
  /\ runner[e] = "cleanup" /\ RunnerTo(e, "done")
  /\ Forget(e)
  /\ UNCHANGED <<status, proc, verdict, killers, cancels, job, rotator>>

Runner(e) == \/ Spawn(e) \/ Register(e) \/ WaitReturns(e) \/ WaitTimesOut(e)
             \/ CheckExit(e) \/ WriteVerdict(e) \/ Cleanup(e)

ProcessExits(e) ==
  /\ Alive(e)
  /\ \E code \in Exits : proc' = [proc EXCEPT ![e] = code]
  /\ UNCHANGED <<status, runner, verdict, tracking, job, rotator>>

(* The route has read the row; the mark and the lookup are under the lock. *)
CancelGraceful(e) ==
  /\ status[e] = "running" /\ cancels < MaxCancels
  /\ cancels' = cancels + 1
  /\ cancelled' = cancelled \cup {e}
  /\ killers' = IF e \in registered THEN killers \cup {e} ELSE killers
  /\ UNCHANGED <<execution, registered, job, rotator>>

ForceKill(e) ==
  /\ e \in killers /\ killers' = killers \ {e}
  /\ proc' = IF Alive(e) THEN [proc EXCEPT ![e] = "bad"] ELSE proc
  /\ UNCHANGED <<status, runner, verdict, registered, cancelled, cancels, job, rotator>>

-----------------------------------------------------------------------------
(* The evaluator. *)

Early == {"read", "record", "term", "grace", "cleanup"}

(* A pass begins with a snapshot. It forgets the counters of executions that *)
(* have ended, whose ids do not come back. Two passes are 15 seconds apart,  *)
(* and a rotation waits 8 seconds at most for its process: it is over, or    *)
(* past its clean-up, when the next pass begins, so that an execution has    *)
(* one thread that rotates it.                                               *)
Poll ==
  /\ due = {} /\ \A e \in Executions : phase[e] \notin Early
  /\ due' = registered
  /\ rotatePolls' = [e \in Executions |-> IF e \in registered THEN rotatePolls[e] ELSE 0]
  /\ UNCHANGED <<execution, tracking, rotator>>

BugAllowsOneMore(e) == events[e] > MaxRotations
LimitReached(e) == events[e] >= MaxRotations

(* should_rotate: never at the limit; bound: never for the last execution. *)
MayRotate(e) == IF LimitReached(e) \/ e = MaxExecutions THEN {FALSE} ELSE BOOLEAN

EvaluateExecution(e) ==
  /\ e \in due /\ due' = due \ {e}
  /\ \E rotate \in MayRotate(e) :
       LET agreed == rotate /\ rotatePolls[e] + 1 >= HysteresisPolls IN
       /\ rotatePolls' = [rotatePolls EXCEPT ![e] = IF rotate /\ ~agreed THEN @ + 1 ELSE 0]
       /\ phase' = IF agreed THEN [phase EXCEPT ![e] = "read"] ELSE phase
  /\ UNCHANGED <<execution, tracking, heir, event, events>>

-----------------------------------------------------------------------------
(* execute_rotation *)

Go(e, place) == phase' = [phase EXCEPT ![e] = place]
EventIs(e, outcome) == event' = [event EXCEPT ![e] = outcome]
CountEvent(e) == events' = [events EXCEPT ![e] = @ + 1]

(* It asks should_rotate again, scores the accounts and keeps the end of the *)
(* log for the prompt. Without a candidate the event is recorded as skipped. *)
ReadExecution(e) ==
  /\ phase[e] = "read"
  /\ \/ Go(e, "none") /\ UNCHANGED <<event, events>>
     \/ TRUE \in MayRotate(e) /\ Go(e, "record") /\ UNCHANGED <<event, events>>
     \/ TRUE \in MayRotate(e) /\ Go(e, "none") /\ EventIs(e, "skipped") /\ CountEvent(e)
  /\ UNCHANGED <<execution, tracking, job, heir>>

RecordEvent(e) ==
  /\ phase[e] = "record" /\ Go(e, "term")
  /\ EventIs(e, "pending") /\ CountEvent(e)
  /\ UNCHANGED <<execution, tracking, job, heir>>

(* The lookup and SIGTERM. Nothing to terminate, or no process any more,     *)
(* does not stop the rotation.                                               *)
Terminate(e) ==
  /\ phase[e] = "term"
  /\ Go(e, IF e \in registered /\ Alive(e) THEN "grace" ELSE "cleanup")
  /\ UNCHANGED <<execution, tracking, job, heir, event, events>>

BugOnlyTerminates(e) ==
  /\ phase[e] = "grace" /\ Go(e, "cleanup")
  /\ UNCHANGED <<execution, tracking, job, heir, event, events>>

(* wait(timeout) returns because the process has exited, or SIGKILL follows. *)
AwaitExit(e) ==
  /\ phase[e] = "grace" /\ Go(e, "cleanup")
  /\ proc' = IF Alive(e) THEN [proc EXCEPT ![e] = "bad"] ELSE proc
  /\ UNCHANGED <<status, runner, verdict, tracking, job, heir, event, events>>

ForgetRotated(e) ==
  /\ phase[e] = "cleanup" /\ Go(e, "finish")
  /\ Forget(e)
  /\ UNCHANGED <<execution, killers, cancels, job, heir, event, events>>

FinishRotated(e) ==
  /\ phase[e] = "finish" /\ Go(e, "continue")
  /\ status' = [status EXCEPT ![e] = "rotated"]
  /\ UNCHANGED <<proc, runner, verdict, tracking, job, heir, event, events>>

(* run_trigger for the continuation, in this thread. *)
StartContinuation(e) ==
  /\ phase[e] = "continue" /\ Go(e, "run")
  /\ \E c \in Executions :
       /\ status[c] = "none" /\ \A d \in 1..(c - 1) : status[d] # "none"
       /\ status' = [status EXCEPT ![c] = "running"]
       /\ RunnerTo(c, "spawn")
       /\ heir' = [heir EXCEPT ![e] = c]
  /\ UNCHANGED <<proc, verdict, tracking, job, event, events>>

CompleteRotation(e) ==
  /\ phase[e] = "run" /\ runner[heir[e]] = "done"
  /\ Go(e, "none") /\ EventIs(e, "completed")
  /\ UNCHANGED <<execution, tracking, job, heir, events>>

(* A statement, or run_trigger before it has a row (the trigger is gone).    *)
MayRaise(e) == \/ phase[e] \in {"record", "finish", "continue"}
               \/ phase[e] = "run" /\ runner[heir[e]] = "done"

BugLeavesEvent(e) ==
  /\ MayRaise(e) /\ Go(e, "none")
  /\ UNCHANGED <<execution, tracking, job, heir, event, events>>

(* The handler of execute_rotation; the statement that it makes succeeds.    *)
RotationRaises(e) ==
  /\ MayRaise(e) /\ Go(e, "none")
  /\ IF phase[e] = "record" THEN UNCHANGED event ELSE EventIs(e, "failed")
  /\ UNCHANGED <<execution, tracking, job, heir, events>>

Rotate(e) == \/ ReadExecution(e) \/ RecordEvent(e) \/ Terminate(e) \/ AwaitExit(e)
             \/ ForgetRotated(e) \/ FinishRotated(e) \/ StartContinuation(e)
             \/ CompleteRotation(e) \/ RotationRaises(e)

-----------------------------------------------------------------------------
RotationNext ==
  \/ Poll
  \/ \E e \in Executions : \/ Runner(e) \/ ProcessExits(e) \/ CancelGraceful(e) \/ ForceKill(e)
                           \/ EvaluateExecution(e) \/ Rotate(e)

RotationSpec == RotationInit /\ [][RotationNext]_rotationVars

(* Threads run and wait(timeout) returns; no process need exit by itself,    *)
(* and the job need not run.                                                 *)
FairRotationSpec ==
  /\ RotationSpec
  /\ \A e \in Executions : WF_rotationVars(Runner(e)) /\ WF_rotationVars(Rotate(e))

-----------------------------------------------------------------------------
(* Every variable has its type; a thread in run_trigger for the continuation *)
(* has one.                                                                  *)
RotationTypeOK ==
  /\ status \in [Executions -> Verdicts \cup {"none", "running", "rotated"}]
  /\ proc \in [Executions -> Exits \cup {"none", "running"}]
  /\ runner \in [Executions -> RunnerPlaces]
  /\ verdict \in [Executions -> Verdicts \cup {"none"}]
  /\ registered \subseteq Executions /\ cancelled \subseteq Executions
  /\ killers \subseteq Executions /\ cancels \in 0..MaxCancels
  /\ due \subseteq Executions /\ rotatePolls \in [Executions -> 0..(HysteresisPolls - 1)]
  /\ phase \in [Executions -> Early \cup {"none", "finish", "continue", "run"}]
  /\ heir \in [Executions -> 0..MaxExecutions]
  /\ \A e \in Executions : phase[e] = "run" => heir[e] \in Executions
  /\ event \in [Executions -> {"none", "pending", "skipped", "completed", "failed"}]
  /\ events \in [Executions -> Nat]

(* An execution and its continuations work on the same paths, one after the  *)
(* other: a continuation's process is not started while that of another      *)
(* member of the chain is alive, whether the rotation terminated it, lost    *)
(* the race against its exit, or came too late.                              *)
OneAgent == \A e, f \in Executions : Alive(e) /\ Alive(f) => e = f

(* "Prevent infinite rotation loops": an execution has at most that many     *)
(* rotation events, although the limit is read, by the pass and again by the *)
(* thread, in other transactions than the one that adds the event.           *)
RotationsLimited == \A e \in Executions : events[e] <= MaxRotations

(* The history of rotations has no pending event for ever: every rotation    *)
(* that was recorded is told how it ended, whatever fails in between.        *)
RotationSettles ==
  \A e \in Executions : event[e] = "pending" ~> event[e] \in {"completed", "failed"}

(* rotation_service.py:35, "Prevent infinite rotation loops", and line 55,   *)
(* "Check rotation chain length limit". Violated: the events of one id are   *)
(* counted, and a continuation has an id of its own.                         *)
ChainBounded == \A e \in Executions : e > MaxRotations + 1 => status[e] = "none"

(* rotation_service.py:317, "Cleanup process tracking and finalize           *)
(* execution". Violated: the runner thread writes its own verdict after it.  *)
RotatedStays ==
  [][\A e \in Executions : status[e] = "rotated" => status'[e] = "rotated"]_rotationVars
=============================================================================
