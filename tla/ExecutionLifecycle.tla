------------------------- MODULE ExecutionLifecycle -------------------------
(***************************************************************************)
(* One execution from its row to its verdict: the runner thread            *)
(* (ExecutionService.run_trigger), the agent's process, the request threads*)
(* that pause, resume and cancel it and the timers they leave behind       *)
(* (ProcessManager), the budget monitor, the graceful shutdown (run.py), a *)
(* crash and the next start. Executions share nothing but ProcessManager.  *)
(* _lock, held for one dictionary access at a time, so one is modelled.    *)
(* One action is one critical section, one UPDATE of the row or one signal.*)
(*                                                                         *)
(* Time is not modelled: a timer and wait(timeout) may expire at any time. *)
(* A SIGTERM is no more than one of the reasons a running process exits:   *)
(* the agent may handle it, and a stopped process does not receive it.     *)
(* A definition named Bug... is a faulty variant of the definition that    *)
(* follows it: the properties were tried on it, no action refers to it.    *)
(***************************************************************************)
EXTENDS Naturals

CONSTANTS Requests,   \* request threads, each of which does one request
          NoTimer,    \* info.pause_timer is None
          MaxFaults   \* bound: failing UPDATEs of the row

ASSUME LifecycleAssumption == NoTimer \notin Requests /\ MaxFaults \in Nat

VARIABLES
  row,         \* execution_logs.status
  proc,        \* the process group: "ok", "bad" are exits with and without code 0
  registered,  \* _processes has the execution
  cancelled,   \* _cancelled has it
  stored,      \* info.pause_timer
  timer,       \* per pause request: its auto-cancel timer
  killer,      \* a _force_kill timer is running
  run,         \* where the runner thread is
  verdict,     \* the status the runner is about to write
  req,         \* per request: where its thread is
  bulk,        \* the resumes that a bulk cancel makes
  server,
  unwatched,   \* the runner gave up after Popen, before wait (history)
  faults

execution == <<row, proc>>
tracking  == <<registered, cancelled, stored>>
timers    == <<timer, killer>>
runner    == <<run, verdict, unwatched>>
requests  == <<req, bulk>>
vars == <<execution, tracking, timers, runner, requests, server, faults>>

Exited == {"ok", "bad"}
Alive  == proc \in {"running", "stopped"}
Final  == {"success", "failed", "timeout", "cancelled"}
Statuses == Final \cup {"none", "running", "paused", "pause_timeout", "interrupted"}
RequestSteps == {"new", "pause_get", "pause_cas", "stop", "arm", "resume_get", "resume_cas",
                 "continue", "disarm", "mark", "term", "done"}
TimerSteps  == {"off", "armed", "get", "cas", "continue", "mark", "term", "clear"}
RunnerSteps == {"new", "budget", "block", "spawn", "register", "threads", "wait", "kill",
                "check", "write", "rewrite", "cleanup", "done", "dead"}
ServerSteps == {"up", "drain", "interrupt", "exit", "exiting", "down", "again"}

Init ==
  /\ row = "none" /\ proc = "none"
  /\ registered = FALSE /\ cancelled = FALSE /\ stored = NoTimer
  /\ timer = [r \in Requests |-> "off"] /\ killer = FALSE
  /\ run = "new" /\ verdict = "none" /\ unwatched = FALSE
  /\ req = [r \in Requests |-> "new"] /\ bulk = {}
  /\ server = "up" /\ faults = 0

Goto(r, step) == req' = [req EXCEPT ![r] = step]
TimerTo(t, step) == timer' = [timer EXCEPT ![t] = step]

(* killpg on a group whose leader has exited: it still finds a child or    *)
(* the unreaped leader, or it raises ProcessLookupError.                   *)
Delivered == {TRUE} \cup (IF proc \in Exited THEN {FALSE} ELSE {})

Stop == proc' = IF proc = "running" THEN "stopped" ELSE proc
Continue == proc' = IF proc = "stopped" THEN "running" ELSE proc
Kill == proc' = IF Alive THEN "bad" ELSE proc

(* update_execution_status_cas: whether it updates the row, and the row.   *)
Matches(expected) == row = expected

(* A timer that has not fired is cancelled; one that has is not stopped.   *)
Cancel(t) == timer' = IF t # NoTimer /\ timer[t] = "armed"
                      THEN [timer EXCEPT ![t] = "off"] ELSE timer

-----------------------------------------------------------------------------
(* The runner thread.                                                      *)

StartExecution ==
  /\ run = "new"
  /\ row' = "running" /\ run' = "budget"
  /\ UNCHANGED <<proc, verdict, unwatched, tracking, timers, requests, server, faults>>

BudgetCheck ==
  /\ run = "budget"
  /\ run' \in {"block", "spawn"}
  /\ UNCHANGED <<execution, verdict, unwatched, tracking, timers, requests, server, faults>>

BugBlocksAndSpawns ==
  /\ run = "block"
  /\ row' = "failed" /\ run' = "spawn"
  /\ UNCHANGED <<proc, verdict, unwatched, tracking, timers, requests, server, faults>>

(* Over budget: the execution is finished as failed. A failure to write    *)
(* that is caught by the check's own handler, and the execution goes on.   *)
BudgetBlocks ==
  /\ run = "block"
  /\ \/ row' = "failed" /\ run' = "cleanup" /\ UNCHANGED faults
     \/ /\ faults < MaxFaults /\ faults' = faults + 1
        /\ run' = "spawn" /\ UNCHANGED row
  /\ UNCHANGED <<proc, verdict, unwatched, tracking, timers, requests, server>>

Spawn ==
  /\ run = "spawn"
  /\ \/ proc' = "running" /\ run' = "register" /\ UNCHANGED verdict
     \/ run' = "rewrite" /\ verdict' = "failed" /\ UNCHANGED proc
  /\ UNCHANGED <<row, unwatched, tracking, timers, requests, server, faults>>

Register ==
  /\ run = "register"
  /\ registered' = TRUE /\ run' = "threads"
  /\ UNCHANGED <<execution, cancelled, stored, timers, verdict, unwatched, requests,
                 server, faults>>

(* The readers and the budget monitor start, or one of them cannot be      *)
(* started and the runner goes to its handler with the process running.    *)
StartThreads ==
  /\ run = "threads"
  /\ \/ run' = "wait" /\ UNCHANGED <<verdict, unwatched>>
     \/ run' = "rewrite" /\ verdict' = "failed" /\ unwatched' = TRUE
  /\ UNCHANGED <<execution, tracking, timers, requests, server, faults>>

WaitReturns ==
  /\ run = "wait" /\ proc \in Exited
  /\ run' = "check"
  /\ UNCHANGED <<execution, verdict, unwatched, tracking, timers, requests, server, faults>>

BugPausedIsFree ==
  /\ run = "wait" /\ proc = "running"
  /\ run' = "kill"
  /\ UNCHANGED <<execution, verdict, unwatched, tracking, timers, requests, server, faults>>

WaitTimesOut ==
  /\ run = "wait" /\ Alive
  /\ run' = "kill"
  /\ UNCHANGED <<execution, verdict, unwatched, tracking, timers, requests, server, faults>>

BugOnlyRunning ==
  /\ run = "kill"
  /\ proc' = IF proc = "running" THEN "bad" ELSE proc
  /\ run' = "write" /\ verdict' = "timeout"
  /\ UNCHANGED <<row, unwatched, tracking, timers, requests, server, faults>>

KillOnTimeout ==
  /\ run = "kill"
  /\ Kill /\ run' = "write" /\ verdict' = "timeout"
  /\ UNCHANGED <<row, unwatched, tracking, timers, requests, server, faults>>

BugIgnoresCancel ==
  /\ run = "check"
  /\ verdict' = IF proc = "ok" THEN "success" ELSE IF cancelled THEN "cancelled" ELSE "failed"
  /\ run' = "write"
  /\ UNCHANGED <<execution, unwatched, tracking, timers, requests, server, faults>>

CheckExit ==
  /\ run = "check"
  /\ verdict' = IF cancelled THEN "cancelled" ELSE IF proc = "ok" THEN "success" ELSE "failed"
  /\ run' = "write"
  /\ UNCHANGED <<execution, unwatched, tracking, timers, requests, server, faults>>

(* finish_execution overwrites whatever the row says. When it fails the    *)
(* runner's handler finishes the execution as failed, once.                *)
Finish ==
  /\ run \in {"write", "rewrite"}
  /\ \/ row' = verdict /\ run' = "cleanup" /\ UNCHANGED <<verdict, faults>>
     \/ /\ faults < MaxFaults /\ faults' = faults + 1
        /\ run' = IF run = "write" THEN "rewrite" ELSE "cleanup"
        /\ verdict' = "failed" /\ UNCHANGED row
  /\ UNCHANGED <<proc, unwatched, tracking, timers, requests, server>>

Cleanup ==
  /\ run = "cleanup"
  /\ registered' = FALSE /\ cancelled' = FALSE
  /\ Cancel(IF registered THEN stored ELSE NoTimer)
  /\ run' = "done"
  /\ UNCHANGED <<execution, stored, killer, verdict, unwatched, requests, server, faults>>

-----------------------------------------------------------------------------
(* The process, and the threads and timers that kill it.                   *)

ProcessExits ==
  /\ proc = "running"
  /\ proc' \in Exited
  /\ UNCHANGED <<row, tracking, timers, runner, requests, server, faults>>

ForceKill ==
  /\ killer
  /\ killer' = FALSE /\ Kill
  /\ UNCHANGED <<row, tracking, timer, runner, requests, server, faults>>

(* budget_monitor at the hard limit.                                       *)
BudgetKills ==
  /\ run = "wait" /\ Alive
  /\ Kill
  /\ UNCHANGED <<row, tracking, timers, runner, requests, server, faults>>

-----------------------------------------------------------------------------
(* Requests: the route reads the row, then ProcessManager acts on it.      *)

AskPause(r) ==
  /\ req[r] = "new" /\ server # "down" /\ row = "running" /\ Goto(r, "pause_get")
  /\ UNCHANGED <<execution, tracking, timers, runner, bulk, server, faults>>

AskResume(r) ==
  /\ req[r] = "new" /\ server # "down" /\ row = "paused" /\ Goto(r, "resume_get")
  /\ UNCHANGED <<execution, tracking, timers, runner, bulk, server, faults>>

(* Cancel, bulk cancel of a running execution.                             *)
AskCancel(r) ==
  /\ req[r] = "new" /\ server # "down" /\ row = "running" /\ Goto(r, "mark")
  /\ UNCHANGED <<execution, tracking, timers, runner, bulk, server, faults>>

(* Bulk cancel of a paused execution: resume, then cancel whatever resume  *)
(* returned.                                                               *)
AskBulkCancel(r) ==
  /\ req[r] = "new" /\ server # "down" /\ row = "paused" /\ Goto(r, "resume_get")
  /\ bulk' = bulk \cup {r}
  /\ UNCHANGED <<execution, tracking, timers, runner, server, faults>>

(* budget_monitor at the time limit: cancel_graceful, whatever the row.    *)
TimeLimit(r) ==
  /\ req[r] = "new" /\ run = "wait" /\ Alive /\ Goto(r, "mark")
  /\ UNCHANGED <<execution, tracking, timers, runner, bulk, server, faults>>

PauseGet(r) ==
  /\ req[r] = "pause_get"
  /\ Goto(r, IF registered THEN "pause_cas" ELSE "done")
  /\ UNCHANGED <<execution, tracking, timers, runner, bulk, server, faults>>

BugPausesAnything(r) ==
  /\ req[r] = "pause_cas"
  /\ row' = "paused" /\ Goto(r, "stop")
  /\ UNCHANGED <<proc, tracking, timers, runner, bulk, server, faults>>

PauseCas(r) ==
  /\ req[r] = "pause_cas"
  /\ IF Matches("running") THEN row' = "paused" /\ Goto(r, "stop")
                           ELSE UNCHANGED row /\ Goto(r, "done")
  /\ UNCHANGED <<proc, tracking, timers, runner, bulk, server, faults>>

PauseStop(r) ==
  /\ req[r] = "stop"
  /\ \E delivered \in Delivered :
       /\ IF delivered THEN Stop ELSE UNCHANGED proc
       /\ Goto(r, IF delivered THEN "arm" ELSE "done")
  /\ UNCHANGED <<row, tracking, timers, runner, bulk, server, faults>>

PauseArm(r) ==
  /\ req[r] = "arm" /\ Goto(r, "done")
  /\ TimerTo(r, "armed") /\ stored' = r
  /\ UNCHANGED <<execution, registered, cancelled, killer, runner, bulk, server, faults>>

AfterResume(r) == IF r \in bulk THEN "mark" ELSE "done"

ResumeGet(r) ==
  /\ req[r] = "resume_get"
  /\ Goto(r, IF registered THEN "resume_cas" ELSE AfterResume(r))
  /\ UNCHANGED <<execution, tracking, timers, runner, bulk, server, faults>>

ResumeCas(r) ==
  /\ req[r] = "resume_cas"
  /\ IF Matches("paused") THEN row' = "running" /\ Goto(r, "continue")
                          ELSE UNCHANGED row /\ Goto(r, AfterResume(r))
  /\ UNCHANGED <<proc, tracking, timers, runner, bulk, server, faults>>

ResumeContinue(r) ==
  /\ req[r] = "continue"
  /\ \E delivered \in Delivered :
       /\ IF delivered THEN Continue ELSE UNCHANGED proc
       /\ Goto(r, IF delivered THEN "disarm" ELSE AfterResume(r))
  /\ UNCHANGED <<row, tracking, timers, runner, bulk, server, faults>>

ResumeDisarm(r) ==
  /\ req[r] = "disarm" /\ Goto(r, AfterResume(r))
  /\ Cancel(stored) /\ stored' = NoTimer
  /\ UNCHANGED <<execution, registered, cancelled, killer, runner, bulk, server, faults>>

(* cancel_graceful: the mark and the lookup under the lock, then SIGTERM   *)
(* and the timer that will send SIGKILL.                                   *)
CancelMark(r) ==
  /\ req[r] = "mark"
  /\ cancelled' = TRUE
  /\ Goto(r, IF registered THEN "term" ELSE "done")
  /\ UNCHANGED <<execution, registered, stored, timers, runner, bulk, server, faults>>

CancelTerm(r) ==
  /\ req[r] = "term" /\ Goto(r, "done")
  /\ \E delivered \in Delivered : killer' = (killer \/ delivered)
  /\ UNCHANGED <<execution, tracking, timer, runner, bulk, server, faults>>

Request(r) ==
  \/ PauseGet(r) \/ PauseCas(r) \/ PauseStop(r) \/ PauseArm(r)
  \/ ResumeGet(r) \/ ResumeCas(r) \/ ResumeContinue(r) \/ ResumeDisarm(r)
  \/ CancelMark(r) \/ CancelTerm(r)

-----------------------------------------------------------------------------
(* The auto-cancel timer that pause request t started.                     *)

TimerFires(t) ==
  /\ timer[t] = "armed" /\ TimerTo(t, "get")
  /\ UNCHANGED <<execution, tracking, killer, runner, requests, server, faults>>

TimerGet(t) ==
  /\ timer[t] = "get" /\ TimerTo(t, IF registered THEN "cas" ELSE "off")
  /\ UNCHANGED <<execution, tracking, killer, runner, requests, server, faults>>

(* The UPDATE may fail: the exception ends the timer's thread.             *)
TimerCas(t) ==
  /\ timer[t] = "cas"
  /\ \/ /\ IF Matches("paused") THEN row' = "pause_timeout" /\ TimerTo(t, "continue")
                                ELSE UNCHANGED row /\ TimerTo(t, "off")
        /\ UNCHANGED faults
     \/ /\ faults < MaxFaults /\ faults' = faults + 1
        /\ TimerTo(t, "off") /\ UNCHANGED row
  /\ UNCHANGED <<proc, tracking, killer, runner, requests, server>>

TimerContinue(t) ==
  /\ timer[t] = "continue"
  /\ \E delivered \in Delivered :
       /\ IF delivered THEN Continue ELSE UNCHANGED proc
       /\ TimerTo(t, IF delivered THEN "mark" ELSE "off")
  /\ UNCHANGED <<row, tracking, killer, runner, requests, server, faults>>

TimerMark(t) ==
  /\ timer[t] = "mark" /\ TimerTo(t, "term")
  /\ cancelled' = TRUE
  /\ UNCHANGED <<execution, registered, stored, killer, runner, requests, server, faults>>

TimerTerm(t) ==
  /\ timer[t] = "term" /\ TimerTo(t, "clear")
  /\ \E delivered \in Delivered : killer' = (killer \/ delivered)
  /\ UNCHANGED <<execution, tracking, runner, requests, server, faults>>

TimerClear(t) ==
  /\ timer[t] = "clear" /\ TimerTo(t, "off")
  /\ stored' = NoTimer
  /\ UNCHANGED <<execution, registered, cancelled, killer, runner, requests, server, faults>>

AutoCancel(t) ==
  \/ TimerFires(t) \/ TimerGet(t) \/ TimerCas(t) \/ TimerContinue(t)
  \/ TimerMark(t) \/ TimerTerm(t) \/ TimerClear(t)

-----------------------------------------------------------------------------
(* The server: SIGTERM drains it, and it may die at any time. The process  *)
(* has a session of its own and survives.                                  *)

ShutdownBegins ==
  /\ server = "up"
  /\ server' = IF registered THEN "drain" ELSE "exit"
  /\ UNCHANGED <<execution, tracking, timers, runner, requests, faults>>

(* cancel_all: wait for the process, or kill it when the time is over.     *)
Drain ==
  /\ server = "drain" /\ server' = "interrupt"
  /\ Kill
  /\ UNCHANGED <<row, tracking, timers, runner, requests, faults>>

Interrupt ==
  /\ server = "interrupt" /\ server' = "exit"
  /\ row' = IF Matches("running") THEN "interrupted" ELSE row
  /\ UNCHANGED <<proc, tracking, timers, runner, requests, faults>>

Die ==
  /\ server' = "down"
  /\ registered' = FALSE /\ cancelled' = FALSE /\ stored' = NoTimer
  /\ timer' = [r \in Requests |-> "off"] /\ killer' = FALSE
  /\ run' = "dead" /\ verdict' = "none"
  /\ req' = [r \in Requests |-> IF req[r] = "new" THEN "new" ELSE "done"]
  /\ UNCHANGED <<execution, unwatched, bulk, faults>>

(* _atexit_cleanup drains once more: an execution may have been registered *)
(* since the shutdown looked.                                              *)
AtExit ==
  /\ server = "exit" /\ server' = "exiting"
  /\ IF registered THEN Kill ELSE UNCHANGED proc
  /\ UNCHANGED <<row, tracking, timers, runner, requests, faults>>

Exit  == server = "exiting" /\ Die
Crash == server \in {"up", "drain", "interrupt", "exit"} /\ Die

BugForgetsStale ==
  /\ server = "down" /\ server' = "again"
  /\ UNCHANGED <<execution, tracking, timers, runner, requests, faults>>

Restart ==
  /\ server = "down" /\ server' = "again"
  /\ row' = IF Matches("running") THEN "interrupted" ELSE row
  /\ UNCHANGED <<proc, tracking, timers, runner, requests, faults>>

-----------------------------------------------------------------------------
RunnerStep ==
  \/ StartExecution \/ BudgetCheck \/ BudgetBlocks \/ Spawn \/ Register \/ StartThreads
  \/ WaitReturns \/ WaitTimesOut \/ KillOnTimeout \/ CheckExit \/ Finish \/ Cleanup

Next ==
  \/ RunnerStep
  \/ ProcessExits \/ ForceKill \/ BudgetKills
  \/ \E r \in Requests : \/ AskPause(r) \/ AskResume(r) \/ AskCancel(r)
                         \/ AskBulkCancel(r) \/ TimeLimit(r) \/ Request(r)
  \/ \E t \in Requests : AutoCancel(t)
  \/ ShutdownBegins \/ Drain \/ Interrupt \/ AtExit \/ Exit \/ Crash \/ Restart

Spec == Init /\ [][Next]_vars

(* Threads run, timers expire, wait(timeout) returns, and a server that    *)
(* died is started again; a process need not ever exit, nobody need ever   *)
(* ask for anything, and the server need not crash.                        *)
Fairness ==
  /\ WF_vars(RunnerStep) /\ WF_vars(ForceKill)
  /\ \A r \in Requests : WF_vars(Request(r)) /\ WF_vars(AutoCancel(r))
  /\ WF_vars(Drain) /\ WF_vars(Interrupt) /\ WF_vars(AtExit) /\ WF_vars(Exit) /\ WF_vars(Restart)

FairSpec == Spec /\ Fairness

-----------------------------------------------------------------------------
(* Every variable has its type.                                            *)
TypeOK ==
  /\ row \in Statuses /\ proc \in Exited \cup {"none", "running", "stopped"}
  /\ registered \in BOOLEAN /\ cancelled \in BOOLEAN /\ stored \in Requests \cup {NoTimer}
  /\ timer \in [Requests -> TimerSteps] /\ killer \in BOOLEAN
  /\ run \in RunnerSteps /\ verdict \in Final \cup {"none"} /\ unwatched \in BOOLEAN
  /\ req \in [Requests -> RequestSteps] /\ bulk \in SUBSET Requests
  /\ server \in ServerSteps /\ faults \in 0..MaxFaults

(* A verdict in the row is the truth: once the row says how the execution  *)
(* ended no process of it runs or is stopped, and "success" was an exit    *)
(* with code 0. The exception is a runner that gave up between Popen and   *)
(* wait, which leaves the process to itself.                               *)
VerdictIsTrue ==
  row \in Final /\ ~unwatched =>
    /\ ~Alive
    /\ row = "success" => proc = "ok"

(* No request, timer, shutdown or start of the server takes back a         *)
(* verdict, whatever it read of the row before ("CAS: only pause if        *)
(* currently running (prevents race with completion)").                    *)
VerdictStays == [][(row \in Final) => (row' = row)]_vars

(* A cancel or an auto-cancel that marked the execution while its process  *)
(* was registered and alive is never reported as a success.                *)
CancelSticks == [](cancelled /\ registered /\ Alive => [](row # "success"))

(* To the rest of the system it is the simple thing that Execution says,   *)
(* where an open execution is one whose row is running, paused, timed out  *)
(* in a pause or interrupted, and a live agent runs or is stopped.         *)
Contract == INSTANCE Execution WITH
  Verdicts <- Final,
  status <- IF row \in Final \cup {"none"} THEN row ELSE "open",
  agent <- IF Alive THEN "live" ELSE proc,
  abandoned <- unwatched
IsExecution == Contract!Spec

(* A process that a pause stopped does not stay stopped while the server   *)
(* is up: a resume, the auto-cancel or the run's own timeout frees it, in  *)
(* whatever order pauses and resumes overlapped.                           *)
StoppedFreed == proc = "stopped" ~> (proc # "stopped" \/ run = "dead" \/ unwatched)

(* An execution that was started gets its verdict, paused and auto-        *)
(* cancelled ones too, unless the server dies or writes of the row fail.   *)
RowEnds == row = "running" ~> (row \in Final \/ run = "dead" \/ faults > 0)

(* After the server died, a row that said "running" does not go on saying  *)
(* so: the next start marks it.                                            *)
NoStaleRunning == [](run = "dead" => <>[](row # "running"))

(* An execution does not stay paused ("Auto-cancel paused executions after *)
(* this many seconds"). Violated: the timer dies with the server, and the  *)
(* next start looks at "running" rows only.                                *)
PausedEnds == row = "paused" ~> row # "paused"
=============================================================================
