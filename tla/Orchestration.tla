---------------------------- MODULE Orchestration ----------------------------
(***************************************************************************)
(* Calls of OrchestrationService.execute_with_fallback, each walking the   *)
(* fallback chain of its trigger, and the account state they share: the    *)
(* sessions of AgentSchedulerService, in memory and in agent_sessions, the *)
(* rate limits of backend_accounts, and the usage poll that stops and      *)
(* resumes accounts. One action is one critical section or one statement.  *)
(*                                                                         *)
(* The accounts are those of one backend type. Which free account          *)
(* pick_best_account prefers, what the breaker answers (CircuitBreaker),   *)
(* how an execution ends (ExecutionLifecycle) and what the usage windows   *)
(* say are unpredictable, and a cooldown may expire at any time.           *)
(* A definition named Bug... is a faulty variant of the one that follows.  *)
(***************************************************************************)
EXTENDS Naturals, Sequences

CONSTANTS
  Workers,      \* threads that call execute_with_fallback
  Pollers,      \* threads in evaluate_all_accounts: the job, POST /monitoring/poll
  Accounts,
  AnyAccount,   \* a chain entry without account_id
  Chains,       \* fallback chains: sequences of accounts and AnyAccount
  NoAccount,
  Hysteresis,   \* resume_hysteresis_polls
  MaxRestarts, MaxFaults   \* bounds: restarts, failing statements

ASSUME OrchestrationAssumption ==
  /\ AnyAccount \notin Accounts /\ NoAccount \notin Accounts
  /\ Chains \subseteq Seq(Accounts \cup {AnyAccount})
  /\ Hysteresis \in Nat \ {0} /\ MaxRestarts \in Nat /\ MaxFaults \in Nat

VARIABLES
  session,   \* _session_states: state and consecutive_safe_polls per account
  row,       \* agent_sessions
  limited,   \* accounts whose rate_limited_until is in the future
  pc, todo, acct,   \* per worker: its step, the rest of its chain, its account
  why,       \* per worker: why entries did not execute
  outcome,   \* per worker: how its execution ended
  step, target, held,   \* per poller: its step, its account, the values to store
  safe,      \* safe evaluations since the last unsafe one (history)
  stale,     \* accounts whose row may be out of date (history)
  inherited, \* accounts whose session is the one that init loaded (history)
  owed,      \* workers whose event was rate-limited and not executed since (history)
  restarts, faults

sessions == <<session, row>>
calls    == <<pc, todo, acct, why, outcome, owed>>
polls    == <<step, target, held>>
history  == <<safe, stale, inherited>>
bounds   == <<restarts, faults>>
vars     == <<sessions, limited, calls, polls, history, bounds>>

States == {"none", "queued", "running", "stopped"}
Session(state, n) == [state |-> state, polls |-> n]
None    == Session("none", 0)   \* no session: "none" is what the log calls it
Stopped == Session("stopped", 0)

WorkerSteps == {"idle", "select", "limit", "mark", "mark_set", "mark_row", "run",
                "unmark", "unmark_set", "unmark_row", "settle", "limit_row", "exhausted",
                "direct"}
Outcomes == {"limited", "transient", "other"}

Init ==
  /\ session = [a \in Accounts |-> None] /\ row = session /\ limited = {}
  /\ pc = [w \in Workers |-> "idle"] /\ todo = [w \in Workers |-> << >>]
  /\ acct = [w \in Workers |-> NoAccount] /\ why = [w \in Workers |-> {}]
  /\ outcome = [w \in Workers |-> "none"] /\ owed = {}
  /\ step = [p \in Pollers |-> "idle"] /\ target = [p \in Pollers |-> NoAccount]
  /\ held = [p \in Pollers |-> None]
  /\ safe = [a \in Accounts |-> 0] /\ stale = {} /\ inherited = {}
  /\ restarts = 0 /\ faults = 0

Fault == faults < MaxFaults /\ faults' = faults + 1 /\ UNCHANGED restarts

(* Who has changed the session of a in memory and not yet stored it.       *)
Writers(a) == {w \in Workers : acct[w] = a /\ pc[w] \in {"mark_row", "unmark_row"}}
              \cup {p \in Pollers : target[p] = a /\ step[p] \in {"reread", "row"}}

(* The part of a change that is under the lock. The row is up to date once *)
(* the change is stored, unless another writer is still on its way.        *)
Change(a, s) ==
  /\ session' = [session EXCEPT ![a] = s]
  /\ stale' = IF Writers(a) = {} THEN stale \ {a} ELSE stale \cup {a}
  /\ inherited' = inherited \ {a}

(* upsert_agent_session, after the lock was released; it may fail.         *)
Store(a, s) ==
  \/ row' = [row EXCEPT ![a] = s] /\ UNCHANGED <<stale, bounds>>
  \/ Fault /\ stale' = stale \cup {a} /\ UNCHANGED row

-----------------------------------------------------------------------------
(* execute_with_fallback.                                                  *)

Goto(w, s) == pc' = [pc EXCEPT ![w] = s]

Return(w) == /\ Goto(w, "idle")
             /\ todo' = [todo EXCEPT ![w] = << >>]
             /\ acct' = [acct EXCEPT ![w] = NoAccount]
             /\ why' = [why EXCEPT ![w] = {}]
             /\ outcome' = [outcome EXCEPT ![w] = "none"]

(* The next entry of the chain, or its end.                                *)
Continue(w, reason) ==
  /\ Goto(w, IF Tail(todo[w]) = << >> THEN "exhausted" ELSE "select")
  /\ todo' = [todo EXCEPT ![w] = Tail(@)]
  /\ why' = [why EXCEPT ![w] = @ \cup reason]
  /\ acct' = [acct EXCEPT ![w] = NoAccount]
  /\ outcome' = [outcome EXCEPT ![w] = "none"]

(* A call that its budget blocks returns at once and changes nothing.      *)
Begin(w) ==
  /\ pc[w] = "idle"
  /\ \E chain \in Chains : /\ todo' = [todo EXCEPT ![w] = chain]
                            /\ Goto(w, IF chain = << >> THEN "direct" ELSE "select")
  /\ UNCHANGED <<sessions, limited, acct, why, outcome, owed, polls, history, bounds>>

(* What an exhausted chain returns; "retry" is CHAIN_EXHAUSTED with a call *)
(* of schedule_retry.                                                      *)
BugFastFailsTooOften(reasons) ==
  IF "breaker" \in reasons /\ "account" \notin reasons THEN "breaker_open"
  ELSE IF "limited" \in reasons THEN "retry" ELSE "exhausted"

Exhausted(reasons) ==
  IF "breaker" \in reasons /\ reasons \cap {"limited", "account"} = {} THEN "breaker_open"
  ELSE IF "limited" \in reasons THEN "retry" ELSE "exhausted"

ChainExhausted(w) ==
  /\ pc[w] = "exhausted"
  /\ owed' = IF Exhausted(why[w]) = "retry" THEN owed \ {w} ELSE owed
  /\ Return(w)
  /\ UNCHANGED <<sessions, limited, polls, history, bounds>>

(* Without a chain the trigger runs on no account in particular, and a     *)
(* rate limit is not looked for.                                           *)
DirectRunEnds(w) ==
  /\ pc[w] = "direct"
  /\ Return(w)
  /\ UNCHANGED <<sessions, limited, owed, polls, history, bounds>>

BreakerRefuses(w) ==
  /\ pc[w] = "select"
  /\ Continue(w, {"breaker"})
  /\ UNCHANGED <<sessions, limited, owed, polls, history, bounds>>

(* The breaker admits the entry's backend, here and in PickBestAccount.    *)
CheckEligibility(w) ==
  /\ pc[w] = "select" /\ Head(todo[w]) # AnyAccount
  /\ IF session[Head(todo[w])].state = "stopped" THEN Continue(w, {})
     ELSE /\ Goto(w, "limit") /\ acct' = [acct EXCEPT ![w] = Head(todo[w])]
          /\ UNCHANGED <<todo, why, outcome>>
  /\ UNCHANGED <<sessions, limited, owed, polls, history, bounds>>

CheckRateLimit(w) ==
  /\ pc[w] = "limit"
  /\ IF acct[w] \in limited THEN Continue(w, {})
     ELSE Goto(w, "mark") /\ UNCHANGED <<todo, acct, why, outcome>>
  /\ UNCHANGED <<sessions, limited, owed, polls, history, bounds>>

(* pick_best_account does not ask the scheduler.                           *)
PickBestAccount(w) ==
  /\ pc[w] = "select" /\ Head(todo[w]) = AnyAccount
  /\ IF Accounts \subseteq limited THEN Continue(w, {"account"})
     ELSE /\ Goto(w, "mark") /\ UNCHANGED <<todo, why, outcome>>
          /\ \E a \in Accounts \ limited : acct' = [acct EXCEPT ![w] = a]
  /\ UNCHANGED <<sessions, limited, owed, polls, history, bounds>>

-----------------------------------------------------------------------------
(* _try_execute_chain_entry.                                               *)

(* mark_running: the state is read under the lock and acted on after it.   *)
MarkRunning(w) ==
  /\ pc[w] = "mark"
  /\ Goto(w, IF session[acct[w]].state = "stopped" THEN "run" ELSE "mark_set")
  /\ UNCHANGED <<sessions, limited, todo, acct, why, outcome, owed, polls, history, bounds>>

MarkSet(w) ==
  /\ pc[w] = "mark_set"
  /\ Change(acct[w], Session("running", 0))
  /\ Goto(w, "mark_row")
  /\ safe' = [safe EXCEPT ![acct[w]] = 0]
  /\ UNCHANGED <<row, limited, todo, acct, why, outcome, owed, polls, bounds>>

(* A failure is logged, and the execution goes on.                         *)
MarkStore(w) ==
  /\ pc[w] = "mark_row"
  /\ Store(acct[w], Session("running", 0))
  /\ Goto(w, "run")
  /\ UNCHANGED <<session, limited, todo, acct, why, outcome, owed, polls, safe, inherited>>

(* run_trigger returns. "other" is success, failure, no execution_id, and  *)
(* the exception of a verdict that could not be written: the call ends.    *)
RunEnds(w) ==
  /\ pc[w] = "run"
  /\ Goto(w, "unmark")
  /\ \E o \in Outcomes : outcome' = [outcome EXCEPT ![w] = o]
  /\ UNCHANGED <<sessions, limited, todo, acct, why, owed, polls, history, bounds>>

(* mark_completed, which runs after an exception too.                      *)
BugForgetsLimited(w) ==
  /\ pc[w] = "unmark"
  /\ Goto(w, IF session[acct[w]].state = "running" /\ outcome[w] # "limited"
             THEN "unmark_set" ELSE "settle")
  /\ UNCHANGED <<sessions, limited, todo, acct, why, outcome, owed, polls, history, bounds>>

MarkCompleted(w) ==
  /\ pc[w] = "unmark"
  /\ Goto(w, IF session[acct[w]].state = "running" THEN "unmark_set" ELSE "settle")
  /\ UNCHANGED <<sessions, limited, todo, acct, why, outcome, owed, polls, history, bounds>>

UnmarkSet(w) ==
  /\ pc[w] = "unmark_set"
  /\ Change(acct[w], Session("queued", 0))
  /\ Goto(w, "unmark_row")
  /\ safe' = [safe EXCEPT ![acct[w]] = 0]
  /\ UNCHANGED <<row, limited, todo, acct, why, outcome, owed, polls, bounds>>

UnmarkStore(w) ==
  /\ pc[w] = "unmark_row"
  /\ Store(acct[w], Session("queued", 0))
  /\ Goto(w, "settle")
  /\ UNCHANGED <<session, limited, todo, acct, why, outcome, owed, polls, safe, inherited>>

(* What the execution showed: on to the next entry, or the call's result.  *)
Settle(w) ==
  /\ pc[w] = "settle"
  /\ \/ /\ outcome[w] = "limited" /\ owed' = owed \cup {w}
        /\ Goto(w, "limit_row") /\ UNCHANGED <<todo, acct, why, outcome>>
     \/ /\ outcome[w] = "transient" /\ Continue(w, {}) /\ UNCHANGED owed
     \/ /\ outcome[w] = "other" /\ Return(w) /\ owed' = owed \ {w}
  /\ UNCHANGED <<sessions, limited, polls, history, bounds>>

(* mark_rate_limited: a failing statement leaves execute_with_fallback.    *)
MarkRateLimited(w) ==
  /\ pc[w] = "limit_row"
  /\ \/ /\ limited' = limited \cup {acct[w]} /\ Continue(w, {"limited"})
        /\ UNCHANGED <<owed, bounds>>
     \/ Fault /\ Return(w) /\ owed' = owed \ {w} /\ UNCHANGED limited
  /\ UNCHANGED <<sessions, polls, history>>

(* The cooldown is over, or POST .../clear-rate-limit.                     *)
LimitEnds(a) ==
  /\ a \in limited /\ limited' = limited \ {a}
  /\ UNCHANGED <<sessions, calls, polls, history, bounds>>

-----------------------------------------------------------------------------
(* evaluate_all_accounts, one account at a time.                           *)

PollStep(p, s, a, v) == /\ step' = [step EXCEPT ![p] = s]
                        /\ target' = [target EXCEPT ![p] = a]
                        /\ held' = [held EXCEPT ![p] = v]

(* A window is at its limit, or will be before the safety margin is over.  *)
BugKeepsPolls(p, a) ==
  /\ step[p] = "idle"
  /\ Change(a, [session[a] EXCEPT !.state = "stopped"])
  /\ safe' = [safe EXCEPT ![a] = 0]
  /\ PollStep(p, "row", a, Stopped)
  /\ UNCHANGED <<row, limited, calls, bounds>>

StopAccount(p, a) ==
  /\ step[p] = "idle"
  /\ Change(a, Stopped)
  /\ safe' = [safe EXCEPT ![a] = 0]
  /\ PollStep(p, "row", a, Stopped)
  /\ UNCHANGED <<row, limited, calls, bounds>>

(* _maybe_resume.                                                          *)
BugOnePollMore(p, a) ==
  /\ step[p] = "idle" /\ session[a].state = "stopped"
  /\ LET n == session[a].polls + 1
     IN Change(a, IF n > Hysteresis THEN Session("queued", 0) ELSE Session("stopped", n))
  /\ safe' = [safe EXCEPT ![a] = IF @ < Hysteresis THEN @ + 1 ELSE @]
  /\ PollStep(p, "reread", a, None)
  /\ UNCHANGED <<row, limited, calls, bounds>>

MaybeResume(p, a) ==
  /\ step[p] = "idle" /\ session[a].state = "stopped"
  /\ LET n == session[a].polls + 1
     IN Change(a, IF n >= Hysteresis THEN Session("queued", 0) ELSE Session("stopped", n))
  /\ safe' = [safe EXCEPT ![a] = IF @ < Hysteresis THEN @ + 1 ELSE @]
  /\ PollStep(p, "reread", a, None)
  /\ UNCHANGED <<row, limited, calls, bounds>>

(* It stores what it then finds, not what it has set; a poll that resumes  *)
(* the account at this moment is taken to do so before or after the read.  *)
BugStoresTooEarly(p) ==
  /\ step[p] = "reread"
  /\ PollStep(p, "row", target[p], row[target[p]])
  /\ UNCHANGED <<sessions, limited, calls, history, bounds>>

Reread(p) ==
  /\ step[p] = "reread"
  /\ PollStep(p, "row", target[p], session[target[p]])
  /\ UNCHANGED <<sessions, limited, calls, history, bounds>>

(* A failure ends the whole evaluation.                                    *)
PollStore(p) ==
  /\ step[p] = "row"
  /\ Store(target[p], held[p])
  /\ PollStep(p, "idle", NoAccount, None)
  /\ UNCHANGED <<session, limited, calls, safe, inherited>>

-----------------------------------------------------------------------------
(* The server goes down and comes back: init loads the rows, or fails and  *)
(* leaves no sessions.                                                     *)
Reboot(loaded) ==
  /\ restarts < MaxRestarts /\ restarts' = restarts + 1
  /\ session' = loaded
  /\ safe' = [a \in Accounts |-> loaded[a].polls]
  /\ pc' = [w \in Workers |-> "idle"] /\ todo' = [w \in Workers |-> << >>]
  /\ acct' = [w \in Workers |-> NoAccount] /\ why' = [w \in Workers |-> {}]
  /\ outcome' = [w \in Workers |-> "none"] /\ owed' = {}
  /\ step' = [p \in Pollers |-> "idle"] /\ target' = [p \in Pollers |-> NoAccount]
  /\ held' = [p \in Pollers |-> None]
  /\ inherited' = Accounts
  /\ UNCHANGED <<row, limited>>

Restart == Reboot(row) /\ stale' = {} /\ UNCHANGED faults

RestartWithoutSessions ==
  /\ faults < MaxFaults /\ faults' = faults + 1
  /\ Reboot([a \in Accounts |-> None]) /\ stale' = Accounts

-----------------------------------------------------------------------------
Call(w) ==
  \/ BreakerRefuses(w) \/ CheckEligibility(w) \/ CheckRateLimit(w) \/ PickBestAccount(w)
  \/ MarkRunning(w) \/ MarkSet(w) \/ MarkStore(w) \/ RunEnds(w) \/ DirectRunEnds(w)
  \/ ChainExhausted(w)
  \/ MarkCompleted(w) \/ UnmarkSet(w) \/ UnmarkStore(w) \/ Settle(w) \/ MarkRateLimited(w)

Evaluate(p, a) == StopAccount(p, a) \/ MaybeResume(p, a)
Save(p) == Reread(p) \/ PollStore(p)

Next ==
  \/ \E w \in Workers : Begin(w) \/ Call(w)
  \/ \E p \in Pollers : Save(p) \/ \E a \in Accounts : Evaluate(p, a)
  \/ \E a \in Accounts : LimitEnds(a)
  \/ Restart \/ RestartWithoutSessions

Spec == Init /\ [][Next]_vars

-----------------------------------------------------------------------------
TypeOK ==
  /\ \A m \in {session, row} :
       m \in [Accounts -> [state : States, polls : Nat]]
  /\ \A a \in Accounts : session[a].polls < Hysteresis /\ row[a].polls < Hysteresis
  /\ limited \subseteq Accounts
  /\ pc \in [Workers -> WorkerSteps] /\ todo \in [Workers -> Seq(Accounts \cup {AnyAccount})]
  /\ acct \in [Workers -> Accounts \cup {NoAccount}]
  /\ why \in [Workers -> SUBSET {"breaker", "account", "limited"}]
  /\ outcome \in [Workers -> Outcomes \cup {"none"}] /\ owed \subseteq Workers
  /\ step \in [Pollers -> {"idle", "reread", "row"}]
  /\ target \in [Pollers -> Accounts \cup {NoAccount}]
  /\ held \in [Pollers -> [state : States, polls : Nat]]
  /\ safe \in [Accounts -> 0..Hysteresis] /\ stale \subseteq Accounts
  /\ inherited \subseteq Accounts
  /\ restarts \in 0..MaxRestarts /\ faults \in 0..MaxFaults

(* An account that says "running" has an execution between mark_running     *)
(* and mark_completed, however the hooks of several executions and the poll *)
(* overlap, unless the state was left by the server's previous life.        *)
Busy(a) == {w \in Workers : acct[w] = a
                            /\ pc[w] \in {"mark_row", "run", "unmark", "unmark_set"}}
RunningIsBusy ==
  \A a \in Accounts : session[a].state = "running" /\ a \notin inherited => Busy(a) # {}

(* "Only resume after N consecutive safe polls": a stopped account stays    *)
(* stopped until then. The exceptions: a hook that read its state before    *)
(* it was stopped writes it after, and a restart that cannot load it.       *)
StopSticks ==
  [][\A a \in Accounts :
       (session[a].state = "stopped" /\ session'[a].state # "stopped")
         => \/ safe'[a] >= Hysteresis
            \/ \E w \in Workers : acct[w] = a /\ pc[w] \in {"mark_set", "unmark_set"}
            \/ restarts' # restarts]_vars

(* "SQLite-persisted session states with an in-memory cache": as soon as    *)
(* nobody is about to store the session of an account, its row agrees with  *)
(* memory, unless two writers overlapped or a statement failed; the next    *)
(* undisturbed change repairs it.                                           *)
RowAgrees ==
  \A a \in Accounts : a \notin stale /\ Writers(a) = {} => row[a] = session[a]

(* An event whose execution was rate-limited is not dropped: before its     *)
(* call returns, another entry executes it, or a retry is scheduled, unless *)
(* the account could not be marked.                                         *)
LimitedIsRetried == \A w \in owed : pc[w] # "idle"
=============================================================================
