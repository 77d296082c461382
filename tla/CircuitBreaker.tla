--------------------------- MODULE CircuitBreaker ---------------------------
(***************************************************************************)
(* The circuit breaker of one AI backend                                   *)
(* (services/circuit_breaker_service.py) and the executions that ask it    *)
(* and report to it. Breakers of different backends share nothing. Each    *)
(* operation holds the backend's lock, so it is one action; between        *)
(* can_execute and the record_... of the same execution, minutes later,    *)
(* anything may happen, a restart of the server included.                  *)
(*                                                                         *)
(* Time is counted in ticks of a fraction of reset_timeout; an age stops   *)
(* at ResetTimeout, beyond which nothing distinguishes it.                 *)
(* A definition named Bug... is a faulty variant of the definition that    *)
(* follows it: the properties were tried on it, no action refers to it.    *)
(***************************************************************************)
EXTENDS Integers, FiniteSets

CONSTANTS Executions,        \* threads that may have an execution in flight
          FailMax,           \* fail_max
          ResetTimeout,      \* reset_timeout
          SuccessThreshold,  \* success_threshold
          MaxRestarts,       \* bound: server restarts
          MaxFaults,         \* bound: failing reads and writes of the table
          NoRow              \* no row in circuit_breakers, or no breaker in memory

ASSUME BreakerAssumption ==
  /\ FailMax \in Nat \ {0} /\ ResetTimeout \in Nat \ {0}
  /\ SuccessThreshold \in Nat \ {0}
  /\ MaxRestarts \in Nat /\ MaxFaults \in Nat

VARIABLES
  breaker,    \* _breakers[backend_type]
  stored,     \* the row of circuit_breakers
  running,    \* executions that were admitted and have not reported
  trials,     \* those of them that were admitted while HALF_OPEN (history)
  streak,     \* failures recorded since the last success that counted (history)
  quiet,      \* ticks since the last failure of an open breaker (history)
  restarts, faults

vars == <<breaker, stored, running, trials, streak, quiet, restarts, faults>>

Never == -1                            \* last_failure_time is None
Ages  == {Never} \cup (0..ResetTimeout)
States == {"closed", "open", "half_open"}
Breakers == [state : States, fails : 0..FailMax,
             successes : 0..SuccessThreshold, age : Ages]
Fresh == [state |-> "closed", fails |-> 0, successes |-> 0, age |-> Never]

ASSUME NoRowAssumption == NoRow \notin Breakers

Init ==
  /\ breaker = NoRow /\ stored = NoRow
  /\ running = {} /\ trials = {}
  /\ streak = 0 /\ quiet = Never
  /\ restarts = 0 /\ faults = 0

Loaded == breaker # NoRow

(* _persist_state: a write that fails is logged and forgotten. *)
Persist(b) ==
  \/ stored' = b /\ UNCHANGED faults
  \/ faults < MaxFaults /\ faults' = faults + 1 /\ UNCHANGED stored

Set(b) == breaker' = b /\ Persist(b)

Elapsed(b) == b.age >= ResetTimeout
Closed(b)   == [state |-> "closed", fails |-> 0, successes |-> 0, age |-> b.age]
HalfOpen(b) == [state |-> "half_open", fails |-> b.fails, successes |-> 0, age |-> b.age]

-----------------------------------------------------------------------------
(* _ensure_breaker at the first use after a start. *)

BugForgetsRow ==
  /\ ~Loaded
  /\ breaker' = Fresh
  /\ UNCHANGED <<stored, running, trials, streak, quiet, restarts, faults>>

EnsureBreaker ==
  /\ ~Loaded
  /\ \/ stored = NoRow /\ breaker' = Fresh /\ UNCHANGED <<stored, faults>>
     \/ /\ stored # NoRow
        /\ IF stored.state = "open" /\ Elapsed(stored)
           THEN Set(Closed(stored))
           ELSE breaker' = stored /\ UNCHANGED <<stored, faults>>
     \/ /\ faults < MaxFaults /\ faults' = faults + 1
        /\ breaker' = Fresh /\ UNCHANGED stored
  /\ UNCHANGED <<running, trials, streak, quiet, restarts>>

(* can_execute: the four answers. *)

CanExecuteNow(x) ==
  /\ Loaded /\ x \notin running
  /\ breaker.state \in {"closed", "half_open"}
  /\ running' = running \cup {x}
  /\ trials' = IF breaker.state = "half_open" THEN trials \cup {x} ELSE trials
  /\ UNCHANGED <<breaker, stored, streak, quiet, restarts, faults>>

BugNeverHalfOpens(x) ==
  /\ Loaded /\ x \notin running
  /\ breaker.state = "open" /\ Elapsed(breaker)
  /\ UNCHANGED vars

CanExecuteAfterTimeout(x) ==
  /\ Loaded /\ x \notin running
  /\ breaker.state = "open"
  /\ breaker.age = Never \/ Elapsed(breaker)
  /\ Set(HalfOpen(breaker))
  /\ running' = running \cup {x} /\ trials' = trials \cup {x}
  /\ UNCHANGED <<streak, quiet, restarts>>

CannotExecute(x) ==
  /\ Loaded /\ x \notin running
  /\ breaker.state = "open" /\ breaker.age # Never /\ ~Elapsed(breaker)
  /\ UNCHANGED vars

-----------------------------------------------------------------------------
(* An execution ends. Reports are made without looking back at the state    *)
(* the breaker had when the execution was admitted.                         *)

Reported(x) == /\ x \in running
               /\ running' = running \ {x} /\ trials' = trials \ {x}

BugSuccessIgnored(x) ==
  /\ Loaded /\ Reported(x)
  /\ \/ /\ breaker.state = "half_open"
        /\ Set(IF breaker.successes + 1 >= SuccessThreshold
               THEN Closed(breaker)
               ELSE [breaker EXCEPT !.successes = @ + 1])
     \/ breaker.state # "half_open" /\ UNCHANGED <<breaker, stored, faults>>
  /\ streak' = IF breaker.state = "open" THEN streak ELSE 0
  /\ quiet' = IF breaker'.state = "closed" THEN Never ELSE quiet
  /\ UNCHANGED restarts

RecordSuccess(x) ==
  /\ Loaded /\ Reported(x)
  /\ \/ /\ breaker.state = "half_open"
        /\ Set(IF breaker.successes + 1 >= SuccessThreshold
               THEN Closed(breaker)
               ELSE [breaker EXCEPT !.successes = @ + 1])
     \/ /\ breaker.state = "closed" /\ breaker.fails > 0
        /\ Set([breaker EXCEPT !.fails = 0])
     \/ /\ breaker.state = "open" \/ (breaker.state = "closed" /\ breaker.fails = 0)
        /\ UNCHANGED <<breaker, stored, faults>>
  /\ streak' = IF breaker.state = "open" THEN streak ELSE 0
  /\ quiet' = IF breaker'.state = "closed" THEN Never ELSE quiet
  /\ UNCHANGED restarts

AfterFailure(b) ==
  CASE b.state = "half_open" -> [b EXCEPT !.state = "open", !.age = 0]
    [] b.state = "closed"    -> [b EXCEPT !.fails = @ + 1, !.age = 0,
                                   !.state = IF b.fails + 1 >= FailMax THEN "open" ELSE @]
    [] b.state = "open"      -> [b EXCEPT !.age = 0]

BugFailsOffByOne(x) ==
  /\ Loaded /\ Reported(x)
  /\ Set([AfterFailure(breaker) EXCEPT
            !.state = IF breaker.state = "closed" /\ breaker.fails + 1 < FailMax + 1
                      THEN "closed" ELSE "open",
            !.fails = IF @ > FailMax THEN FailMax ELSE @])
  /\ streak' = IF streak < FailMax THEN streak + 1 ELSE streak
  /\ quiet' = IF breaker'.state = "open" THEN 0 ELSE quiet
  /\ UNCHANGED restarts

RecordFailure(x) ==
  /\ Loaded /\ Reported(x)
  /\ Set(AfterFailure(breaker))
  /\ streak' = IF streak < FailMax THEN streak + 1 ELSE streak
  /\ quiet' = IF breaker'.state = "open" THEN 0 ELSE quiet
  /\ UNCHANGED restarts

(* No fallback chain, no execution id, or an exception: nothing is recorded. *)
EndUnreported(x) ==
  /\ Reported(x)
  /\ UNCHANGED <<breaker, stored, streak, quiet, restarts, faults>>

-----------------------------------------------------------------------------
Older(b) == IF b = NoRow \/ b.age = Never \/ b.age = ResetTimeout
            THEN b ELSE [b EXCEPT !.age = @ + 1]

Tick ==
  /\ breaker' = Older(breaker) /\ stored' = Older(stored)
  /\ quiet' = IF quiet = Never \/ quiet = ResetTimeout THEN quiet ELSE quiet + 1
  /\ UNCHANGED <<running, trials, streak, restarts, faults>>

(* The server restarts: its executions are gone, the row stays. *)
Restart ==
  /\ restarts < MaxRestarts
  /\ restarts' = restarts + 1
  /\ breaker' = NoRow /\ running' = {} /\ trials' = {}
  /\ UNCHANGED <<stored, streak, quiet, faults>>

Ask(x) == CanExecuteNow(x) \/ CanExecuteAfterTimeout(x) \/ CannotExecute(x)
Report(x) == RecordSuccess(x) \/ RecordFailure(x) \/ EndUnreported(x)

Next ==
  \/ EnsureBreaker \/ Tick \/ Restart
  \/ \E x \in Executions : Ask(x) \/ Report(x)

Spec == Init /\ [][Next]_vars

(* Time passes, executions end, and the dispatcher asks again every second   *)
(* as long as something is queued for the backend.                           *)
FairSpec ==
  /\ Spec
  /\ WF_vars(Tick) /\ WF_vars(EnsureBreaker)
  /\ \A x \in Executions : WF_vars(Report(x)) /\ WF_vars(Ask(x))

-----------------------------------------------------------------------------
TypeOK ==
  /\ breaker \in Breakers \cup {NoRow} /\ stored \in Breakers \cup {NoRow}
  /\ trials \subseteq running /\ running \subseteq Executions
  /\ streak \in 0..FailMax /\ quiet \in Ages
  /\ restarts \in 0..MaxRestarts /\ faults \in 0..MaxFaults

(* In memory and in the table alike, the breaker is closed exactly while     *)
(* its failure count is below fail_max, has no successes when it is closed,  *)
(* and knows when it last failed when it is not: no interleaving of reports  *)
(* and no restart that finds an old row leaves a closed breaker that opens   *)
(* at once, or an open one that never times out.                             *)
CountsMatchState ==
  \A b \in {breaker, stored} \ {NoRow} :
    /\ b.state = "closed" <=> b.fails < FailMax
    /\ b.state = "closed" => b.successes = 0
    /\ b.state # "closed" => b.age # Never

(* "OPEN: fast-fail all requests": once open, the breaker lets no execution  *)
(* through until reset_timeout after the last failure, across restarts too,  *)
(* unless a read or write of its row has failed.                             *)
FastFailsWhileOpen ==
  [][(faults' = 0 /\ running' \ running # {})
       => (quiet = Never \/ quiet = ResetTimeout \/ breaker.state = "half_open")]_vars

(* "CLOSED -> OPEN after N consecutive failures": a success recorded in      *)
(* between, even before a restart, starts the count again.                   *)
OpensOnlyAfterStreak ==
  [][(/\ breaker # NoRow /\ breaker' # NoRow
      /\ breaker.state = "closed" /\ breaker'.state = "open" /\ faults' = 0)
       => streak' = FailMax]_vars

(* An open breaker does not stay open while somebody keeps asking.           *)
OpenEnds == (Loaded /\ breaker.state = "open") ~> (Loaded => breaker.state # "open")

(* services/circuit_breaker_service.py:9 "HALF_OPEN: Allow a trial request":  *)
(* a half-open breaker has one trial in flight at a time.                     *)
OneTrialAtATime == Cardinality(trials) <= 1
=============================================================================
