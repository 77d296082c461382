------------------------ MODULE CircuitBreakerProofs ------------------------
(***************************************************************************)
(* What holds of the circuit breaker for every set of executions and every *)
(* fail_max, reset_timeout and success_threshold. TypeOK and               *)
(* CountsMatchState are inductive together. The two action properties need *)
(* RowInStep besides: as long as no access to the table has failed, the    *)
(* row tells what the breaker in memory is, its age is the true time since *)
(* the last failure, and its failure count is covered by the real streak.  *)
(***************************************************************************)
EXTENDS CircuitBreaker, TLAPS

RowInStep ==
  faults = 0 =>
    /\ Loaded => breaker = stored \/ (stored = NoRow /\ breaker = Fresh)
    /\ stored = NoRow => quiet = Never
    /\ stored # NoRow =>
         /\ stored.state = "open" => quiet = stored.age
         /\ stored.state = "closed" => quiet \in {Never, ResetTimeout}
         /\ stored.state = "closed" => streak >= stored.fails

Inv == TypeOK /\ CountsMatchState /\ RowInStep

(* The invariant holds before anybody has asked.                           *)
LEMMA InitInv == Init => Inv
  BY BreakerAssumption DEF Init, Inv, TypeOK, CountsMatchState, RowInStep, Loaded, Never, Ages

(* What a write leaves: the faults counter grows only when the row stays. *)
LEMMA SetStored ==
  ASSUME NEW b, Set(b), TypeOK
  PROVE  /\ breaker' = b
         /\ stored' \in {b, stored}
         /\ faults' \in 0..MaxFaults
         /\ faults' = 0 => faults = 0 /\ stored' = b
  BY BreakerAssumption DEF Set, Persist, TypeOK

(* The four ways a breaker is changed, field by field. *)
LEMMA ClosedFields ==
  ASSUME NEW b \in Breakers
  PROVE  /\ Closed(b) \in Breakers
         /\ Closed(b).state = "closed" /\ Closed(b).fails = 0
         /\ Closed(b).successes = 0 /\ Closed(b).age = b.age
  BY BreakerAssumption DEF Closed, Breakers, States

(* Half-opening forgets successes and keeps the failures.                  *)
LEMMA HalfOpenFields ==
  ASSUME NEW b \in Breakers
  PROVE  /\ HalfOpen(b) \in Breakers
         /\ HalfOpen(b).state = "half_open" /\ HalfOpen(b).fails = b.fails
         /\ HalfOpen(b).successes = 0 /\ HalfOpen(b).age = b.age
  BY BreakerAssumption DEF HalfOpen, Breakers, States

(* A failure opens a half-open breaker, and a closed one at FailMax.       *)
LEMMA FailureFields ==
  ASSUME NEW b \in Breakers, b.state = "closed" => b.fails < FailMax /\ b.successes = 0
  PROVE  LET a == AfterFailure(b) IN
         /\ a \in Breakers /\ a.age = 0 /\ a.state \in {"open", "closed"}
         /\ a.successes = b.successes
         /\ a.fails = IF b.state = "closed" THEN b.fails + 1 ELSE b.fails
         /\ a.state = "closed" <=> (b.state = "closed" /\ b.fails + 1 < FailMax)
<1> USE BreakerAssumption DEF AfterFailure, Breakers, States, Ages
<1>1. CASE b.state = "half_open"
  <2>1. AfterFailure(b) = [state |-> "open", fails |-> b.fails,
                           successes |-> b.successes, age |-> 0]
    BY <1>1
  <2> QED BY <1>1, <2>1
<1>2. CASE b.state = "open" BY <1>2
<1>3. CASE b.state = "closed"
  <2> DEFINE s == IF b.fails + 1 >= FailMax THEN "open" ELSE "closed"
  <2>1. AfterFailure(b) = [state |-> s, fails |-> b.fails + 1,
                           successes |-> b.successes, age |-> 0]
    BY <1>3
  <2> QED BY <1>3, <2>1
<1> QED BY <1>1, <1>2, <1>3

(* Every step keeps the invariant.                                         *)
LEMMA StepInv == Inv /\ [Next]_vars => Inv'
<1> SUFFICES ASSUME Inv, [Next]_vars PROVE Inv'
  OBVIOUS
<1> USE BreakerAssumption, NoRowAssumption
<1> USE DEF Inv, TypeOK, CountsMatchState
<1>1. CASE EnsureBreaker
  <2>1. CASE stored # NoRow /\ stored.state = "open" /\ Elapsed(stored) /\ Set(Closed(stored))
    <3>1. stored \in Breakers
      BY <2>1
    <3>2. faults = 0 => quiet = ResetTimeout
      BY <2>1 DEF RowInStep, Elapsed, Breakers, Ages, Never
    <3> QED BY <1>1, <2>1, <3>1, <3>2, ClosedFields, SetStored DEF EnsureBreaker, RowInStep, Loaded, Ages, Never
  <2>2. CASE ~(stored # NoRow /\ stored.state = "open" /\ Elapsed(stored) /\ Set(Closed(stored)))
    <3>1. breaker' \in {Fresh, stored} /\ stored' = stored
      BY <1>1, <2>2 DEF EnsureBreaker, Fresh, Breakers, States, Ages
    <3>2. Fresh \in Breakers
      BY DEF Fresh, Breakers, States, Ages, Never
    <3> QED BY <1>1, <2>2, <3>1, <3>2 DEF EnsureBreaker, RowInStep, Loaded, Fresh
  <2> QED BY <2>1, <2>2
<1>2. CASE Tick
  <2>1. \A b \in Breakers :
           /\ Older(b) \in Breakers /\ Older(b).state = b.state
           /\ Older(b).fails = b.fails /\ Older(b).successes = b.successes
           /\ b.age # Never => Older(b).age # Never
           /\ Older(b).age = IF b.age = Never \/ b.age = ResetTimeout THEN b.age ELSE b.age + 1
    BY DEF Older, Breakers, Ages, Never
  <2>2. Older(NoRow) = NoRow /\ Older(Fresh) = Fresh
    BY DEF Older, Fresh, Never
  <2> QED BY <1>2, <2>1, <2>2 DEF Tick, RowInStep, Loaded, Ages, Never
<1>3. CASE Restart
  BY <1>3 DEF Restart, RowInStep, Loaded
<1>4. ASSUME NEW x \in Executions, CanExecuteNow(x) PROVE Inv'
  BY <1>4 DEF CanExecuteNow, RowInStep, Loaded
<1>5. ASSUME NEW x \in Executions, CanExecuteAfterTimeout(x) PROVE Inv'
  <2>1. breaker \in Breakers
    BY <1>5 DEF CanExecuteAfterTimeout, Loaded
  <2> QED BY <1>5, <2>1, HalfOpenFields, SetStored DEF CanExecuteAfterTimeout, RowInStep, Loaded
<1>6. ASSUME NEW x \in Executions, CannotExecute(x) PROVE Inv'
  BY <1>6 DEF CannotExecute, RowInStep, vars, Loaded
<1>7. ASSUME NEW x \in Executions, RecordSuccess(x) PROVE Inv'
  <2> USE DEF RecordSuccess, Reported, Loaded
  <2>0. breaker \in Breakers
    BY <1>7
  <2>1. CASE breaker.state = "half_open"
    <3> DEFINE b == IF breaker.successes + 1 >= SuccessThreshold
                    THEN Closed(breaker) ELSE [breaker EXCEPT !.successes = @ + 1]
    <3>1. /\ b \in Breakers /\ b.age = breaker.age
          /\ b.state \in {"closed", "half_open"}
          /\ b.state = "closed" => b.fails = 0 /\ b.successes = 0
          /\ b.state = "half_open" => b.fails = breaker.fails
      BY <1>7, <2>0, <2>1, ClosedFields DEF Breakers
    <3>2. Set(b) /\ quiet' = IF b.state = "closed" THEN Never ELSE quiet
      BY <1>7, <2>1 DEF Set
    <3> HIDE DEF b
    <3> QED BY <1>7, <2>1, <3>1, <3>2, SetStored DEF RowInStep, Ages
  <2>2. CASE breaker.state = "closed" /\ breaker.fails > 0
    <3> DEFINE b == [breaker EXCEPT !.fails = 0]
    <3>1. b \in Breakers /\ b.state = "closed" /\ b.fails = 0 /\ b.successes = 0
      BY <1>7, <2>0, <2>2 DEF Breakers, States
    <3>2. Set(b)
      BY <1>7, <2>0, <2>2 DEF Breakers
    <3>3. quiet' = Never
      BY <1>7, <3>1, <3>2 DEF Set
    <3> HIDE DEF b
    <3> QED BY <1>7, <2>2, <3>1, <3>2, <3>3, SetStored DEF RowInStep, Ages
  <2>3. CASE breaker.state = "open" \/ (breaker.state = "closed" /\ ~(breaker.fails > 0))
    <3>1. UNCHANGED <<breaker, stored, faults>>
      BY <1>7, <2>3
    <3>2. breaker.state = "open" => UNCHANGED <<streak, quiet>>
      BY <1>7, <3>1
    <3>3. breaker.state = "closed" => streak' = 0 /\ quiet' = Never /\ breaker.fails = 0
      BY <1>7, <2>0, <2>3, <3>1 DEF Breakers
    <3> QED BY <1>7, <2>0, <2>3, <3>1, <3>2, <3>3 DEF RowInStep, Fresh, Ages
  <2> QED BY <2>0, <2>1, <2>2, <2>3 DEF Breakers, States
<1>8. ASSUME NEW x \in Executions, RecordFailure(x) PROVE Inv'
  <2> DEFINE b == AfterFailure(breaker)
  <2>0. breaker \in Breakers /\ (breaker.state = "closed" => breaker.fails < FailMax
                                                            /\ breaker.successes = 0)
    BY <1>8 DEF RecordFailure, Loaded
  <2>1. /\ b \in Breakers /\ b.age = 0 /\ b.state \in {"open", "closed"}
        /\ b.state = "closed" => b.successes = 0 /\ b.fails < FailMax
        /\ b.state = "closed" => breaker.state = "closed" /\ b.fails = breaker.fails + 1
        /\ b.state = "open" => b.fails >= FailMax
    BY <2>0, FailureFields, <1>8 DEF RecordFailure, Loaded, Breakers
  <2>2. /\ Set(b) /\ quiet' = IF b.state = "open" THEN 0 ELSE quiet
        /\ Loaded /\ Reported(x) /\ UNCHANGED restarts
        /\ streak' = IF streak < FailMax THEN streak + 1 ELSE streak
    BY <1>8 DEF RecordFailure, Set
  <2>3. faults = 0 /\ b.state = "closed" =>
          streak >= breaker.fails /\ quiet \in {Never, ResetTimeout}
    BY <2>0, <2>1, <2>2 DEF RowInStep, Fresh, Never, Breakers, Loaded
  <2> HIDE DEF b
  <2> QED BY <2>1, <2>2, <2>3, SetStored DEF RowInStep, Loaded, Reported, Ages, Never, Breakers
<1>9. ASSUME NEW x \in Executions, EndUnreported(x) PROVE Inv'
  BY <1>9 DEF EndUnreported, Reported, RowInStep, Loaded
<1>10. CASE UNCHANGED vars
  BY <1>10 DEF vars, RowInStep, Loaded
<1> QED BY <1>1, <1>2, <1>3, <1>4, <1>5, <1>6, <1>7, <1>8, <1>9, <1>10
        DEF Next, Ask, Report

(* So it holds in every reachable state.                                   *)
LEMMA SpecInv == Spec => []Inv
  BY InitInv, StepInv, PTL DEF Spec

(* Every variable of the breaker keeps its type.                             *)
THEOREM BreakerTypeCorrect == Spec => []TypeOK
  BY SpecInv, PTL DEF Inv

(* The breaker's state and its counters agree, in memory and in the table.   *)
THEOREM CountsHold == Spec => []CountsMatchState
  BY SpecInv, PTL DEF Inv

-----------------------------------------------------------------------------
(* A step that admits somebody finds the breaker closed, half-open or timed*)
(* out.                                                                    *)
LEMMA StepFastFails ==
  ASSUME Inv, Next, faults' = 0, running' \ running # {}
  PROVE  quiet = Never \/ quiet = ResetTimeout \/ breaker.state = "half_open"
<1> USE BreakerAssumption, NoRowAssumption DEF Inv, TypeOK
<1>1. PICK x \in Executions : CanExecuteNow(x) \/ CanExecuteAfterTimeout(x)
  BY DEF Next, Ask, Report, EnsureBreaker, Tick, Restart, CannotExecute, RecordSuccess,
         RecordFailure, EndUnreported, Reported, vars
<1>2. CASE CanExecuteNow(x)
  BY <1>2 DEF CanExecuteNow, Loaded, RowInStep
<1>3. CASE CanExecuteAfterTimeout(x)
  <2>1. faults = 0
    BY <1>3, SetStored DEF CanExecuteAfterTimeout
  <2>2. breaker = stored
    BY <1>3, <2>1 DEF CanExecuteAfterTimeout, RowInStep, Loaded, Fresh
  <2> QED BY <1>3, <2>1, <2>2 DEF CanExecuteAfterTimeout, RowInStep, Elapsed, Loaded, Breakers,
                                  Ages, Never
<1> QED BY <1>1, <1>2, <1>3

(* An open breaker lets nothing through before reset_timeout has passed      *)
(* since the last failure, restarts included, unless a table access failed.  *)
THEOREM FastFailHolds == Spec => FastFailsWhileOpen
<1>1. Inv /\ [Next]_vars =>
        [(faults' = 0 /\ running' \ running # {})
           => (quiet = Never \/ quiet = ResetTimeout \/ breaker.state = "half_open")]_vars
  BY StepFastFails DEF vars
<1> QED BY <1>1, SpecInv, PTL DEF Spec, FastFailsWhileOpen

(* A step that opens a closed breaker ends a streak of FailMax failures.   *)
LEMMA StepStreak ==
  ASSUME Inv, Next, breaker # NoRow, breaker' # NoRow, breaker.state = "closed",
         breaker'.state = "open", faults' = 0
  PROVE  streak' = FailMax
<1> USE BreakerAssumption, NoRowAssumption DEF Inv, TypeOK
<1>1. PICK x \in Executions : RecordFailure(x)
  <2>1. \A x \in Executions : ~RecordSuccess(x)
    BY SetStored DEF RecordSuccess, Breakers
  <2>2. ~Tick
    BY DEF Tick, Older, Breakers
  <2> QED BY <2>1, <2>2 DEF Next, Ask, Report, EnsureBreaker, Restart, CannotExecute, Loaded,
            CanExecuteNow, CanExecuteAfterTimeout, EndUnreported, vars
<1>2. faults = 0 /\ Set(AfterFailure(breaker))
  BY <1>1, SetStored DEF RecordFailure
<1>3. breaker.fails + 1 >= FailMax
  BY <1>2 DEF Set, AfterFailure, Breakers
<1>4. streak >= breaker.fails
  BY <1>2 DEF RowInStep, Loaded, Fresh
<1> QED BY <1>1, <1>3, <1>4 DEF RecordFailure, Breakers

(* The breaker opens only after fail_max failures with no success between.   *)
THEOREM StreakHolds == Spec => OpensOnlyAfterStreak
<1>1. Inv /\ [Next]_vars =>
        [(/\ breaker # NoRow /\ breaker' # NoRow
          /\ breaker.state = "closed" /\ breaker'.state = "open" /\ faults' = 0)
           => streak' = FailMax]_vars
  BY StepStreak DEF vars
<1> QED BY <1>1, SpecInv, PTL DEF Spec, OpensOnlyAfterStreak
=============================================================================
