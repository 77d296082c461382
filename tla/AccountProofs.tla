---------------------------- MODULE AccountProofs ----------------------------
(***************************************************************************)
(* Theorems about the two components that decide on which account an       *)
(* execution goes on. First Orchestration, for any workers, pollers,       *)
(* accounts and chains: Typed is the inductive form of TypeOK; Pending,    *)
(* Owing and Counted are those of RowAgrees, LimitedIsRetried and          *)
(* StopSticks. Then Rotation, for any number of executions, rotations and  *)
(* cancels: RotationInv is the inductive form of OneAgent.                 *)
(***************************************************************************)
EXTENDS Orchestration, Rotation, TLAPS

AtAccount == {"limit", "mark", "mark_set", "mark_row", "run", "unmark", "unmark_set",
              "unmark_row", "settle", "limit_row"}

(* Unless two writers overlapped, what a writer will store is what memory  *)
(* says, and the row says it once there is no writer.                      *)
Pending(a) ==
  /\ \A w \in Workers : acct[w] = a =>
       /\ pc[w] = "mark_row" => session[a] = Session("running", 0)
       /\ pc[w] = "unmark_row" => session[a] = Session("queued", 0)
  /\ \A p \in Pollers : (target[p] = a /\ step[p] = "row") => held[p] = session[a]
Agrees(a) ==
  a \notin stale => Pending(a) /\ (Writers(a) = {} => row[a] = session[a])

(* The call remembers a rate limit until the end of the chain.             *)
Owing ==
  \A w \in owed : /\ pc[w] \notin {"idle", "direct"}
                  /\ pc[w] = "limit_row" \/ "limited" \in why[w]

(* The counter of a stopped account never runs ahead of the poll.          *)
Counted ==
  \A a \in Accounts : session[a].state = "stopped" => session[a].polls <= safe[a]

(* TypeOK by what it is about: the calls, the sessions and the poll. A     *)
(* call at an entry has a chain, one at an account and a poll have one.    *)
Reasons == {"breaker", "account", "limited"}
CallTypes ==
  /\ pc \in [Workers -> WorkerSteps] /\ todo \in [Workers -> Seq(Accounts \cup {AnyAccount})]
  /\ acct \in [Workers -> Accounts \cup {NoAccount}] /\ why \in [Workers -> SUBSET Reasons]
  /\ outcome \in [Workers -> Outcomes \cup {"none"}] /\ owed \subseteq Workers
  /\ \A w \in Workers : pc[w] \in AtAccount \cup {"select"} => todo[w] # << >>
  /\ \A w \in Workers : pc[w] \in AtAccount => acct[w] \in Accounts
SessionTypes ==
  /\ session \in [Accounts -> [state : States, polls : Nat]]
  /\ row \in [Accounts -> [state : States, polls : Nat]]
  /\ \A a \in Accounts : session[a].polls < Hysteresis /\ row[a].polls < Hysteresis
  /\ limited \subseteq Accounts
  /\ safe \in [Accounts -> 0..Hysteresis] /\ stale \subseteq Accounts
  /\ inherited \subseteq Accounts
  /\ restarts \in 0..MaxRestarts /\ faults \in 0..MaxFaults
PollTypes ==
  /\ step \in [Pollers -> {"idle", "reread", "row"}]
  /\ target \in [Pollers -> Accounts \cup {NoAccount}]
  /\ held \in [Pollers -> [state : States, polls : Nat]]
  /\ \A p \in Pollers : held[p].polls < Hysteresis
  /\ \A p \in Pollers : step[p] # "idle" => target[p] \in Accounts
Typed == CallTypes /\ SessionTypes /\ PollTypes

(* Typed is stronger than the type invariant.                              *)
LEMMA TypedImpliesTypeOK == Typed => TypeOK
BY DEF Typed, CallTypes, SessionTypes, PollTypes, TypeOK, Reasons

(* A session record is made of the state and the counter it is given.      *)
LEMMA SessionFacts ==
  ASSUME NEW s \in States, NEW n \in Nat
  PROVE  /\ Session(s, n) \in [state : States, polls : Nat]
         /\ Session(s, n).state = s /\ Session(s, n).polls = n
BY DEF Session

(* A session that does not exist has no safe polls.                        *)
LEMMA NoneFacts == /\ None \in [state : States, polls : Nat]
                   /\ None.polls = 0 /\ None.state = "none"
<1>1. "none" \in States
  BY DEF States
<1> QED BY <1>1, SessionFacts DEF None

(* A stopped session starts with no safe polls.                            *)
LEMMA StoppedFacts == /\ Stopped \in [state : States, polls : Nat]
                      /\ Stopped.polls = 0 /\ Stopped.state = "stopped"
<1>1. "stopped" \in States
  BY DEF States
<1> QED BY <1>1, SessionFacts DEF Stopped

(* Every variable has its type and every step its entry and account        *)
(* initially.                                                              *)
THEOREM InitTyped == Init => Typed
<1> SUFFICES ASSUME Init PROVE Typed
  OBVIOUS
<1>1. CallTypes
  BY DEF Init, CallTypes, AtAccount, WorkerSteps
<1>2. SessionTypes
  BY NoneFacts, OrchestrationAssumption DEF Init, SessionTypes
<1>3. PollTypes
  BY NoneFacts, OrchestrationAssumption DEF Init, PollTypes
<1> QED BY <1>1, <1>2, <1>3 DEF Typed

-----------------------------------------------------------------------------
(* What the helpers of the actions do to the calls.                        *)

(* A call that returns leaves an empty chain.                              *)
LEMMA ReturnTypes ==
  ASSUME CallTypes, NEW w \in Workers, Return(w), owed' \subseteq Workers
  PROVE  CallTypes'
<1>1. << >> \in Seq(Accounts \cup {AnyAccount})
  OBVIOUS
<1> QED BY <1>1 DEF CallTypes, Return, Goto, WorkerSteps, AtAccount

(* Going on to the next entry needs a next entry, and keeps the reasons    *)
(* typed.                                                                  *)
LEMMA ContinueTypes ==
  ASSUME CallTypes, NEW w \in Workers, todo[w] # << >>, NEW r \in SUBSET Reasons,
         Continue(w, r), owed' \subseteq Workers
  PROVE  CallTypes'
<1>1. Tail(todo[w]) \in Seq(Accounts \cup {AnyAccount})
  BY DEF CallTypes
<1>2. /\ todo' \in [Workers -> Seq(Accounts \cup {AnyAccount})]
      /\ pc' \in [Workers -> WorkerSteps] /\ why' \in [Workers -> SUBSET Reasons]
  BY <1>1 DEF CallTypes, Continue, Goto, WorkerSteps
<1>3. acct' \in [Workers -> Accounts \cup {NoAccount}]
      /\ outcome' \in [Workers -> Outcomes \cup {"none"}]
  BY DEF CallTypes, Continue
<1>4. \A v \in Workers : pc'[v] \in AtAccount \cup {"select"} => todo'[v] # << >>
  BY DEF CallTypes, Continue, Goto, AtAccount
<1>5. \A v \in Workers : pc'[v] \in AtAccount => acct'[v] \in Accounts
  BY DEF CallTypes, Continue, Goto, AtAccount
<1> QED BY <1>2, <1>3, <1>4, <1>5 DEF CallTypes

(* A call that works on an account keeps its entry and its account.        *)
LEMMA GotoTypes ==
  ASSUME CallTypes, NEW w \in Workers, NEW s \in AtAccount, Goto(w, s),
         todo[w] # << >>, acct'[w] \in Accounts,
         \/ acct' = acct
         \/ \E a \in Accounts : acct' = [acct EXCEPT ![w] = a],
         outcome' \in [Workers -> Outcomes \cup {"none"}], owed' \subseteq Workers,
         UNCHANGED <<todo, why>>
  PROVE  CallTypes'
<1>1. pc' \in [Workers -> WorkerSteps]
  BY DEF CallTypes, Goto, AtAccount, WorkerSteps
<1>2. acct' \in [Workers -> Accounts \cup {NoAccount}]
      /\ \A v \in Workers : v # w => acct'[v] = acct[v]
  BY DEF CallTypes
<1>3. \A v \in Workers : v # w => pc'[v] = pc[v]
  BY DEF CallTypes, Goto
<1> QED BY <1>1, <1>2, <1>3 DEF CallTypes

(* Every step of a call keeps the types of the calls.                      *)
LEMMA CallStepTypes ==
  ASSUME CallTypes, NEW w \in Workers, Begin(w) \/ Call(w)
  PROVE  CallTypes'
<1>1. ASSUME pc[w] \in AtAccount PROVE todo[w] # << >> /\ acct[w] \in Accounts
  BY <1>1 DEF CallTypes
<1>2. pc[w] = "select" => todo[w] # << >>
  BY DEF CallTypes
<1>3. CASE Begin(w)
  <2> PICK c \in Chains : /\ todo' = [todo EXCEPT ![w] = c]
                          /\ Goto(w, IF c = << >> THEN "direct" ELSE "select")
    BY <1>3 DEF Begin
  <2>1. c \in Seq(Accounts \cup {AnyAccount})
    BY OrchestrationAssumption
  <2> QED BY <1>3, <2>1 DEF Begin, CallTypes, Goto, WorkerSteps, AtAccount
<1>4. CASE BreakerRefuses(w)
  BY <1>2, <1>4, ContinueTypes DEF BreakerRefuses, Reasons, CallTypes
<1>5. CASE CheckEligibility(w)
  <2>1. CASE Continue(w, {}) /\ owed' = owed
    BY <1>2, <1>5, <2>1, ContinueTypes DEF CheckEligibility, CallTypes
  <2>2. CASE /\ Goto(w, "limit") /\ acct' = [acct EXCEPT ![w] = Head(todo[w])]
             /\ UNCHANGED <<todo, why, outcome, owed>>
    <3>1. Head(todo[w]) \in Accounts
      BY <1>2, <1>5 DEF CallTypes, CheckEligibility
    <3>2. acct'[w] \in Accounts /\ "limit" \in AtAccount
      BY <2>2, <3>1 DEF CallTypes, AtAccount
    <3> QED BY <1>2, <1>5, <2>2, <3>1, <3>2, GotoTypes DEF CallTypes, CheckEligibility
  <2> QED BY <1>5, <2>1, <2>2 DEF CheckEligibility
<1>6. CASE CheckRateLimit(w)
  <2>1. pc[w] \in AtAccount /\ "mark" \in AtAccount
    BY <1>6 DEF CheckRateLimit, AtAccount
  <2>2. CASE Continue(w, {}) /\ owed' = owed
    BY <1>1, <2>1, <2>2, ContinueTypes DEF CallTypes
  <2>3. CASE Goto(w, "mark") /\ UNCHANGED <<todo, acct, why, outcome, owed>>
    BY <1>1, <2>1, <2>3, GotoTypes DEF CallTypes
  <2> QED BY <1>6, <2>2, <2>3 DEF CheckRateLimit
<1>7. CASE PickBestAccount(w)
  <2>1. CASE Continue(w, {"account"}) /\ owed' = owed
    BY <1>2, <1>7, <2>1, ContinueTypes DEF PickBestAccount, CallTypes, Reasons
  <2>2. CASE /\ Goto(w, "mark") /\ UNCHANGED <<todo, why, outcome, owed>>
             /\ \E a \in Accounts \ limited : acct' = [acct EXCEPT ![w] = a]
    <3>1. acct'[w] \in Accounts /\ "mark" \in AtAccount
      BY <2>2 DEF CallTypes, AtAccount
    <3> QED BY <1>2, <1>7, <2>2, <3>1, GotoTypes DEF CallTypes, PickBestAccount
  <2> QED BY <1>7, <2>1, <2>2 DEF PickBestAccount
<1>8. ASSUME NEW s \in AtAccount, Goto(w, s), pc[w] \in AtAccount,
             UNCHANGED <<todo, acct, why>>, outcome' \in [Workers -> Outcomes \cup {"none"}],
             owed' \subseteq Workers
      PROVE  CallTypes'
  BY <1>1, <1>8, GotoTypes DEF CallTypes
<1>9. CASE \/ MarkRunning(w) \/ MarkSet(w) \/ MarkStore(w)
           \/ MarkCompleted(w) \/ UnmarkSet(w) \/ UnmarkStore(w)
  <2>1. pc[w] \in AtAccount /\ \E s \in AtAccount : Goto(w, s)
    BY <1>9 DEF MarkRunning, MarkSet, MarkStore, MarkCompleted, UnmarkSet, UnmarkStore, AtAccount
  <2>2. UNCHANGED <<todo, acct, why, outcome, owed>>
    BY <1>9 DEF MarkRunning, MarkSet, MarkStore, MarkCompleted, UnmarkSet, UnmarkStore
  <2> QED BY <2>1, <2>2, <1>8 DEF CallTypes
<1>10. CASE RunEnds(w)
  <2>1. pc[w] \in AtAccount /\ "unmark" \in AtAccount
    BY <1>10 DEF RunEnds, AtAccount
  <2>2. outcome' \in [Workers -> Outcomes \cup {"none"}] /\ owed' \subseteq Workers
    BY <1>10 DEF RunEnds, CallTypes
  <2>3. Goto(w, "unmark") /\ UNCHANGED <<todo, acct, why>>
    BY <1>10 DEF RunEnds
  <2> QED BY <2>1, <2>2, <2>3, <1>8
<1>11. CASE DirectRunEnds(w)
  BY <1>11, ReturnTypes DEF DirectRunEnds, CallTypes
<1>12. CASE ChainExhausted(w)
  <2>1. owed' \subseteq Workers
    BY <1>12 DEF ChainExhausted, CallTypes
  <2> QED BY <1>12, <2>1, ReturnTypes DEF ChainExhausted
<1>13. CASE Settle(w)
  <2>1. pc[w] \in AtAccount /\ "limit_row" \in AtAccount
    BY <1>13 DEF Settle, AtAccount
  <2>2. owed' \subseteq Workers
    BY <1>13 DEF Settle, CallTypes
  <2>3. CASE Continue(w, {})
    BY <1>1, <2>1, <2>2, <2>3, ContinueTypes
  <2>4. CASE Return(w)
    BY <2>2, <2>4, ReturnTypes
  <2>5. CASE Goto(w, "limit_row") /\ UNCHANGED <<todo, acct, why, outcome>>
    BY <2>1, <2>2, <2>5, <1>8 DEF CallTypes
  <2> QED BY <1>13, <2>3, <2>4, <2>5 DEF Settle
<1>14. CASE MarkRateLimited(w)
  <2>1. pc[w] \in AtAccount /\ {"limited"} \in SUBSET Reasons
    BY <1>14 DEF MarkRateLimited, AtAccount, Reasons
  <2>2. owed' \subseteq Workers
    BY <1>14 DEF MarkRateLimited, CallTypes
  <2> QED BY <1>1, <1>14, <2>1, <2>2, ContinueTypes, ReturnTypes DEF MarkRateLimited
<1> QED BY <1>3, <1>4, <1>5, <1>6, <1>7, <1>9, <1>10, <1>11, <1>12, <1>13, <1>14 DEF Call

-----------------------------------------------------------------------------
(* What a change of a session and its store do to the sessions.            *)

(* Setting a session in memory keeps the types of the sessions.            *)
LEMMA ChangeTypes ==
  ASSUME SessionTypes, NEW a \in Accounts, NEW s \in [state : States, polls : Nat],
         s.polls < Hysteresis, Change(a, s), safe' \in [Accounts -> 0..Hysteresis],
         UNCHANGED <<row, limited, bounds>>
  PROVE  SessionTypes'
<1>1. session' \in [Accounts -> [state : States, polls : Nat]]
      /\ \A b \in Accounts : session'[b].polls < Hysteresis
  BY DEF SessionTypes, Change
<1>2. stale' \subseteq Accounts /\ inherited' \subseteq Accounts
  BY DEF SessionTypes, Change
<1> QED BY <1>1, <1>2 DEF SessionTypes, bounds

(* Restarts and faults stay within their bounds.                           *)
LEMMA FaultTypes ==
  ASSUME SessionTypes, Fault \/ UNCHANGED bounds
  PROVE  restarts' \in 0..MaxRestarts /\ faults' \in 0..MaxFaults
BY OrchestrationAssumption DEF SessionTypes, Fault, bounds

(* Storing a session in its row does, whether or not the write fails.      *)
LEMMA StoreTypes ==
  ASSUME SessionTypes, NEW a \in Accounts, NEW s \in [state : States, polls : Nat],
         s.polls < Hysteresis, Store(a, s),
         UNCHANGED <<session, limited, safe, inherited>>
  PROVE  SessionTypes'
<1>1. restarts' \in 0..MaxRestarts /\ faults' \in 0..MaxFaults
  BY FaultTypes DEF Store
<1>2. row' \in [Accounts -> [state : States, polls : Nat]]
      /\ \A b \in Accounts : row'[b].polls < Hysteresis
  BY DEF SessionTypes, Store
<1>3. stale' \subseteq Accounts
  BY DEF SessionTypes, Store
<1> QED BY <1>1, <1>2, <1>3 DEF SessionTypes

(* Every step of a call does.                                              *)
LEMMA CallStepSessions ==
  ASSUME CallTypes, SessionTypes, NEW w \in Workers, Begin(w) \/ Call(w)
  PROVE  SessionTypes'
<1>1. pc[w] \in AtAccount => acct[w] \in Accounts
  BY DEF CallTypes
<1>2. ASSUME acct[w] \in Accounts, safe' = [safe EXCEPT ![acct[w]] = 0]
      PROVE  safe' \in [Accounts -> 0..Hysteresis]
  BY <1>2, OrchestrationAssumption DEF SessionTypes
<1>3. ASSUME NEW s \in States
      PROVE  /\ Session(s, 0) \in [state : States, polls : Nat]
             /\ Session(s, 0).polls < Hysteresis
  BY SessionFacts, OrchestrationAssumption
<1>4. "running" \in States /\ "queued" \in States
  BY DEF States
<1>5. CASE MarkSet(w)
  BY <1>1, <1>2, <1>3, <1>4, <1>5, ChangeTypes DEF MarkSet, AtAccount, bounds
<1>6. CASE UnmarkSet(w)
  BY <1>1, <1>2, <1>3, <1>4, <1>6, ChangeTypes DEF UnmarkSet, AtAccount, bounds
<1>7. CASE MarkStore(w)
  BY <1>1, <1>3, <1>4, <1>7, StoreTypes DEF MarkStore, AtAccount
<1>8. CASE UnmarkStore(w)
  BY <1>1, <1>3, <1>4, <1>8, StoreTypes DEF UnmarkStore, AtAccount
<1>9. CASE MarkRateLimited(w)
  <2>1. acct[w] \in Accounts
    BY <1>1, <1>9 DEF MarkRateLimited, AtAccount
  <2>2. limited' \subseteq Accounts /\ UNCHANGED <<sessions, history>>
    BY <1>9, <2>1 DEF MarkRateLimited, SessionTypes
  <2>3. restarts' \in 0..MaxRestarts /\ faults' \in 0..MaxFaults
    BY <1>9, FaultTypes DEF MarkRateLimited
  <2> QED BY <2>2, <2>3 DEF SessionTypes, sessions, history
<1>10. CASE UNCHANGED <<sessions, limited, history, bounds>>
  BY <1>10 DEF SessionTypes, sessions, history, bounds
<1> QED BY <1>5, <1>6, <1>7, <1>8, <1>9, <1>10
        DEF Call, Begin, BreakerRefuses, CheckEligibility, CheckRateLimit, PickBestAccount,
            MarkRunning, RunEnds, DirectRunEnds, ChainExhausted, MarkCompleted, Settle

-----------------------------------------------------------------------------
(* The poll and the restarts.                                              *)

(* A poll that takes an account along keeps the types of the polls.        *)
LEMMA PollStepTypes ==
  ASSUME PollTypes, NEW p \in Pollers, NEW s \in {"idle", "reread", "row"},
         NEW a \in Accounts \cup {NoAccount}, s # "idle" => a \in Accounts,
         NEW v \in [state : States, polls : Nat], v.polls < Hysteresis,
         PollStep(p, s, a, v)
  PROVE  PollTypes'
<1>1. /\ step' \in [Pollers -> {"idle", "reread", "row"}]
      /\ target' \in [Pollers -> Accounts \cup {NoAccount}]
      /\ held' \in [Pollers -> [state : States, polls : Nat]]
  BY DEF PollTypes, PollStep
<1>2. \A q \in Pollers : held'[q].polls < Hysteresis
  BY DEF PollTypes, PollStep
<1>3. \A q \in Pollers : step'[q] # "idle" => target'[q] \in Accounts
  BY DEF PollTypes, PollStep
<1> QED BY <1>1, <1>2, <1>3 DEF PollTypes

(* Stopping an account, or counting a safe evaluation of it, keeps the     *)
(* types.                                                                  *)
LEMMA EvaluateTypes ==
  ASSUME SessionTypes, PollTypes, NEW p \in Pollers, NEW a \in Accounts, Evaluate(p, a)
  PROVE  SessionTypes' /\ PollTypes'
<1>1. 0 < Hysteresis /\ Hysteresis \in Nat
  BY OrchestrationAssumption
<1>2. CASE StopAccount(p, a)
  <2>1. safe' \in [Accounts -> 0..Hysteresis]
    BY <1>1, <1>2 DEF StopAccount, SessionTypes
  <2>2. SessionTypes'
    BY <1>1, <1>2, <2>1, StoppedFacts, ChangeTypes DEF StopAccount, bounds
  <2>3. PollTypes'
    BY <1>1, <1>2, StoppedFacts, PollStepTypes DEF StopAccount
  <2> QED BY <2>2, <2>3
<1>3. CASE MaybeResume(p, a)
  <2>1. safe' = [safe EXCEPT ![a] = IF @ < Hysteresis THEN @ + 1 ELSE @]
    BY <1>3 DEF MaybeResume
  <2>2. safe' \in [Accounts -> 0..Hysteresis]
    <3>1. safe[a] \in 0..Hysteresis
      BY DEF SessionTypes
    <3>2. (IF safe[a] < Hysteresis THEN safe[a] + 1 ELSE safe[a]) \in 0..Hysteresis
      BY <1>1, <3>1
    <3> QED BY <2>1, <3>2 DEF SessionTypes
  <2> DEFINE n == session[a].polls + 1
             s == IF n >= Hysteresis THEN Session("queued", 0) ELSE Session("stopped", n)
  <2>3. n \in Nat /\ "queued" \in States /\ "stopped" \in States
    BY DEF SessionTypes, States
  <2>4. s \in [state : States, polls : Nat] /\ s.polls < Hysteresis
    BY <1>1, <2>3, SessionFacts
  <2>5. Change(a, s) /\ PollStep(p, "reread", a, None) /\ UNCHANGED <<row, limited, bounds>>
    BY <1>3 DEF MaybeResume
  <2> HIDE DEF s, n
  <2>6. SessionTypes'
    BY <2>2, <2>4, <2>5, ChangeTypes
  <2>7. PollTypes'
    BY <1>1, <2>5, NoneFacts, PollStepTypes
  <2> QED BY <2>6, <2>7
<1> QED BY <1>2, <1>3 DEF Evaluate

(* The two steps in which a poll stores what it decided keep the types.    *)
LEMMA SaveTypes ==
  ASSUME SessionTypes, PollTypes, NEW p \in Pollers, Save(p)
  PROVE  SessionTypes' /\ PollTypes'
<1>1. 0 < Hysteresis /\ Hysteresis \in Nat
  BY OrchestrationAssumption
<1>2. step[p] # "idle" /\ target[p] \in Accounts
  BY DEF Save, Reread, PollStore, PollTypes
<1>3. CASE Reread(p)
  <2>1. /\ session[target[p]] \in [state : States, polls : Nat]
        /\ session[target[p]].polls < Hysteresis
    BY <1>2 DEF SessionTypes
  <2>2. PollTypes'
    BY <1>2, <1>3, <2>1, PollStepTypes DEF Reread
  <2>3. SessionTypes'
    BY <1>3 DEF Reread, SessionTypes, sessions, history, bounds
  <2> QED BY <2>2, <2>3
<1>4. CASE PollStore(p)
  <2>1. held[p] \in [state : States, polls : Nat] /\ held[p].polls < Hysteresis
    BY DEF PollTypes
  <2>2. SessionTypes'
    BY <1>2, <1>4, <2>1, StoreTypes DEF PollStore
  <2>3. PollTypes'
    BY <1>1, <1>4, NoneFacts, PollStepTypes DEF PollStore
  <2> QED BY <2>2, <2>3
<1> QED BY <1>3, <1>4 DEF Save

(* A restart keeps the types, with the sessions of the table or without    *)
(* them.                                                                   *)
LEMMA RebootTypes ==
  ASSUME Typed, Restart \/ RestartWithoutSessions
  PROVE  Typed'
<1>1. 0 < Hysteresis /\ Hysteresis \in Nat
  BY OrchestrationAssumption
<1>2. PICK loaded : /\ Reboot(loaded)
                    /\ loaded \in [Accounts -> [state : States, polls : Nat]]
                    /\ \A a \in Accounts : loaded[a].polls < Hysteresis
  <2>1. CASE Restart
    BY <2>1 DEF Restart, Typed, SessionTypes
  <2>2. CASE RestartWithoutSessions
    BY <1>1, <2>2, NoneFacts DEF RestartWithoutSessions
  <2> QED BY <2>1, <2>2
<1>3. CallTypes'
  BY <1>2 DEF Reboot, CallTypes, AtAccount, WorkerSteps
<1>4. PollTypes'
  BY <1>1, <1>2, NoneFacts DEF Reboot, PollTypes
<1>5. /\ stale' \subseteq Accounts /\ faults' \in 0..MaxFaults
      /\ restarts' \in 0..MaxRestarts
  BY <1>2, OrchestrationAssumption
     DEF Restart, RestartWithoutSessions, Reboot, Typed, SessionTypes
<1>6. safe' \in [Accounts -> 0..Hysteresis]
  <2>1. \A a \in Accounts : loaded[a].polls \in 0..Hysteresis
    BY <1>1, <1>2
  <2> QED BY <1>2, <2>1 DEF Reboot
<1>7. SessionTypes'
  BY <1>2, <1>5, <1>6 DEF Reboot, Typed, SessionTypes
<1> QED BY <1>3, <1>4, <1>7 DEF Typed

-----------------------------------------------------------------------------
(* Every step keeps the types.                                             *)
THEOREM StepTyped == Typed /\ [Next]_vars => Typed'
<1> SUFFICES ASSUME Typed, [Next]_vars PROVE Typed'
  OBVIOUS
<1> USE DEF Typed
<1>1. ASSUME NEW w \in Workers, Begin(w) \/ Call(w) PROVE Typed'
  <2>1. UNCHANGED polls
    BY <1>1 DEF Begin, Call, BreakerRefuses, CheckEligibility, CheckRateLimit,
          PickBestAccount, MarkRunning, MarkSet, MarkStore, RunEnds, DirectRunEnds,
          ChainExhausted, MarkCompleted, UnmarkSet, UnmarkStore, Settle, MarkRateLimited
  <2>2. PollTypes'
    BY <2>1 DEF PollTypes, polls
  <2> QED BY <1>1, <2>2, CallStepTypes, CallStepSessions
<1>2. ASSUME NEW p \in Pollers, Save(p) \/ \E a \in Accounts : Evaluate(p, a) PROVE Typed'
  <2>1. UNCHANGED calls
    BY <1>2 DEF Save, Evaluate, Reread, PollStore, StopAccount, MaybeResume
  <2>2. CallTypes'
    BY <2>1 DEF CallTypes, calls
  <2> QED BY <1>2, <2>2, EvaluateTypes, SaveTypes
<1>3. ASSUME NEW a \in Accounts, LimitEnds(a) PROVE Typed'
  BY <1>3 DEF LimitEnds, CallTypes, SessionTypes, PollTypes, sessions, calls, polls, history, bounds
<1>4. CASE Restart \/ RestartWithoutSessions
  BY <1>4, RebootTypes
<1>5. CASE UNCHANGED vars
  BY <1>5 DEF CallTypes, SessionTypes, PollTypes, vars, sessions, calls, polls, history, bounds
<1> QED BY <1>1, <1>2, <1>3, <1>4, <1>5 DEF Next

(* Typed holds in every reachable state.                                   *)
LEMMA TypedAlways == Spec => []Typed
BY InitTyped, StepTyped, PTL DEF Spec

(* TypeOK always holds: each statement of the call, of the hooks and of    *)
(* the poll finds the account and the chain entry it needs, and no counter *)
(* of safe polls reaches the hysteresis.                                   *)
THEOREM OrchestrationTypeCorrect == Spec => []TypeOK
BY TypedAlways, TypedImpliesTypeOK, PTL

-----------------------------------------------------------------------------
(* What a step of one call leaves alone.                                   *)

(* A step of one call leaves the other calls alone.                        *)
LEMMA OtherCalls ==
  ASSUME CallTypes, NEW w \in Workers, Begin(w) \/ Call(w), NEW v \in Workers, v # w
  PROVE  /\ pc'[v] = pc[v] /\ acct'[v] = acct[v] /\ why'[v] = why[v]
         /\ v \in owed' <=> v \in owed
BY DEF CallTypes, Begin, Call, BreakerRefuses, CheckEligibility, CheckRateLimit, PickBestAccount,
       MarkRunning, MarkSet, MarkStore, RunEnds, DirectRunEnds, ChainExhausted, MarkCompleted,
       UnmarkSet, UnmarkStore, Settle, MarkRateLimited, Continue, Return, Goto

(* A call leaves the polls alone.                                          *)
LEMMA CallLeavesPolls ==
  ASSUME NEW w \in Workers, Begin(w) \/ Call(w)
  PROVE  UNCHANGED <<step, target, held>>
BY DEF Begin, Call, BreakerRefuses, CheckEligibility, CheckRateLimit,
       PickBestAccount, MarkRunning, MarkSet, MarkStore, RunEnds, DirectRunEnds,
       ChainExhausted, MarkCompleted, UnmarkSet, UnmarkStore, Settle, MarkRateLimited, polls

(* A poll leaves the calls alone.                                          *)
LEMMA PollLeavesCalls ==
  ASSUME NEW p \in Pollers, Save(p) \/ \E a \in Accounts : Evaluate(p, a)
  PROVE  UNCHANGED <<pc, todo, acct, why, outcome, owed>>
BY DEF Save, Evaluate, Reread, PollStore, StopAccount, MaybeResume, calls

-----------------------------------------------------------------------------
(* A rate-limited event is not dropped.                                    *)

(* At first no call owes a retry.                                          *)
LEMMA OwingInit == Init => Owing
BY DEF Init, Owing

(* A call that owes a retry after its step is still in its chain and       *)
(* remembers why.                                                          *)
LEMMA OwingCall ==
  ASSUME CallTypes, Owing, NEW w \in Workers, Begin(w) \/ Call(w), w \in owed'
  PROVE  /\ pc'[w] \notin {"idle", "direct"}
         /\ pc'[w] = "limit_row" \/ "limited" \in why'[w]
<1>1. w \in owed => /\ pc[w] \notin {"idle", "direct"}
                    /\ pc[w] = "limit_row" \/ "limited" \in why[w]
  BY DEF Owing
<1>2. ASSUME NEW r, Continue(w, r), "limited" \in why[w] \cup r
      PROVE  pc'[w] \in {"exhausted", "select"} /\ "limited" \in why'[w]
  BY <1>2 DEF Continue, Goto, CallTypes
<1>3. ASSUME NEW s, Goto(w, s), why' = why PROVE pc'[w] = s /\ why'[w] = why[w]
  BY <1>3 DEF Goto, CallTypes
<1>4. ~ Begin(w) /\ ~ DirectRunEnds(w)
  <2>1. CASE Begin(w)
    BY <1>1, <2>1 DEF Begin
  <2>2. CASE DirectRunEnds(w)
    BY <1>1, <2>2 DEF DirectRunEnds
  <2> QED BY <2>1, <2>2
<1>5. CASE BreakerRefuses(w) \/ CheckEligibility(w) \/ CheckRateLimit(w) \/ PickBestAccount(w)
  <2>1. w \in owed /\ pc[w] \in {"select", "limit"}
    BY <1>5 DEF BreakerRefuses, CheckEligibility, CheckRateLimit, PickBestAccount
  <2>2. \/ \E r : Continue(w, r)
        \/ why' = why /\ \E s \in {"limit", "mark"} : Goto(w, s)
    BY <1>5 DEF BreakerRefuses, CheckEligibility, CheckRateLimit, PickBestAccount
  <2> QED BY <1>1, <1>2, <1>3, <2>1, <2>2
<1>6. CASE \/ MarkRunning(w) \/ MarkSet(w) \/ MarkStore(w) \/ RunEnds(w)
           \/ MarkCompleted(w) \/ UnmarkSet(w) \/ UnmarkStore(w)
  <2>1. w \in owed /\ pc[w] # "limit_row" /\ why' = why
    BY <1>6 DEF MarkRunning, MarkSet, MarkStore, RunEnds, MarkCompleted, UnmarkSet, UnmarkStore
  <2>2. \E s \in WorkerSteps \ {"idle", "direct"} : Goto(w, s)
    BY <1>6 DEF MarkRunning, MarkSet, MarkStore, RunEnds, MarkCompleted, UnmarkSet, UnmarkStore,
          WorkerSteps
  <2> QED BY <1>1, <1>3, <2>1, <2>2
<1>7. CASE ChainExhausted(w)
  <2>1. w \in owed /\ pc[w] = "exhausted"
    BY <1>7 DEF ChainExhausted
  <2>2. Exhausted(why[w]) = "retry"
    BY <1>1, <2>1 DEF Exhausted
  <2> QED BY <1>7, <2>2 DEF ChainExhausted
<1>8. CASE Settle(w)
  <2>1. pc[w] = "settle"
    BY <1>8 DEF Settle
  <2>2. CASE Goto(w, "limit_row") /\ why' = why
    BY <1>3, <2>2
  <2>3. CASE Continue(w, {}) /\ owed' = owed
    BY <1>1, <1>2, <2>1, <2>3
  <2> QED BY <1>8, <2>2, <2>3 DEF Settle
<1>9. CASE MarkRateLimited(w)
  <2>1. Continue(w, {"limited"})
    BY <1>9 DEF MarkRateLimited
  <2> QED BY <1>2, <2>1
<1> QED BY <1>4, <1>5, <1>6, <1>7, <1>8, <1>9 DEF Call

(* Every step keeps what is owed.                                          *)
LEMMA OwingStep == Typed /\ Owing /\ [Next]_vars => Owing'
<1> SUFFICES ASSUME Typed, Owing, [Next]_vars PROVE Owing'
  OBVIOUS
<1>1. ASSUME NEW w \in Workers, Begin(w) \/ Call(w) PROVE Owing'
  <2>1. \A v \in owed' : v \in Workers
    BY StepTyped DEF Typed, CallTypes
  <2>2. ASSUME NEW v \in owed', v # w
        PROVE  /\ pc'[v] \notin {"idle", "direct"}
               /\ pc'[v] = "limit_row" \/ "limited" \in why'[v]
    BY <1>1, <2>1, <2>2, OtherCalls DEF Owing, Typed
  <2>3. w \in owed' => /\ pc'[w] \notin {"idle", "direct"}
                       /\ pc'[w] = "limit_row" \/ "limited" \in why'[w]
    BY <1>1, OwingCall DEF Typed
  <2> QED BY <2>2, <2>3 DEF Owing
<1>2. CASE UNCHANGED <<pc, why, owed>>
  BY <1>2 DEF Owing
<1>3. CASE Restart \/ RestartWithoutSessions
  BY <1>3 DEF Restart, RestartWithoutSessions, Reboot, Owing
<1>4. ASSUME NEW a \in Accounts, LimitEnds(a) PROVE Owing'
  BY <1>4, <1>2 DEF LimitEnds, calls
<1> QED BY <1>1, <1>2, <1>3, <1>4, PollLeavesCalls DEF Next, vars, calls

(* An event whose execution was rate-limited is executed by a later entry  *)
(* of its chain, or its call schedules a retry or fails to mark the        *)
(* account: no call returns before, with any chain and any interleaving.   *)
THEOREM RateLimitNeverDropped == Spec => []LimitedIsRetried
<1>1. Owing => LimitedIsRetried
  BY DEF Owing, LimitedIsRetried
<1> QED BY <1>1, TypedAlways, OwingInit, OwingStep, PTL DEF Spec

-----------------------------------------------------------------------------
(* A running account is busy.                                              *)

BusySteps == {"mark_row", "run", "unmark", "unmark_set"}

(* A step that a busy call makes without leaving BusySteps.                *)
LEMMA BusyCall ==
  ASSUME CallTypes, NEW w \in Workers, Begin(w) \/ Call(w), pc[w] \in BusySteps
  PROVE  \/ pc'[w] \in BusySteps /\ acct'[w] = acct[w]
         \/ session[acct[w]].state # "running" /\ UNCHANGED session
         \/ UnmarkSet(w)
BY DEF BusySteps, CallTypes, Begin, Call, BreakerRefuses, CheckEligibility, CheckRateLimit,
       PickBestAccount, MarkRunning, MarkSet, MarkStore, RunEnds, DirectRunEnds, ChainExhausted,
       MarkCompleted, UnmarkSet, UnmarkStore, Settle, MarkRateLimited, Goto, sessions

(* Every step keeps each running account busy.                             *)
LEMMA BusyStep == Typed /\ RunningIsBusy /\ [Next]_vars => RunningIsBusy'
<1> SUFFICES ASSUME Typed, RunningIsBusy, [Next]_vars,
                    NEW a \in Accounts, session'[a].state = "running", a \notin inherited'
             PROVE  \E v \in Workers : acct'[v] = a /\ pc'[v] \in BusySteps
  BY DEF RunningIsBusy, Busy, BusySteps
<1> USE DEF Typed
<1>1. ASSUME session'[a] = session[a], inherited' = inherited
      PROVE  \E v \in Workers : acct[v] = a /\ pc[v] \in BusySteps
  BY <1>1 DEF RunningIsBusy, Busy, BusySteps
<1>2. ASSUME NEW b \in Accounts, NEW s, Change(b, s), b # a
      PROVE  \E v \in Workers : acct[v] = a /\ pc[v] \in BusySteps
  BY <1>2 DEF Change, SessionTypes, RunningIsBusy, Busy, BusySteps
<1>3. ASSUME NEW s, Change(a, s) PROVE s.state = "running"
  BY <1>3 DEF Change, SessionTypes
<1>4. ASSUME NEW w \in Workers, Begin(w) \/ Call(w)
      PROVE  \E v \in Workers : acct'[v] = a /\ pc'[v] \in BusySteps
  <2>1. pc[w] \in AtAccount => acct[w] \in Accounts
    BY DEF CallTypes
  <2>2. CASE MarkSet(w) /\ acct[w] = a
    BY <2>2 DEF MarkSet, Goto, BusySteps, CallTypes
  <2>3. CASE UnmarkSet(w) /\ acct[w] = a
    <3>1. Change(a, Session("queued", 0))
      BY <2>3 DEF UnmarkSet
    <3> QED BY <1>3, <3>1 DEF Session
  <2>4. CASE ~ (UnmarkSet(w) /\ acct[w] = a) /\ ~ (MarkSet(w) /\ acct[w] = a)
    <3>1. PICK v \in Workers : acct[v] = a /\ pc[v] \in BusySteps
      <4>1. CASE MarkSet(w)
        BY <1>2, <2>1, <2>4, <4>1 DEF MarkSet, AtAccount
      <4>2. CASE UnmarkSet(w)
        BY <1>2, <2>1, <2>4, <4>2 DEF UnmarkSet, AtAccount
      <4>3. CASE ~ MarkSet(w) /\ ~ UnmarkSet(w)
        <5>1. UNCHANGED <<session, inherited>>
          BY <1>4, <4>3 DEF Begin, Call, BreakerRefuses, CheckEligibility, CheckRateLimit,
             PickBestAccount, MarkRunning, MarkStore, RunEnds, DirectRunEnds, ChainExhausted,
             MarkCompleted, UnmarkStore, Settle, MarkRateLimited, sessions, history
        <5> QED BY <1>1, <5>1
      <4> QED BY <4>1, <4>2, <4>3
    <3>2. CASE v # w
      BY <1>4, <3>1, <3>2, OtherCalls
    <3>3. CASE v = w
      <4>1. pc[w] \in BusySteps /\ acct[w] = a
        BY <3>1, <3>3
      <4>2. pc'[w] \in BusySteps /\ acct'[w] = acct[w]
        BY <1>4, <2>4, <4>1, BusyCall
      <4> QED BY <4>1, <4>2
    <3> QED BY <3>2, <3>3
  <2> QED BY <2>2, <2>3, <2>4
<1>5. ASSUME UNCHANGED <<pc, acct>>,
             \/ session' = session /\ inherited' = inherited
             \/ \E b \in Accounts : \E s : s.state # "running" /\ Change(b, s)
      PROVE  \E v \in Workers : acct'[v] = a /\ pc'[v] \in BusySteps
  BY <1>1, <1>2, <1>3, <1>5
<1>6. ASSUME NEW p \in Pollers, Save(p)
      PROVE  \E v \in Workers : acct'[v] = a /\ pc'[v] \in BusySteps
  BY <1>5, <1>6, PollLeavesCalls DEF Save, Reread, PollStore, sessions, history
<1>7. ASSUME NEW p \in Pollers, NEW b \in Accounts, Evaluate(p, b)
      PROVE  \E v \in Workers : acct'[v] = a /\ pc'[v] \in BusySteps
  <2>1. \E s : s.state # "running" /\ Change(b, s)
    BY <1>7, StoppedFacts DEF Evaluate, StopAccount, MaybeResume, Session
  <2> QED BY <1>5, <1>7, <2>1, PollLeavesCalls
<1>8. CASE Restart \/ RestartWithoutSessions
  BY <1>8 DEF Restart, RestartWithoutSessions, Reboot
<1>9. ASSUME NEW b \in Accounts, LimitEnds(b)
      PROVE  \E v \in Workers : acct'[v] = a /\ pc'[v] \in BusySteps
  BY <1>5, <1>9 DEF LimitEnds, calls, sessions, history
<1>10. CASE UNCHANGED vars
  BY <1>5, <1>10 DEF vars, calls, sessions, history
<1> QED BY <1>4, <1>6, <1>7, <1>8, <1>9, <1>10 DEF Next

(* An account that says "running" has an execution between mark_running    *)
(* and mark_completed, with any number of calls on it, except for a state  *)
(* that a restart loaded.                                                  *)
THEOREM RunningAccountIsBusy == Spec => []RunningIsBusy
<1>1. Init => RunningIsBusy
  BY NoneFacts DEF Init, RunningIsBusy
<1> QED BY <1>1, TypedAlways, BusyStep, PTL DEF Spec

-----------------------------------------------------------------------------
(* A stopped account stays stopped.                                        *)

(* At first no counter runs ahead.                                         *)
LEMMA CountedInit == Init => Counted
BY NoneFacts DEF Init, Counted

(* Every step keeps a stopped account's counter behind the safe polls.     *)
LEMMA CountedStep == Typed /\ Counted /\ [Next]_vars => Counted'
<1> SUFFICES ASSUME Typed, Counted, [Next]_vars,
                    NEW a \in Accounts, session'[a].state = "stopped"
             PROVE  session'[a].polls <= safe'[a]
  BY DEF Counted
<1> USE DEF Typed
<1>1. ASSUME session'[a] = session[a], safe'[a] = safe[a]
      PROVE  session'[a].polls <= safe'[a]
  BY <1>1 DEF Counted
<1>2. ASSUME NEW b \in Accounts, NEW s, NEW n, Change(b, s), b # a,
             safe' = [safe EXCEPT ![b] = n]
      PROVE  session'[a].polls <= safe'[a]
  BY <1>1, <1>2 DEF Change, SessionTypes
<1>3. ASSUME NEW s, Change(a, s) PROVE session'[a] = s
  BY <1>3 DEF Change, SessionTypes
<1>4. ASSUME NEW w \in Workers, Begin(w) \/ Call(w)
      PROVE  session'[a].polls <= safe'[a]
  <2>1. pc[w] \in AtAccount => acct[w] \in Accounts
    BY DEF CallTypes
  <2>2. CASE MarkSet(w) \/ UnmarkSet(w)
    <3>1. acct[w] \in Accounts
      BY <2>1, <2>2 DEF MarkSet, UnmarkSet, AtAccount
    <3>2. PICK s : /\ Change(acct[w], s) /\ s.state # "stopped"
                   /\ safe' = [safe EXCEPT ![acct[w]] = 0]
      BY <2>2 DEF MarkSet, UnmarkSet, Session
    <3>3. acct[w] # a
      BY <1>3, <3>2
    <3> QED BY <1>2, <3>1, <3>2, <3>3
  <2>3. CASE UNCHANGED <<session, safe>>
    BY <1>1, <2>3
  <2> QED BY <1>4, <2>2, <2>3 DEF Begin, Call, BreakerRefuses, CheckEligibility,
         CheckRateLimit, PickBestAccount, MarkRunning, MarkStore, RunEnds, DirectRunEnds,
         ChainExhausted, MarkCompleted, UnmarkStore, Settle, MarkRateLimited, sessions, history
<1>5. ASSUME NEW p \in Pollers, NEW b \in Accounts, StopAccount(p, b)
      PROVE  session'[a].polls <= safe'[a]
  <2>1. Change(b, Stopped) /\ safe' = [safe EXCEPT ![b] = 0]
    BY <1>5 DEF StopAccount
  <2>2. CASE b # a
    BY <1>2, <2>1, <2>2
  <2>3. CASE b = a
    <3>1. session'[a].polls = 0 /\ safe'[a] = 0
      BY <1>3, <2>1, <2>3, StoppedFacts DEF SessionTypes
    <3> QED BY <3>1
  <2> QED BY <2>2, <2>3
<1>6. ASSUME NEW p \in Pollers, NEW b \in Accounts, MaybeResume(p, b)
      PROVE  session'[a].polls <= safe'[a]
  <2> DEFINE m == session[b].polls + 1
             s == IF m >= Hysteresis THEN Session("queued", 0) ELSE Session("stopped", m)
             k == IF safe[b] < Hysteresis THEN safe[b] + 1 ELSE safe[b]
  <2>1. Change(b, s) /\ safe' = [safe EXCEPT ![b] = k] /\ session[b].state = "stopped"
    BY <1>6 DEF MaybeResume
  <2>2. CASE b # a
    <3> HIDE DEF s, k
    <3> QED BY <1>2, <2>1, <2>2
  <2>3. CASE b = a
    <3>1. session[a].polls <= safe[a] /\ safe[a] \in 0..Hysteresis /\ session[a].polls \in Nat
      BY <2>1, <2>3 DEF Counted, SessionTypes
    <3>2. session'[a] = s /\ safe'[a] = k
      <4> HIDE DEF s, k
      <4> QED BY <1>3, <2>1, <2>3 DEF SessionTypes
    <3>3. s = Session("stopped", m) /\ m < Hysteresis
      BY <2>3, <3>1, <3>2, OrchestrationAssumption DEF Session
    <3>4. session'[a].polls = session[a].polls + 1
      BY <2>3, <3>2, <3>3 DEF Session
    <3> QED BY <2>3, <3>1, <3>2, <3>3, <3>4, OrchestrationAssumption
  <2> QED BY <2>2, <2>3
<1>7. ASSUME NEW p \in Pollers, Save(p) PROVE session'[a].polls <= safe'[a]
  BY <1>1, <1>7 DEF Save, Reread, PollStore, sessions, history
<1>8. CASE Restart \/ RestartWithoutSessions
  <2> PICK loaded : Reboot(loaded) /\ \A b \in Accounts : loaded[b].polls \in Nat
    BY <1>8, NoneFacts DEF Restart, RestartWithoutSessions, SessionTypes
  <2> QED BY DEF Reboot
<1>9. ASSUME NEW b \in Accounts, LimitEnds(b) PROVE session'[a].polls <= safe'[a]
  BY <1>1, <1>9 DEF LimitEnds, sessions, history
<1>10. CASE UNCHANGED vars
  BY <1>1, <1>10 DEF vars, sessions, history
<1> QED BY <1>4, <1>5, <1>6, <1>7, <1>8, <1>9, <1>10 DEF Next, Evaluate

(* A step that ends a stop has the safe polls for it, or is a hook's late  *)
(* set.                                                                    *)
LEMMA StopSticksStep ==
  ASSUME Typed, Counted, Next, NEW a \in Accounts,
         session[a].state = "stopped", session'[a].state # "stopped"
  PROVE  \/ safe'[a] >= Hysteresis
         \/ \E w \in Workers : acct[w] = a /\ pc[w] \in {"mark_set", "unmark_set"}
         \/ restarts' # restarts
<1> USE DEF Typed
<1>1. ASSUME NEW b \in Accounts, NEW s, Change(b, s) PROVE b = a /\ session'[a] = s
  BY <1>1 DEF Change, SessionTypes
<1>2. ASSUME NEW w \in Workers, Begin(w) \/ Call(w)
      PROVE  acct[w] = a /\ pc[w] \in {"mark_set", "unmark_set"}
  <2>1. MarkSet(w) \/ UnmarkSet(w)
    BY <1>2 DEF Begin, Call, BreakerRefuses, CheckEligibility,
         CheckRateLimit, PickBestAccount, MarkRunning, MarkStore, RunEnds, DirectRunEnds,
         ChainExhausted, MarkCompleted, UnmarkStore, Settle, MarkRateLimited, sessions
  <2>2. acct[w] \in Accounts /\ pc[w] \in {"mark_set", "unmark_set"}
    BY <2>1 DEF MarkSet, UnmarkSet, CallTypes, AtAccount
  <2>3. acct[w] = a
    BY <1>1, <2>1, <2>2 DEF MarkSet, UnmarkSet
  <2> QED BY <2>2, <2>3
<1>3. ASSUME NEW p \in Pollers, NEW b \in Accounts, Evaluate(p, b)
      PROVE  safe'[a] >= Hysteresis
  <2>1. ~ StopAccount(p, b)
    BY <1>1, StoppedFacts DEF StopAccount
  <2> DEFINE m == session[b].polls + 1
             s == IF m >= Hysteresis THEN Session("queued", 0) ELSE Session("stopped", m)
             k == IF safe[b] < Hysteresis THEN safe[b] + 1 ELSE safe[b]
  <2>2. Change(b, s) /\ safe' = [safe EXCEPT ![b] = k]
    BY <1>3, <2>1 DEF Evaluate, MaybeResume
  <2>3. b = a /\ session'[a] = s /\ safe'[a] = k
    <3> HIDE DEF s, k
    <3> QED BY <1>1, <2>2 DEF SessionTypes
  <2>4. m >= Hysteresis
    BY <2>3 DEF Session
  <2>5. session[a].polls <= safe[a] /\ safe[a] \in 0..Hysteresis /\ session[a].polls \in Nat
    BY DEF Counted, SessionTypes
  <2> QED BY <2>3, <2>4, <2>5, OrchestrationAssumption
<1>4. ASSUME NEW p \in Pollers, Save(p) PROVE FALSE
  BY <1>4 DEF Save, Reread, PollStore, sessions
<1>5. ASSUME NEW b \in Accounts, LimitEnds(b) PROVE FALSE
  BY <1>5 DEF LimitEnds, sessions
<1>6. ASSUME Restart \/ RestartWithoutSessions PROVE restarts' # restarts
  BY <1>6 DEF Restart, RestartWithoutSessions, Reboot, SessionTypes
<1> QED BY <1>2, <1>3, <1>4, <1>5, <1>6 DEF Next

(* A stopped account is resumed only by the required number of safe polls, *)
(* by a hook that had read its state before it was stopped, or by a        *)
(* restart.                                                                *)
THEOREM StoppedStaysStopped == Spec => StopSticks
<1> DEFINE Sticks == \A a \in Accounts :
       (session[a].state = "stopped" /\ session'[a].state # "stopped")
         => \/ safe'[a] >= Hysteresis
            \/ \E w \in Workers : acct[w] = a /\ pc[w] \in {"mark_set", "unmark_set"}
            \/ restarts' # restarts
<1>1. Typed /\ Counted /\ [Next]_vars => [Sticks]_vars
  BY StopSticksStep
<1>2. Spec => [][Sticks]_vars
  <2> HIDE DEF Sticks
  <2> QED BY <1>1, TypedAlways, CountedInit, CountedStep, PTL DEF Spec
<1> QED BY <1>2 DEF StopSticks

-----------------------------------------------------------------------------
(* The rows agree with memory.                                             *)

RowSteps  == {"mark_row", "unmark_row"}
SaveSteps == {"reread", "row"}

(* No writers, spelled out for calls and polls.                            *)
LEMMA NoWriters ==
  ASSUME NEW a \in Accounts
  PROVE  Writers(a) = {} <=> /\ \A w \in Workers : ~ (acct[w] = a /\ pc[w] \in RowSteps)
                             /\ \A p \in Pollers : ~ (target[p] = a /\ step[p] \in SaveSteps)
BY DEF Writers, RowSteps, SaveSteps

(* The same of the next state.                                             *)
LEMMA NoWritersNext ==
  ASSUME NEW a \in Accounts
  PROVE  Writers(a)' = {} <=>
           /\ \A w \in Workers : ~ (acct'[w] = a /\ pc'[w] \in RowSteps)
           /\ \A p \in Pollers : ~ (target'[p] = a /\ step'[p] \in SaveSteps)
BY DEF Writers, RowSteps, SaveSteps

(* A step that does not touch the session of a, its row or its writers.    *)
LEMMA AgreesKept ==
  ASSUME NEW a \in Accounts, Agrees(a), a \notin stale,
         session'[a] = session[a], row'[a] = row[a],
         \A w \in Workers : (acct[w] = a /\ pc[w] \in RowSteps)
                             => acct'[w] = a /\ pc'[w] = pc[w],
         \A w \in Workers : (acct'[w] = a /\ pc'[w] \in RowSteps)
                             => acct[w] = a /\ pc'[w] = pc[w],
         \A p \in Pollers : (target[p] = a /\ step[p] \in SaveSteps)
                             => target'[p] = a /\ step'[p] \in SaveSteps,
         \A p \in Pollers : (target'[p] = a /\ step'[p] \in SaveSteps)
                             => /\ target[p] = a /\ step[p] \in SaveSteps
                                /\ \/ step'[p] = step[p] /\ held'[p] = held[p]
                                   \/ held'[p] = session[a]
  PROVE  Agrees(a)'
<1>1. Pending(a) /\ (Writers(a) = {} => row[a] = session[a])
  BY DEF Agrees
<1>2. Pending(a)'
  BY <1>1 DEF Pending, RowSteps, SaveSteps
<1>3. Writers(a)' = {} => Writers(a) = {}
  BY NoWriters, NoWritersNext DEF RowSteps, SaveSteps
<1> QED BY <1>1, <1>2, <1>3 DEF Agrees

(* A step of a call keeps memory and row in agreement.                     *)
LEMMA AgreesCall ==
  ASSUME Typed, NEW a \in Accounts, Agrees(a), NEW w \in Workers, Begin(w) \/ Call(w)
  PROVE  Agrees(a)'
<1> USE DEF Typed
<1> SUFFICES ASSUME a \notin stale' PROVE Agrees(a)'
  BY DEF Agrees
<1>1. pc[w] \in AtAccount => acct[w] \in Accounts
  BY DEF CallTypes
<1>2. UNCHANGED <<step, target, held>>
  BY CallLeavesPolls
<1>3. \A v \in Workers : v # w => pc'[v] = pc[v] /\ acct'[v] = acct[v]
  BY OtherCalls
<1>4. ASSUME UNCHANGED <<session, row, stale>>, pc[w] \notin RowSteps, pc'[w] \notin RowSteps
      PROVE  Agrees(a)'
  BY <1>2, <1>3, <1>4, AgreesKept
<1>5. ASSUME acct[w] # a, acct'[w] # a, a \notin stale,
             session'[a] = session[a], row'[a] = row[a]
      PROVE  Agrees(a)'
  BY <1>2, <1>3, <1>5, AgreesKept
<1>6. ASSUME NEW s, Change(acct[w], s), acct[w] \in Accounts, acct' = acct, row' = row,
             \/ pc'[w] = "mark_row" /\ s = Session("running", 0)
             \/ pc'[w] = "unmark_row" /\ s = Session("queued", 0)
      PROVE  Agrees(a)'
  <2>1. CASE acct[w] # a
    BY <1>5, <1>6, <2>1 DEF Change, SessionTypes
  <2>2. CASE acct[w] = a
    <3>1. Writers(a) = {} /\ session'[a] = s
      BY <1>6, <2>2 DEF Change, SessionTypes
    <3>2. Pending(a)'
      <4>1. \A v \in Workers : acct'[v] = a /\ pc'[v] \in RowSteps => v = w
        BY <1>3, <3>1, NoWriters
      <4>2. \A p \in Pollers : ~ (target'[p] = a /\ step'[p] = "row")
        BY <1>2, <3>1, NoWriters DEF SaveSteps
      <4>3. "mark_row" # "unmark_row"
        OBVIOUS
      <4> QED BY <1>6, <3>1, <4>1, <4>2, <4>3 DEF Pending, RowSteps
    <3>3. Writers(a)' # {}
      BY <1>6, <2>2, NoWritersNext DEF RowSteps
    <3> QED BY <3>2, <3>3 DEF Agrees
  <2> QED BY <2>1, <2>2
<1>7. ASSUME NEW s, Store(acct[w], s), acct[w] \in Accounts, acct' = acct, session' = session,
             \/ pc[w] = "mark_row" /\ s = Session("running", 0)
             \/ pc[w] = "unmark_row" /\ s = Session("queued", 0),
             pc'[w] \notin RowSteps
      PROVE  Agrees(a)'
  <2>1. a \notin stale
    BY <1>7 DEF Store
  <2>2. CASE acct[w] # a
    BY <1>5, <1>7, <2>1, <2>2 DEF Store, SessionTypes
  <2>3. CASE acct[w] = a
    <3>1. row'[a] = s
      BY <1>7, <2>3 DEF Store, SessionTypes
    <3>2. s = session[a]
      BY <1>7, <2>1, <2>3 DEF Agrees, Pending
    <3>3. Pending(a)'
      BY <1>2, <1>3, <1>7, <2>1 DEF Agrees, Pending, RowSteps
    <3> QED BY <1>7, <3>1, <3>2, <3>3 DEF Agrees
  <2> QED BY <2>2, <2>3
<1>8. CASE MarkSet(w)
  BY <1>1, <1>6, <1>8 DEF MarkSet, Goto, AtAccount, CallTypes
<1>9. CASE UnmarkSet(w)
  BY <1>1, <1>6, <1>9 DEF UnmarkSet, Goto, AtAccount, CallTypes
<1>10. CASE MarkStore(w)
  BY <1>1, <1>7, <1>10 DEF MarkStore, Goto, AtAccount, RowSteps, CallTypes
<1>11. CASE UnmarkStore(w)
  BY <1>1, <1>7, <1>11 DEF UnmarkStore, Goto, AtAccount, RowSteps, CallTypes
<1>12. CASE ~ (MarkSet(w) \/ UnmarkSet(w) \/ MarkStore(w) \/ UnmarkStore(w))
  <2>1. UNCHANGED <<session, row, stale>>
    BY <1>12 DEF Begin, Call, BreakerRefuses, CheckEligibility, CheckRateLimit,
         PickBestAccount, MarkRunning, RunEnds, DirectRunEnds, ChainExhausted,
         MarkCompleted, Settle, MarkRateLimited, sessions, history
  <2>2. pc[w] \notin RowSteps
    BY <1>12 DEF Begin, Call, BreakerRefuses, CheckEligibility, CheckRateLimit,
         PickBestAccount, MarkRunning, RunEnds, DirectRunEnds, ChainExhausted,
         MarkCompleted, Settle, MarkRateLimited, RowSteps
  <2>3. pc'[w] \notin RowSteps
    BY <1>12 DEF Begin, Call, BreakerRefuses, CheckEligibility, CheckRateLimit,
         PickBestAccount, MarkRunning, RunEnds, DirectRunEnds, ChainExhausted,
         MarkCompleted, Settle, MarkRateLimited, RowSteps, Goto, Continue, Return, CallTypes
  <2> QED BY <1>4, <2>1, <2>2, <2>3
<1> QED BY <1>8, <1>9, <1>10, <1>11, <1>12

(* A step of a poll does.                                                  *)
LEMMA AgreesPoll ==
  ASSUME Typed, NEW a \in Accounts, Agrees(a), NEW p \in Pollers,
         Save(p) \/ \E b \in Accounts : Evaluate(p, b)
  PROVE  Agrees(a)'
<1> USE DEF Typed
<1> SUFFICES ASSUME a \notin stale' PROVE Agrees(a)'
  BY DEF Agrees
<1>1. UNCHANGED <<pc, acct>>
  BY PollLeavesCalls
<1>2. ASSUME NEW s, NEW b, NEW v, PollStep(p, s, b, v)
      PROVE  /\ step'[p] = s /\ target'[p] = b /\ held'[p] = v
             /\ \A q \in Pollers : q # p => /\ step'[q] = step[q] /\ target'[q] = target[q]
                                           /\ held'[q] = held[q]
  BY <1>2 DEF PollStep, PollTypes
<1>3. CASE Reread(p)
  <2>1. step'[p] = "row" /\ target'[p] = target[p] /\ held'[p] = session[target[p]]
    BY <1>2, <1>3 DEF Reread
  <2>2. UNCHANGED <<session, row, stale>> /\ step[p] = "reread"
    BY <1>3 DEF Reread, sessions, history
  <2>3. \A q \in Pollers : q # p => /\ step'[q] = step[q] /\ target'[q] = target[q]
                                   /\ held'[q] = held[q]
    BY <1>2, <1>3 DEF Reread
  <2> QED BY <1>1, <2>1, <2>2, <2>3, AgreesKept DEF SaveSteps
<1>4. CASE PollStore(p)
  <2>1. a \notin stale /\ session' = session /\ target[p] \in Accounts /\ step[p] = "row"
    BY <1>4 DEF PollStore, Store, PollTypes
  <2>2. step'[p] = "idle"
        /\ \A q \in Pollers : q # p => /\ step'[q] = step[q] /\ target'[q] = target[q]
                                      /\ held'[q] = held[q]
    BY <1>2, <1>4 DEF PollStore
  <2>3. CASE target[p] # a
    <3>1. row'[a] = row[a]
      BY <1>4, <2>1, <2>3 DEF PollStore, Store, SessionTypes
    <3> QED BY <1>1, <2>1, <2>2, <2>3, <3>1, AgreesKept DEF SaveSteps
  <2>4. CASE target[p] = a
    <3>1. row'[a] = held[p] /\ held[p] = session[a]
      BY <1>4, <2>1, <2>4 DEF PollStore, Store, SessionTypes, Agrees, Pending
    <3>2. Pending(a)'
      BY <1>1, <2>1, <2>2 DEF Agrees, Pending
    <3> QED BY <2>1, <3>1, <3>2 DEF Agrees
  <2> QED BY <2>3, <2>4
<1>5. ASSUME NEW b \in Accounts, Evaluate(p, b) PROVE Agrees(a)'
  <2>1. PICK s, r, v : Change(b, s) /\ PollStep(p, r, b, v) /\ r \in SaveSteps
                       /\ (r = "row" => v = s)
    BY <1>5 DEF Evaluate, StopAccount, MaybeResume, SaveSteps
  <2>2. step[p] = "idle" /\ row' = row
    BY <1>5 DEF Evaluate, StopAccount, MaybeResume
  <2>3. /\ step'[p] = r /\ target'[p] = b /\ held'[p] = v
        /\ \A q \in Pollers : q # p => /\ step'[q] = step[q] /\ target'[q] = target[q]
                                      /\ held'[q] = held[q]
    BY <1>2, <2>1
  <2>4. CASE b # a
    <3>1. a \notin stale /\ session'[a] = session[a]
      BY <2>1, <2>4 DEF Change, SessionTypes
    <3> QED BY <1>1, <2>2, <2>3, <2>4, <3>1, AgreesKept DEF SaveSteps
  <2>5. CASE b = a
    <3>1. Writers(a) = {} /\ session'[a] = s
      BY <2>1, <2>5 DEF Change, SessionTypes
    <3>2. Writers(a)' # {}
      BY <2>1, <2>3, <2>5, NoWritersNext
    <3>3. \A w \in Workers : ~ (acct'[w] = a /\ pc'[w] \in RowSteps)
      BY <1>1, <3>1, NoWriters
    <3>4. \A q \in Pollers : (target'[q] = a /\ step'[q] = "row") => q = p
      BY <2>3, <3>1, NoWriters DEF SaveSteps
    <3>5. Pending(a)'
      BY <2>1, <2>3, <3>1, <3>3, <3>4 DEF Pending, RowSteps
    <3> QED BY <3>2, <3>5 DEF Agrees
  <2> QED BY <2>4, <2>5
<1> QED BY <1>3, <1>4, <1>5 DEF Save

(* Every step does, for every account.                                     *)
LEMMA AgreesStep ==
  ASSUME Typed, NEW a \in Accounts, Agrees(a), [Next]_vars
  PROVE  Agrees(a)'
<1>1. ASSUME NEW b \in Accounts, LimitEnds(b) PROVE Agrees(a)'
  BY <1>1 DEF LimitEnds, sessions, calls, polls, history, Agrees, Pending, Writers
<1>2. CASE Restart
  <2>1. session' = row' /\ Pending(a)'
    BY <1>2 DEF Restart, Reboot, Pending
  <2> QED BY <2>1 DEF Agrees
<1>3. CASE RestartWithoutSessions
  BY <1>3 DEF RestartWithoutSessions, Agrees
<1>4. CASE UNCHANGED vars
  BY <1>4 DEF vars, sessions, calls, polls, history, Agrees, Pending, Writers
<1> QED BY <1>1, <1>2, <1>3, <1>4, AgreesCall, AgreesPoll DEF Next

(* Once nobody is about to store it, the row of an account says what       *)
(* memory says, whatever the interleaving of hooks and polls, unless two   *)
(* writers overlapped or a statement failed.                               *)
THEOREM RowsAgreeWithMemory == Spec => []RowAgrees
<1> DEFINE AllAgree == \A a \in Accounts : Agrees(a)
<1>1. Init => AllAgree
  BY DEF Init, Agrees, Pending
<1>2. Typed /\ AllAgree /\ [Next]_vars => AllAgree'
  BY AgreesStep
<1>3. AllAgree => RowAgrees
  BY DEF Agrees, RowAgrees
<1> HIDE DEF AllAgree
<1> QED BY <1>1, <1>2, <1>3, TypedAlways, PTL DEF Spec

-----------------------------------------------------------------------------
(* Rotation.                                                               *)

(* Where a runner has registered its process; past its clean-up, a thread    *)
(* that rotates has taken the execution off the list.                        *)
Tracked == {"wait", "check", "write", "cleanup", "done"}
Past    == {"finish", "continue", "run"}
Started(e) == status[e] # "none"

(* What the place of the runner says: about the process, the list, and the   *)
(* threads that only deal with executions on the list.                       *)
Watched ==
  \A e \in Executions :
    /\ ~Started(e) => runner[e] = "none"
    /\ runner[e] \in {"none", "spawn"} => proc[e] = "none"
    /\ Alive(e) => runner[e] = "register" \/ (runner[e] = "wait" /\ e \in registered)
    /\ runner[e] = "write" => verdict[e] # "none"
    /\ e \in registered \cup due \/ phase[e] # "none" => runner[e] \in Tracked

(* What the place of the rotating thread says: it is the only one, and from  *)
(* the clean-up on there is no process.                                      *)
Follows ==
  \A e \in Executions :
    /\ phase[e] # "none" => e \notin due
    /\ phase[e] \in Past \cup {"cleanup"} => ~Alive(e)
    /\ phase[e] \in Past => e \notin registered
    /\ phase[e] = "record" => ~LimitReached(e)

(* Executions are started in the order of their numbers, and one that was    *)
(* followed by another is over for everyone but the runner's clean-up and    *)
(* the thread that runs its continuation.                                    *)
Retired ==
  \A e, f \in Executions :
    e < f /\ Started(f) =>
      /\ Started(e) /\ ~Alive(e) /\ runner[e] \in Tracked
      /\ e \notin registered \cup due /\ phase[e] \in {"none", "run"}

(* An event that is pending has a thread that will tell how it ended.        *)
PendingHasThread ==
  \A e \in Executions : event[e] = "pending" => phase[e] \in Past \cup {"term", "grace", "cleanup"}

RotationInv ==
  RotationTypeOK /\ Watched /\ Follows /\ Retired /\ RotationsLimited /\ PendingHasThread

(* The invariant holds at first: one execution, started and not rotated.      *)
LEMMA RotationInitial == RotationInit => RotationInv
<1> SUFFICES ASSUME RotationInit PROVE RotationInv
  OBVIOUS
<1>1. RotationTypeOK
  BY RotationAssumption
  DEF RotationInit, RotationTypeOK, Each, Executions, Verdicts, RunnerPlaces, Early
<1>2. Watched /\ Follows
  BY DEF RotationInit, Watched, Follows, Each, Started, Alive, Tracked, Past
<1>3. Retired /\ RotationsLimited /\ PendingHasThread
  BY RotationAssumption
  DEF RotationInit, Retired, RotationsLimited, PendingHasThread, Each, Started, Alive, Executions
<1> QED
  BY <1>1, <1>2, <1>3 DEF RotationInv

(* Types, for the runner, for what acts from outside, and for a rotation.    *)
LEMMA RunnerTypes ==
  ASSUME RotationTypeOK, NEW e \in Executions, Runner(e)
  PROVE  RotationTypeOK'
<1> USE DEF RotationTypeOK, tracking, job, rotator, RunnerTo, Decide
<1>1. CASE Spawn(e)
  BY <1>1 DEF Spawn, Verdicts, RunnerPlaces
<1>2. CASE Register(e)
  BY <1>2 DEF Register, RunnerPlaces
<1>3. CASE WaitReturns(e)
  BY <1>3 DEF WaitReturns, RunnerPlaces
<1>4. CASE WaitTimesOut(e)
  BY <1>4 DEF WaitTimesOut, RunnerPlaces, Verdicts, Exits
<1>5. CASE CheckExit(e)
  BY <1>5 DEF CheckExit, RunnerPlaces, Verdicts
<1>6. CASE WriteVerdict(e)
  BY <1>6 DEF WriteVerdict, RunnerPlaces
<1>7. CASE Cleanup(e)
  BY <1>7 DEF Cleanup, Forget, RunnerPlaces
<1> QED
  BY <1>1, <1>2, <1>3, <1>4, <1>5, <1>6, <1>7 DEF Runner

(* A pass and what comes from outside keep the types.                        *)
LEMMA OutsideTypes ==
  ASSUME RotationTypeOK, NEW e \in Executions,
         ProcessExits(e) \/ CancelGraceful(e) \/ ForceKill(e) \/ EvaluateExecution(e) \/ Poll
  PROVE  RotationTypeOK'
<1> USE RotationAssumption DEF RotationTypeOK, tracking, job, rotator, execution
<1>1. CASE ProcessExits(e)
  BY <1>1 DEF ProcessExits, Exits
<1>2. CASE CancelGraceful(e)
  BY <1>2 DEF CancelGraceful
<1>3. CASE ForceKill(e)
  BY <1>3 DEF ForceKill, Exits
<1>4. CASE EvaluateExecution(e)
  <2>1. rotatePolls' \in [Executions -> 0..(HysteresisPolls - 1)]
    BY <1>4 DEF EvaluateExecution
  <2>2. phase' \in [Executions -> Early \cup {"none", "finish", "continue", "run"}]
        /\ \A x \in Executions : phase'[x] = "run" => phase[x] = "run"
    BY <1>4 DEF EvaluateExecution, Early
  <2> QED
    BY <1>4, <2>1, <2>2 DEF EvaluateExecution
<1>5. CASE Poll
  BY <1>5 DEF Poll
<1> QED
  BY <1>1, <1>2, <1>3, <1>4, <1>5

(* What the thread does when it has asked should_rotate again.               *)
LEMMA ReadDecides ==
  ASSUME NEW e, ReadExecution(e)
  PROVE  /\ phase[e] = "read" /\ UNCHANGED <<execution, tracking, job, heir>>
         /\ \/ Go(e, "none") /\ UNCHANGED <<event, events>>
            \/ ~LimitReached(e) /\ Go(e, "record") /\ UNCHANGED <<event, events>>
            \/ ~LimitReached(e) /\ Go(e, "none") /\ EventIs(e, "skipped") /\ CountEvent(e)
<1>1. TRUE \in MayRotate(e) => ~LimitReached(e)
  BY DEF MayRotate
<1> QED
  BY <1>1 DEF ReadExecution

(* A rotation keeps the types.                                               *)
LEMMA RotateTypes ==
  ASSUME RotationTypeOK, NEW e \in Executions, Rotate(e)
  PROVE  RotationTypeOK'
<1> USE RotationAssumption DEF RotationTypeOK, tracking, job, execution, Go, EventIs, CountEvent
<1>1. CASE ReadExecution(e)
  <2>1. phase' \in [Executions -> Early \cup {"none", "finish", "continue", "run"}]
        /\ \A x \in Executions : phase'[x] = "run" => phase[x] = "run"
    BY <1>1, ReadDecides DEF Early
  <2>2. /\ event' \in [Executions -> {"none", "pending", "skipped", "completed", "failed"}]
        /\ events' \in [Executions -> Nat]
    BY <1>1, ReadDecides
  <2> QED
    BY <1>1, <2>1, <2>2, ReadDecides
<1>2. CASE RecordEvent(e)
  BY <1>2 DEF RecordEvent, Early
<1>3. CASE Terminate(e)
  BY <1>3 DEF Terminate, Early
<1>4. CASE AwaitExit(e)
  BY <1>4 DEF AwaitExit, Early, Exits
<1>5. CASE ForgetRotated(e)
  BY <1>5 DEF ForgetRotated, Forget
<1>6. CASE FinishRotated(e)
  BY <1>6 DEF FinishRotated
<1>7. CASE StartContinuation(e)
  <2>1. PICK c \in Executions :
          /\ status' = [status EXCEPT ![c] = "running"] /\ RunnerTo(c, "spawn")
          /\ heir' = [heir EXCEPT ![e] = c]
    BY <1>7 DEF StartContinuation
  <2>2. c \in 0..MaxExecutions /\ phase' = [phase EXCEPT ![e] = "run"]
    BY <1>7 DEF StartContinuation, Executions
  <2>3. heir' \in [Executions -> 0..MaxExecutions]
        /\ \A x \in Executions : phase'[x] = "run" => heir'[x] \in Executions
    BY <2>1, <2>2
  <2>4. /\ status' \in [Executions -> Verdicts \cup {"none", "running", "rotated"}]
        /\ runner' \in [Executions -> RunnerPlaces]
        /\ phase' \in [Executions -> Early \cup {"none", "finish", "continue", "run"}]
    BY <2>1, <2>2 DEF RunnerTo, RunnerPlaces
  <2> QED
    BY <1>7, <2>3, <2>4 DEF StartContinuation
<1>8. CASE CompleteRotation(e)
  BY <1>8 DEF CompleteRotation
<1>9. CASE RotationRaises(e)
  BY <1>9 DEF RotationRaises
<1> QED
  BY <1>1, <1>2, <1>3, <1>4, <1>5, <1>6, <1>7, <1>8, <1>9 DEF Rotate

-----------------------------------------------------------------------------
(* The runner, the process and a cancel keep what is known of all threads.   *)
LEMMA RunnerKeeps ==
  ASSUME RotationInv, NEW e \in Executions,
         Runner(e) \/ ProcessExits(e) \/ CancelGraceful(e) \/ ForceKill(e)
  PROVE  Watched' /\ Follows' /\ Retired'
<1> USE DEF RotationInv, RotationTypeOK, tracking, job, rotator, execution, RunnerTo, Decide,
            LimitReached, Started, Alive, Tracked, Past
<1>1. CASE Spawn(e)
  <2>1. Started(e) /\ runner[e] = "spawn" /\ e \notin registered \cup due /\ phase[e] = "none"
    BY <1>1 DEF Spawn, Watched
  <2>2. Watched'
    BY <1>1, <2>1 DEF Spawn, Watched
  <2>3. Follows'
    BY <1>1, <2>1 DEF Spawn, Follows
  <2>4. Retired'
    BY <1>1, <2>1 DEF Spawn, Retired
  <2> QED
    BY <2>2, <2>3, <2>4
<1>2. CASE Register(e)
  BY <1>2 DEF Register, Watched, Follows, Retired
<1>3. CASE WaitReturns(e)
  <2>1. Watched'
    BY <1>3 DEF WaitReturns, Exits, Watched
  <2> QED
    BY <1>3, <2>1 DEF WaitReturns, Follows, Retired
<1>4. CASE WaitTimesOut(e)
  BY <1>4 DEF WaitTimesOut, Watched, Follows, Retired
<1>5. CASE CheckExit(e)
  BY <1>5 DEF CheckExit, Watched, Follows, Retired
<1>6. CASE WriteVerdict(e)
  BY <1>6 DEF WriteVerdict, Watched, Follows, Retired
<1>7. CASE Cleanup(e)
  BY <1>7 DEF Cleanup, Forget, Watched, Follows, Retired
<1>8. CASE ProcessExits(e)
  BY <1>8 DEF ProcessExits, Exits, Watched, Follows, Retired
<1>9. CASE CancelGraceful(e)
  BY <1>9 DEF CancelGraceful, Watched, Follows, Retired
<1>10. CASE ForceKill(e)
  BY <1>10 DEF ForceKill, Watched, Follows, Retired
<1> QED
  BY <1>1, <1>2, <1>3, <1>4, <1>5, <1>6, <1>7, <1>8, <1>9, <1>10 DEF Runner

(* So do a pass of the evaluator and a rotation. The continuation is started *)
(* for the newest execution, since every other is retired; it retires it.    *)
LEMMA RotateKeeps ==
  ASSUME RotationInv, NEW e \in Executions, EvaluateExecution(e) \/ Poll \/ Rotate(e)
  PROVE  Watched' /\ Follows' /\ Retired'
<1> USE DEF RotationInv, RotationTypeOK, tracking, job, rotator, execution, Go, EventIs, CountEvent,
            LimitReached, Started, Alive, Tracked, Past
<1>1. CASE EvaluateExecution(e)
  BY <1>1 DEF EvaluateExecution, Watched, Follows, Retired
<1>2. CASE Poll
  BY <1>2 DEF Poll, Early, Watched, Follows, Retired
<1>3. CASE ReadExecution(e)
  <2>1. /\ phase[e] = "read" /\ UNCHANGED <<status, proc, runner, verdict, registered, due>>
        /\ \/ phase' = [phase EXCEPT ![e] = "none"]
           \/ phase' = [phase EXCEPT ![e] = "record"] /\ ~LimitReached(e) /\ UNCHANGED events
    BY <1>3, ReadDecides
  <2>2. \A x \in Executions \ {e} : phase'[x] = phase[x] /\ events'[x] = events[x]
    BY <1>3, ReadDecides
  <2>3. Watched' /\ Retired'
    BY <2>1 DEF Watched, Retired
  <2>4. Follows'
    BY <2>1, <2>2 DEF Follows
  <2> QED
    BY <2>3, <2>4
<1>4. CASE RecordEvent(e)
  BY <1>4 DEF RecordEvent, Watched, Follows, Retired
<1>5. CASE Terminate(e)
  BY <1>5 DEF Terminate, Watched, Follows, Retired
<1>6. CASE AwaitExit(e)
  BY <1>6 DEF AwaitExit, Watched, Follows, Retired
<1>7. CASE ForgetRotated(e)
  BY <1>7 DEF ForgetRotated, Forget, Watched, Follows, Retired
<1>8. CASE FinishRotated(e)
  BY <1>8 DEF FinishRotated, Watched, Follows, Retired
<1>9. CASE StartContinuation(e)
  <2>1. PICK c \in Executions :
          /\ status[c] = "none" /\ \A d \in 1..(c - 1) : status[d] # "none"
          /\ status' = [status EXCEPT ![c] = "running"] /\ runner' = [runner EXCEPT ![c] = "spawn"]
    BY <1>9 DEF StartContinuation, RunnerTo
  <2>2. /\ phase[e] = "continue" /\ phase' = [phase EXCEPT ![e] = "run"]
        /\ UNCHANGED <<proc, verdict, registered, due, events>>
    BY <1>9 DEF StartContinuation
  <2>3. runner[c] = "none" /\ phase[c] = "none" /\ c \notin registered \cup due /\ ~Alive(c)
    BY <2>1 DEF Watched
  <2>4. e # c /\ runner[e] \in Tracked /\ Started(e) /\ e \notin registered \cup due
    BY <2>1, <2>2, <2>3 DEF Watched, Follows
  <2>5. Watched'
    BY <2>1, <2>2, <2>3, <2>4 DEF Watched
  <2>6. Follows'
    BY <2>2 DEF Follows
  <2>7. \A d \in Executions : Started(d) => d <= e
    BY <2>2 DEF Retired, Executions
  <2>8. \A d \in Executions : Started(d) <=> d < c
    BY <2>1, <2>7 DEF Retired, Executions
  <2>9. Retired'
    BY <2>1, <2>2, <2>3, <2>4, <2>7, <2>8 DEF Retired, Follows, Executions
  <2> QED
    BY <2>5, <2>6, <2>9
<1>10. CASE CompleteRotation(e)
  BY <1>10 DEF CompleteRotation, Watched, Follows, Retired
<1>11. CASE RotationRaises(e)
  BY <1>11 DEF RotationRaises, MayRaise, Watched, Follows, Retired
<1> QED
  BY <1>1, <1>2, <1>3, <1>4, <1>5, <1>6, <1>7, <1>8, <1>9, <1>10, <1>11 DEF Rotate

(* Only the thread that has found the limit not reached adds an event, and   *)
(* only a thread past the record of the event leaves one pending.            *)
LEMMA EventsKept ==
  ASSUME RotationInv, NEW e \in Executions,
         Runner(e) \/ ProcessExits(e) \/ CancelGraceful(e) \/ ForceKill(e)
         \/ EvaluateExecution(e) \/ Poll \/ Rotate(e)
  PROVE  RotationsLimited' /\ PendingHasThread'
<1> USE RotationAssumption DEF RotationInv, RotationTypeOK, RotationsLimited, PendingHasThread, rotator, Past
<1>1. CASE Runner(e) \/ ProcessExits(e) \/ CancelGraceful(e) \/ ForceKill(e) \/ Poll
  BY <1>1 DEF Runner, Spawn, Register, WaitReturns, WaitTimesOut, CheckExit, WriteVerdict,
              Cleanup, ProcessExits, CancelGraceful, ForceKill, Poll
<1>2. CASE EvaluateExecution(e)
  BY <1>2 DEF EvaluateExecution, Follows
<1>3. CASE Rotate(e)
  <2> USE DEF Go, EventIs, CountEvent
  <2>0. CASE ReadExecution(e)
    BY <2>0, ReadDecides DEF LimitReached
  <2>1. CASE RecordEvent(e)
    BY <2>1 DEF RecordEvent, LimitReached, Follows
  <2>2. CASE Terminate(e) \/ AwaitExit(e) \/ ForgetRotated(e) \/ FinishRotated(e)
    BY <2>2 DEF Terminate, AwaitExit, ForgetRotated, FinishRotated
  <2>3. CASE StartContinuation(e) \/ CompleteRotation(e)
    BY <2>3 DEF StartContinuation, CompleteRotation
  <2>4. CASE RotationRaises(e)
    BY <2>4 DEF RotationRaises, MayRaise
  <2> QED
    BY <1>3, <2>0, <2>1, <2>2, <2>3, <2>4 DEF Rotate
<1> QED
  BY <1>1, <1>2, <1>3

(* Every step keeps the invariant.                                           *)
LEMMA RotationStep == RotationInv /\ [RotationNext]_rotationVars => RotationInv'
<1> SUFFICES ASSUME RotationInv, [RotationNext]_rotationVars PROVE RotationInv'
  OBVIOUS
<1>1. 1 \in Executions
  BY RotationAssumption DEF Executions
<1>2. CASE UNCHANGED rotationVars
  BY <1>2 DEF rotationVars, execution, tracking, job, rotator, RotationInv, RotationTypeOK, Watched,
              Follows, Retired, RotationsLimited, PendingHasThread, Started, Alive, LimitReached
<1>3. CASE Poll
  BY <1>1, <1>3, OutsideTypes, RotateKeeps, EventsKept DEF RotationInv
<1>4. ASSUME NEW e \in Executions, Runner(e) PROVE RotationInv'
  BY <1>4, RunnerTypes, RunnerKeeps, EventsKept DEF RotationInv
<1>5. ASSUME NEW e \in Executions, ProcessExits(e) \/ CancelGraceful(e) \/ ForceKill(e)
      PROVE  RotationInv'
  BY <1>5, OutsideTypes, RunnerKeeps, EventsKept DEF RotationInv
<1>6. ASSUME NEW e \in Executions, EvaluateExecution(e) PROVE RotationInv'
  BY <1>6, OutsideTypes, RotateKeeps, EventsKept DEF RotationInv
<1>7. ASSUME NEW e \in Executions, Rotate(e) PROVE RotationInv'
  BY <1>7, RotateTypes, RotateKeeps, EventsKept DEF RotationInv
<1> QED
  BY <1>2, <1>3, <1>4, <1>5, <1>6, <1>7 DEF RotationNext

(* The inductive invariant holds in every reachable state.                   *)
THEOREM RotationInvariant == RotationSpec => []RotationInv
BY RotationInitial, RotationStep, PTL DEF RotationSpec

(* No two members of a chain have a live process at once, however long the   *)
(* chain and however passes, exits, timeouts and cancels interleave.         *)
THEOREM OneAgentHolds == RotationSpec => []OneAgent
<1>1. RotationInv => OneAgent
  <2> SUFFICES ASSUME RotationInv, NEW e \in Executions, NEW f \in Executions,
                      Alive(e), Alive(f), e < f
               PROVE  FALSE
    BY DEF OneAgent, Executions
  <2>1. Started(f)
    BY DEF RotationInv, Watched, Alive
  <2> QED
    BY <2>1 DEF RotationInv, Retired
<1> QED
  BY RotationInvariant, <1>1, PTL

(* The limit on the rotations of an execution is kept.                       *)
THEOREM RotationsLimitedHolds == RotationSpec => []RotationsLimited
<1>1. RotationInv => RotationsLimited
  BY DEF RotationInv
<1> QED
  BY RotationInvariant, <1>1, PTL

(* Every variable of Rotation has its type in every reachable state.         *)
THEOREM RotationTypeCorrect == RotationSpec => []RotationTypeOK
<1>1. RotationInv => RotationTypeOK
  BY DEF RotationInv
<1> QED
  BY RotationInvariant, <1>1, PTL

(* A pending event never loses the thread that will tell how it ended: the   *)
(* safe half of RotationSettles.                                             *)
THEOREM PendingHasThreadHolds == RotationSpec => []PendingHasThread
<1>1. RotationInv => PendingHasThread
  BY DEF RotationInv
<1> QED
  BY RotationInvariant, <1>1, PTL
=============================================================================
