---------------------------- MODULE WebhookIntake ----------------------------
(***************************************************************************)
(* From a webhook to the queue: the handlers of routes/webhook.py and      *)
(* routes/github_webhook.py and the walk of services/trigger_dispatcher.py *)
(* over the triggers of an event, composed with what the execution queue   *)
(* is proved to implement, JobQueue. A JSON payload is dispatched to a     *)
(* trigger once per window: a row of webhook_dedup_keys                    *)
(* (db/webhook_dedup.py) is inserted before the dispatch. A pull-request   *)
(* event has no key; the repository it comes from is limited, in memory. A *)
(* slash command in a comment has neither.                                 *)
(*                                                                         *)
(* Validation and matching are the choice of the triggers that an event    *)
(* is for. A key that is older than the window is as good as none: the     *)
(* next check deletes it, and so does the job that runs every minute. The  *)
(* dispatch to teams, which has neither key nor queue, is left out.        *)
(* A definition named Bug... is a faulty variant of the definition that    *)
(* follows it: the properties were tried on it, no action refers to it.    *)
(***************************************************************************)
EXTENDS JobQueue

CONSTANTS Requests,         \* handler threads
          Payloads,         \* JSON payloads
          PullRequests,     \* pull-request events of one repository
          Comments,         \* comments with a slash command
          SessionTriggers,  \* triggers with dispatch_type super_agent
          MaxDepth,         \* MAX_QUEUE_DEPTH_PER_TRIGGER
          NoEvent,          \* a handler between two deliveries; a job not submitted
          MaxDeliveries     \* bound: events received

ASSUME IntakeAssumption ==
  /\ Payloads \cap (PullRequests \cup Comments) = {} /\ PullRequests \cap Comments = {}
  /\ NoEvent \notin Payloads \cup PullRequests \cup Comments
  /\ NoOwner \notin Owners /\ SessionTriggers \subseteq Owners
  /\ IsFiniteSet(Requests) /\ IsFiniteSet(Jobs)
  /\ MaxDepth \in Nat /\ MaxDeliveries \in Nat

VARIABLES
  keys,        \* webhook_dedup_keys, without what is older than the window
  recent,      \* _repo_last_event is less than a minute old
  delivery,    \* per handler: its event, the triggers left, the one it is at
  eventOf,     \* execution_queue.event_data
  deliveries,
  expired,     \* per trigger and payload: windows that are over (history)
  sent,        \*   messages to the trigger's session (history)
  refused,     \*   dispatches that the queue or the session refused (history)
  lost         \*   dispatches that an exception or a crash cut short (history)

Triggers == Owners
Events   == Payloads \cup PullRequests \cup Comments
Accounts == Triggers \X Payloads
queue    == <<state, owner, limit>>
books    == <<expired, sent, refused, lost>>
intake   == <<keys, recent, delivery, eventOf, deliveries, books>>
allVars  == <<queue, intake>>
Idle     == [event |-> NoEvent, todo |-> {}, at |-> NoOwner, step |-> "walk"]

Depth(t)   == Cardinality({j \in Jobs : owner[j] = t /\ state[j] = "waiting"})
At(r)      == <<delivery[r].at, delivery[r].event>>
Holders(k) == {r \in Requests : At(r) = k}
RowsOf(k)  == {j \in Jobs : <<owner[j], eventOf[j]>> = k}
CountIn(book, k) == IF k \in Accounts THEN [book EXCEPT ![k] = @ + 1] ELSE book

IntakeInit ==
  /\ state = [j \in Jobs |-> "new"] /\ owner = [j \in Jobs |-> NoOwner]
  /\ limit = [o \in Owners |-> 1]
  /\ keys = {} /\ recent = FALSE
  /\ delivery = [r \in Requests |-> Idle]
  /\ eventOf = [j \in Jobs |-> NoEvent]
  /\ deliveries = 0
  /\ expired = [k \in Accounts |-> 0] /\ sent = expired /\ refused = expired /\ lost = expired

-----------------------------------------------------------------------------
(* The list of triggers is read once; the event is for any part of it.     *)
Receive(r, v) ==
  /\ delivery[r] = Idle /\ deliveries < MaxDeliveries
  /\ v \in PullRequests => ~recent
  /\ \E accepted \in SUBSET Triggers :
       delivery' = [delivery EXCEPT ![r].event = v, ![r].todo = accepted]
  /\ recent' = (recent \/ v \in PullRequests)
  /\ deliveries' = deliveries + 1
  /\ UNCHANGED <<queue, keys, eventOf, books>>

BugRenewsKey(r, t) ==
  /\ t \in delivery[r].todo /\ delivery[r].at = NoOwner
  /\ delivery' = [delivery EXCEPT ![r].todo = @ \ {t}, ![r].at = t]
  /\ keys' = keys \cup ({<<t, delivery[r].event>>} \cap Accounts)
  /\ UNCHANGED <<queue, recent, eventOf, deliveries, books>>

(* check_and_insert_dedup_key, in one transaction; the others have none. *)
TakeTrigger(r, t) ==
  /\ t \in delivery[r].todo /\ delivery[r].at = NoOwner
  /\ LET k == <<t, delivery[r].event>> IN
     /\ delivery' = [delivery EXCEPT ![r].todo = @ \ {t}, ![r].at = IF k \in keys THEN @ ELSE t]
     /\ keys' = keys \cup ({k} \cap Accounts)
  /\ UNCHANGED <<queue, recent, eventOf, deliveries, books>>

NextTrigger(r) == delivery' = [delivery EXCEPT ![r].at = NoOwner, ![r].step = "walk"]
GiveUp(r)      == delivery' = [delivery EXCEPT ![r] = Idle]

SendToSession(r) ==
  /\ delivery[r].at \in SessionTriggers
  /\ sent' = CountIn(sent, At(r))
  /\ NextTrigger(r)
  /\ UNCHANGED <<queue, keys, recent, eventOf, deliveries, expired, refused, lost>>

(* SessionLimitError. The handlers of GitHub's events pass create_execution_ *)
(* log a status, which it does not take: the TypeError ends the walk.        *)
SessionRefuses(r) ==
  /\ delivery[r].at \in SessionTriggers
  /\ refused' = CountIn(refused, At(r))
  /\ IF delivery[r].event \in Payloads THEN NextTrigger(r) ELSE GiveUp(r)
  /\ UNCHANGED <<queue, keys, recent, eventOf, deliveries, expired, sent, lost>>

(* enqueue reads the depth, then inserts. QueueFullError is logged, the walk *)
(* goes on, and the key stays.                                               *)
CheckDepth(r) ==
  /\ delivery[r].at \in Triggers \ SessionTriggers /\ delivery[r].step = "walk"
  /\ IF Depth(delivery[r].at) >= MaxDepth
       THEN refused' = CountIn(refused, At(r)) /\ NextTrigger(r)
       ELSE UNCHANGED refused /\ delivery' = [delivery EXCEPT ![r].step = "insert"]
  /\ UNCHANGED <<queue, keys, recent, eventOf, deliveries, expired, sent, lost>>

InsertRow(r, j) ==
  /\ delivery[r].step = "insert"
  /\ Submit(j, delivery[r].at)
  /\ eventOf' = [eventOf EXCEPT ![j] = delivery[r].event]
  /\ NextTrigger(r)
  /\ UNCHANGED <<keys, recent, deliveries, books>>

Respond(r) ==
  /\ delivery[r].event # NoEvent /\ delivery[r].todo = {} /\ delivery[r].at = NoOwner
  /\ GiveUp(r)
  /\ UNCHANGED <<queue, keys, recent, eventOf, deliveries, books>>

(* A statement fails: 500, and the rest of the walk is not made. *)
HandlerFails(r) ==
  /\ delivery[r].event # NoEvent
  /\ lost' = CountIn(lost, At(r))
  /\ GiveUp(r)
  /\ UNCHANGED <<queue, keys, recent, eventOf, deliveries, expired, sent, refused>>

(* Time: a key outlives the window, the repository its minute. *)
Expire(k) ==
  /\ k \in keys
  /\ keys' = keys \ {k}
  /\ expired' = CountIn(expired, k)
  /\ UNCHANGED <<queue, recent, delivery, eventOf, deliveries, sent, refused, lost>>

MinutePasses ==
  /\ recent /\ recent' = FALSE
  /\ UNCHANGED <<queue, keys, delivery, eventOf, deliveries, books>>

BugCrashForgetsKeys ==
  /\ Recover \/ UNCHANGED queue
  /\ keys' = {} /\ recent' = FALSE
  /\ delivery' = [r \in Requests |-> Idle]
  /\ lost' = [k \in Accounts |-> lost[k] + Cardinality(Holders(k))]
  /\ UNCHANGED <<eventOf, deliveries, expired, sent, refused>>

(* A crash and the next start: the keys are rows and survive, what the       *)
(* handlers were at does not. The queue's own recovery may fail.             *)
CrashAndRestart ==
  /\ Recover \/ UNCHANGED queue
  /\ recent' = FALSE
  /\ delivery' = [r \in Requests |-> Idle]
  /\ lost' = [k \in Accounts |-> lost[k] + Cardinality(Holders(k))]
  /\ UNCHANGED <<keys, eventOf, deliveries, expired, sent, refused>>

-----------------------------------------------------------------------------
Handler(r) ==
  \/ SendToSession(r) \/ SessionRefuses(r) \/ CheckDepth(r) \/ Respond(r) \/ HandlerFails(r)
  \/ \E t \in Triggers : TakeTrigger(r, t)
  \/ \E j \in Jobs : InsertRow(r, j)
  \/ \E v \in Events : Receive(r, v)

QueueStep ==
  /\ (\E j \in Jobs : Start(j) \/ End(j)) \/ (\E o \in Owners : Withdraw(o))
  /\ UNCHANGED intake

IntakeNext ==
  \/ \E r \in Requests : Handler(r)
  \/ \E k \in Accounts : Expire(k)
  \/ MinutePasses \/ CrashAndRestart \/ QueueStep

IntakeSpec == IntakeInit /\ [][IntakeNext]_allVars

-----------------------------------------------------------------------------
(* Every variable has its type; only a handler inside enqueue is between its *)
(* two transactions.                                                         *)
IntakeTypeOK ==
  /\ state \in [Jobs -> {"new", "waiting", "running", "done", "withdrawn"}]
  /\ owner \in [Jobs -> Owners \cup {NoOwner}]
  /\ eventOf \in [Jobs -> Events \cup {NoEvent}]
  /\ \A j \in Jobs : (state[j] = "new" <=> owner[j] = NoOwner)
                  /\ (state[j] = "new" <=> eventOf[j] = NoEvent)
  /\ keys \subseteq Accounts /\ recent \in BOOLEAN
  /\ delivery \in [Requests -> [event : Events \cup {NoEvent}, todo : SUBSET Triggers,
                                at : Triggers \cup {NoOwner}, step : {"walk", "insert"}]]
  /\ \A r \in Requests :
       /\ delivery[r].event = NoEvent => delivery[r].at = NoOwner /\ delivery[r].todo = {}
       /\ delivery[r].step = "insert" => delivery[r].at \in Triggers \ SessionTriggers
  /\ deliveries \in 0..MaxDeliveries
  /\ \A book \in {expired, sent, refused, lost} : book \in [Accounts -> Nat]

(* "Atomically check-and-insert a dedup key": a trigger is given a payload   *)
(* once per window. However concurrent deliveries, a slow handler whose      *)
(* window is over, exceptions and restarts interleave, every window that was *)
(* opened is accounted for once: by a row of the queue, a message to the     *)
(* session, a refusal, a dispatch that was cut short, or a handler that is   *)
(* still at it. Only a refusal, an exception or a crash leaves a window in   *)
(* which the sender's next deliveries are dropped for nothing.               *)
Dispatched(k) == Cardinality(RowsOf(k)) + sent[k]
Windows(k)    == expired[k] + (IF k \in keys THEN 1 ELSE 0)
WindowsAccounted ==
  \A k \in Accounts :
    Dispatched(k) + refused[k] + lost[k] + Cardinality(Holders(k)) = Windows(k)
=============================================================================
