------------------------- MODULE WebhookIntakeProofs -------------------------
(***************************************************************************)
(* Proofs about WebhookIntake, for any triggers, payloads, handlers and    *)
(* rows. The type invariant and WindowsAccounted are inductive together:   *)
(* each step moves one unit between two of the sums' terms, or opens a     *)
(* window and takes hold of it in one transaction. The lemmas say what a   *)
(* step does to each term.                                                 *)
(***************************************************************************)
EXTENDS WebhookIntake, FiniteSetTheorems, TLAPS

One(b) == IF b THEN 1 ELSE 0

(* The terms are numbers. *)
LEMMA TermsAreNumbers ==
  ASSUME NEW k
  PROVE  /\ IsFiniteSet(Holders(k)) /\ Cardinality(Holders(k)) \in Nat
         /\ IsFiniteSet(RowsOf(k)) /\ Cardinality(RowsOf(k)) \in Nat
<1>1. Holders(k) \subseteq Requests /\ RowsOf(k) \subseteq Jobs
  BY DEF Holders, RowsOf
<1>2. QED
  BY <1>1, IntakeAssumption, FS_Subset, FS_CardinalityType

(* Who holds a dispatch after a step depends on where the handlers are then. *)
LEMMA HoldersNext ==
  ASSUME NEW k
  PROVE  Cardinality(Holders(k))' \in Nat
<1>1. Holders(k)' \subseteq Requests
  BY DEF Holders
<1>2. QED
  BY <1>1, IntakeAssumption, FS_Subset, FS_CardinalityType

(* CountIn adds one to one account. *)
LEMMA CountInAdds ==
  ASSUME NEW book \in [Accounts -> Nat], NEW k
  PROVE  /\ CountIn(book, k) \in [Accounts -> Nat]
         /\ \A a \in Accounts : CountIn(book, k)[a] = book[a] + One(a = k)
BY DEF CountIn, One

(* A handler that is at no trigger holds no account. *)
LEMMA NoHold ==
  ASSUME NEW r, delivery[r].at = NoOwner
  PROVE  At(r) \notin Accounts
BY IntakeAssumption DEF At, Accounts, Triggers

(* The other handlers stay where they are when one of them moves. *)
OthersStay(r) == \A q \in Requests \ {r} : At(q)' = At(q)
LEMMA OneMoves ==
  ASSUME IntakeTypeOK, NEW r \in Requests, NEW d, delivery' = [delivery EXCEPT ![r] = d]
  PROVE  OthersStay(r) /\ At(r)' = <<d.at, d.event>> /\ delivery'[r].at = d.at
BY DEF OthersStay, At, IntakeTypeOK

(* A handler lets go of what it holds. *)
LEMMA HandlerLeaves ==
  ASSUME NEW r \in Requests, OthersStay(r), delivery'[r].at = NoOwner, NEW k \in Accounts
  PROVE  Cardinality(Holders(k))' + One(At(r) = k) = Cardinality(Holders(k))
<1>1. At(r)' \notin Accounts /\ \A q \in Requests \ {r} : At(q)' = At(q)
  BY IntakeAssumption DEF At, Accounts, Triggers, OthersStay
<1>2. Holders(k)' = Holders(k) \ {r} /\ (At(r) = k <=> r \in Holders(k))
  BY <1>1 DEF Holders
<1>3. Cardinality(Holders(k))' = Cardinality(Holders(k)')
  BY DEF Cardinality
<1>4. CASE At(r) = k
  <2>1. Cardinality(Holders(k) \ {r}) = Cardinality(Holders(k)) - 1
    BY <1>2, <1>4, TermsAreNumbers, FS_RemoveElement
  <2>2. QED
    BY <1>2, <1>3, <1>4, <2>1, TermsAreNumbers DEF One
<1>5. CASE At(r) # k
  BY <1>2, <1>5, TermsAreNumbers DEF One
<1>6. QED
  BY <1>4, <1>5

(* A handler takes hold of a trigger. *)
LEMMA HandlerEnters ==
  ASSUME NEW r \in Requests, OthersStay(r), delivery[r].at = NoOwner, NEW k \in Accounts
  PROVE  Cardinality(Holders(k))' = Cardinality(Holders(k)) + One(At(r)' = k)
<1>1. \A q \in Requests \ {r} : At(q)' = At(q)
  BY DEF OthersStay
<1>2. r \notin Holders(k)
  BY NoHold DEF Holders
<1>3. CASE At(r)' = k
  <2>1. Holders(k)' = Holders(k) \cup {r}
    BY <1>1, <1>3 DEF Holders
  <2>2. QED
    BY <1>2, <1>3, <2>1, TermsAreNumbers, FS_AddElement DEF One
<1>4. CASE At(r)' # k
  <2>1. Holders(k)' = Holders(k)
    BY <1>1, <1>2, <1>4 DEF Holders
  <2>2. QED
    BY <1>4, <2>1, TermsAreNumbers DEF One
<1>5. QED
  BY <1>3, <1>4

(* No row is inserted. *)
LEMMA SameRows ==
  ASSUME UNCHANGED <<owner, eventOf>>, NEW k
  PROVE  Cardinality(RowsOf(k))' = Cardinality(RowsOf(k))
BY DEF RowsOf

(* No handler takes or leaves a trigger. *)
LEMMA SameHolders ==
  ASSUME UNCHANGED delivery, NEW k
  PROVE  Cardinality(Holders(k))' = Cardinality(Holders(k))
BY DEF Holders, At

-----------------------------------------------------------------------------
(* The two invariants that TLC checks, together. *)
IntakeInv == IntakeTypeOK /\ WindowsAccounted

(* Initially nothing was opened and nothing is booked.                       *)
LEMMA IntakeInvInit == IntakeInit => IntakeInv
<1> SUFFICES ASSUME IntakeInit PROVE IntakeInv
  OBVIOUS
<1>1. IntakeTypeOK
  <2>1. \A book \in {expired, sent, refused, lost} : book \in [Accounts -> Nat]
    BY DEF IntakeInit
  <2>2. \A r \in Requests : delivery[r] = Idle
    BY DEF IntakeInit
  <2>3. delivery \in [Requests -> [event : Events \cup {NoEvent}, todo : SUBSET Triggers,
                                   at : Triggers \cup {NoOwner}, step : {"walk", "insert"}]]
    BY DEF IntakeInit, Idle
  <2>4. deliveries \in 0..MaxDeliveries
    BY IntakeAssumption DEF IntakeInit
  <2>5. QED
    BY <2>1, <2>2, <2>3, <2>4 DEF IntakeInit, IntakeTypeOK, Idle
<1>2. ASSUME NEW k \in Accounts
      PROVE  Dispatched(k) + refused[k] + lost[k] + Cardinality(Holders(k)) = Windows(k)
  <2>1. Holders(k) = {} /\ RowsOf(k) = {}
    BY IntakeAssumption DEF IntakeInit, Holders, RowsOf, At, Idle, Accounts, Triggers
  <2>2. QED
    BY <2>1, FS_EmptySet DEF IntakeInit, Dispatched, Windows
<1>3. QED
  BY <1>1, <1>2 DEF IntakeInv, WindowsAccounted

(* The equation, with its terms as numbers. *)
LEMMA Balance ==
  ASSUME IntakeInv, NEW k \in Accounts
  PROVE  /\ Cardinality(RowsOf(k)) \in Nat /\ Cardinality(Holders(k)) \in Nat
         /\ sent[k] \in Nat /\ refused[k] \in Nat /\ lost[k] \in Nat /\ expired[k] \in Nat
         /\ Cardinality(RowsOf(k)) + sent[k] + refused[k] + lost[k] + Cardinality(Holders(k))
              = expired[k] + One(k \in keys)
BY TermsAreNumbers
   DEF IntakeInv, IntakeTypeOK, WindowsAccounted, Dispatched, Windows, One

(* What the type invariant says of the handlers, and that replacing one    *)
(* handler's record by another that is well formed keeps it.               *)
Delivery == [event : Events \cup {NoEvent}, todo : SUBSET Triggers,
             at : Triggers \cup {NoOwner}, step : {"walk", "insert"}]
WellFormed(d) ==
  /\ d \in Delivery
  /\ d.event = NoEvent => d.at = NoOwner /\ d.todo = {}
  /\ d.step = "insert" => d.at \in Triggers \ SessionTriggers
HandlersOK == delivery \in [Requests -> Delivery] /\ \A r \in Requests : WellFormed(delivery[r])

(* What the type says of the handlers, as a part of its own.                 *)
LEMMA HandlersTyped == IntakeTypeOK => HandlersOK
BY DEF IntakeTypeOK, HandlersOK, WellFormed, Delivery

(* A step that gives one handler a place of the right type keeps the rest.   *)
LEMMA HandlerReplaced ==
  ASSUME HandlersOK, NEW r \in Requests, NEW d, WellFormed(d),
         delivery' = [delivery EXCEPT ![r] = d]
  PROVE  HandlersOK'
<1>1. delivery' \in [Requests -> Delivery]
  BY DEF HandlersOK, WellFormed
<1>2. ASSUME NEW q \in Requests PROVE WellFormed(delivery'[q])
  <2>1. delivery'[q] = IF q = r THEN d ELSE delivery[q]
    BY DEF HandlersOK
  <2>2. QED
    BY <2>1 DEF HandlersOK
<1>3. QED
  BY <1>1, <1>2 DEF HandlersOK, WellFormed, Delivery

(* The places that a step of a handler gives it have the right type.         *)
LEMMA HandlerMovesOn ==
  ASSUME HandlersOK, NEW r \in Requests, NextTrigger(r) \/ GiveUp(r)
  PROVE  HandlersOK' /\ \E d : delivery' = [delivery EXCEPT ![r] = d] /\ d.at = NoOwner
<1> DEFINE d == [delivery[r] EXCEPT !.at = NoOwner, !.step = "walk"]
<1>1. delivery[r] \in Delivery /\ WellFormed(delivery[r])
  BY DEF HandlersOK
<1>2. CASE NextTrigger(r)
  <2>1. delivery' = [delivery EXCEPT ![r] = d]
    BY <1>2, <1>1 DEF NextTrigger, HandlersOK, Delivery
  <2>2. WellFormed(d) /\ d.at = NoOwner
    BY <1>1 DEF WellFormed, Delivery
  <2> HIDE DEF d
  <2>3. HandlersOK'
    BY <2>1, <2>2, HandlerReplaced
  <2>4. QED
    BY <2>1, <2>2, <2>3
<1>3. CASE GiveUp(r)
  <2>1. WellFormed(Idle) /\ Idle.at = NoOwner
    BY DEF WellFormed, Delivery, Idle
  <2>2. QED
    BY <1>3, <2>1, HandlerReplaced DEF GiveUp
<1>4. QED
  BY <1>2, <1>3

(* The rest of the type invariant. *)
RowsTyped ==
  /\ state \in [Jobs -> {"new", "waiting", "running", "done", "withdrawn"}]
  /\ owner \in [Jobs -> Owners \cup {NoOwner}]
  /\ eventOf \in [Jobs -> Events \cup {NoEvent}]
  /\ \A j \in Jobs : (state[j] = "new" <=> owner[j] = NoOwner)
                  /\ (state[j] = "new" <=> eventOf[j] = NoEvent)
KeysTyped ==
  /\ keys \subseteq Accounts /\ recent \in BOOLEAN /\ deliveries \in 0..MaxDeliveries
BooksTyped ==
  /\ expired \in [Accounts -> Nat] /\ sent \in [Accounts -> Nat]
  /\ refused \in [Accounts -> Nat] /\ lost \in [Accounts -> Nat]

(* The type invariant is the conjunction of its parts, now and after a step. *)
LEMMA TypeParts == IntakeTypeOK <=> RowsTyped /\ KeysTyped /\ BooksTyped /\ HandlersOK
BY DEF IntakeTypeOK, RowsTyped, KeysTyped, BooksTyped, HandlersOK, WellFormed, Delivery

(* The parts after a step give the invariant after it.                      *)
LEMMA TypePartsNext == RowsTyped' /\ KeysTyped' /\ BooksTyped' /\ HandlersOK' => IntakeTypeOK'
BY TypeParts, PTL

(* Every step keeps the types. *)
LEMMA TypeStep == IntakeTypeOK /\ [IntakeNext]_allVars => IntakeTypeOK'
<1> SUFFICES ASSUME RowsTyped, KeysTyped, BooksTyped, HandlersOK, [IntakeNext]_allVars
             PROVE  RowsTyped' /\ KeysTyped' /\ BooksTyped' /\ HandlersOK'
  BY TypeParts, TypePartsNext
<1> DEFINE Kept == RowsTyped' /\ KeysTyped' /\ BooksTyped' /\ HandlersOK'
<1>0. \A r \in Requests : delivery[r] \in Delivery /\ WellFormed(delivery[r])
  BY DEF HandlersOK
<1>1. ASSUME NEW r \in Requests, NEW v \in Events, Receive(r, v) PROVE Kept
  <2>1. RowsTyped' /\ BooksTyped'
    BY <1>1 DEF Receive, RowsTyped, BooksTyped, queue, books
  <2>2. KeysTyped'
    BY <1>1, IntakeAssumption DEF Receive, KeysTyped
  <2>3. PICK accepted \in SUBSET Triggers :
          delivery' = [delivery EXCEPT ![r].event = v, ![r].todo = accepted]
    BY <1>1 DEF Receive
  <2> DEFINE d == [delivery[r] EXCEPT !.event = v, !.todo = accepted]
  <2>4. delivery' = [delivery EXCEPT ![r] = d]
    BY <2>3, <1>0 DEF HandlersOK, Delivery
  <2>5. WellFormed(d)
    BY <1>0, <1>1, IntakeAssumption DEF WellFormed, Delivery, Receive, Idle, Events
  <2>6. QED
    BY <2>1, <2>2, <2>4, <2>5, HandlerReplaced
<1>2. ASSUME NEW r \in Requests, NEW t \in Triggers, TakeTrigger(r, t) PROVE Kept
  <2>1. RowsTyped' /\ BooksTyped'
    BY <1>2 DEF TakeTrigger, RowsTyped, BooksTyped, queue, books
  <2>2. KeysTyped'
    BY <1>2 DEF TakeTrigger, KeysTyped
  <2> DEFINE d == [delivery[r] EXCEPT !.todo = @ \ {t},
                     !.at = IF <<t, delivery[r].event>> \in keys THEN @ ELSE t]
  <2>3. delivery' = [delivery EXCEPT ![r] = d]
    BY <1>0, <1>2 DEF TakeTrigger, HandlersOK, Delivery
  <2>4. delivery[r].event # NoEvent /\ delivery[r].step = "walk"
    BY <1>0, <1>2, IntakeAssumption DEF TakeTrigger, WellFormed, Delivery, Triggers, Idle
  <2>5. WellFormed(d)
    BY <1>0, <2>4 DEF WellFormed, Delivery
  <2>6. QED
    BY <2>1, <2>2, <2>3, <2>5, HandlerReplaced
<1>3. ASSUME NEW r \in Requests, SendToSession(r) PROVE Kept
  <2>1. BooksTyped'
    BY <1>3, CountInAdds DEF SendToSession, BooksTyped
  <2>2. QED
    BY <1>3, <2>1, HandlerMovesOn DEF SendToSession, RowsTyped, KeysTyped, queue
<1>4. ASSUME NEW r \in Requests, SessionRefuses(r) PROVE Kept
  <2>1. BooksTyped'
    BY <1>4, CountInAdds DEF SessionRefuses, BooksTyped
  <2>2. NextTrigger(r) \/ GiveUp(r)
    BY <1>4 DEF SessionRefuses
  <2>3. QED
    BY <1>4, <2>1, <2>2, HandlerMovesOn DEF SessionRefuses, RowsTyped, KeysTyped, queue
<1>5. ASSUME NEW r \in Requests, CheckDepth(r) PROVE Kept
  <2>1. RowsTyped' /\ KeysTyped'
    BY <1>5 DEF CheckDepth, RowsTyped, KeysTyped, queue
  <2>2. CASE Depth(delivery[r].at) >= MaxDepth
    <3>1. BooksTyped'
      BY <1>5, <2>2, CountInAdds DEF CheckDepth, BooksTyped
    <3>2. QED
      BY <1>5, <2>1, <2>2, <3>1, HandlerMovesOn DEF CheckDepth
  <2>3. CASE ~(Depth(delivery[r].at) >= MaxDepth)
    <3> DEFINE d == [delivery[r] EXCEPT !.step = "insert"]
    <3>1. delivery' = [delivery EXCEPT ![r] = d]
      BY <1>0, <1>5, <2>3 DEF CheckDepth, HandlersOK, Delivery
    <3>2. WellFormed(d)
      BY <1>0, <1>5, IntakeAssumption DEF CheckDepth, WellFormed, Delivery, Idle, Triggers
    <3>3. QED
      BY <1>5, <2>1, <2>3, <3>1, <3>2, HandlerReplaced DEF CheckDepth, BooksTyped
  <2>4. QED
    BY <2>2, <2>3
<1>6. ASSUME NEW r \in Requests, NEW j \in Jobs, InsertRow(r, j) PROVE Kept
  <2>1. /\ delivery[r].at \in Triggers /\ delivery[r].at # NoOwner
        /\ delivery[r].event \in Events /\ delivery[r].event # NoEvent
    BY <1>0, <1>6, IntakeAssumption
    DEF InsertRow, WellFormed, Delivery, Triggers, Events, Idle
  <2>2. RowsTyped'
    BY <1>6, <2>1 DEF InsertRow, Submit, RowsTyped, Triggers
  <2>3. QED
    BY <1>6, <2>2, HandlerMovesOn DEF InsertRow, Submit, KeysTyped, BooksTyped, books
<1>7. ASSUME NEW r \in Requests, Respond(r) PROVE Kept
  BY <1>7, HandlerMovesOn DEF Respond, RowsTyped, KeysTyped, BooksTyped, queue, books
<1>8. ASSUME NEW r \in Requests, HandlerFails(r) PROVE Kept
  <2>1. BooksTyped'
    BY <1>8, CountInAdds DEF HandlerFails, BooksTyped
  <2>2. QED
    BY <1>8, <2>1, HandlerMovesOn DEF HandlerFails, RowsTyped, KeysTyped, queue
<1>9. ASSUME NEW k \in Accounts, Expire(k) PROVE Kept
  <2>1. BooksTyped'
    BY <1>9, CountInAdds DEF Expire, BooksTyped
  <2>2. QED
    BY <1>9, <2>1 DEF Expire, RowsTyped, KeysTyped, HandlersOK, WellFormed, Delivery, queue
<1>10. CASE MinutePasses
  BY <1>10 DEF MinutePasses, RowsTyped, KeysTyped, BooksTyped, HandlersOK, WellFormed, Delivery,
               queue, books
<1>11. CASE CrashAndRestart
  <2>1. BooksTyped'
    <3>1. \A k \in Accounts : lost[k] + Cardinality(Holders(k)) \in Nat
      BY TermsAreNumbers DEF BooksTyped
    <3>2. QED
      BY <1>11, <3>1 DEF CrashAndRestart, BooksTyped
  <2>2. HandlersOK'
    BY <1>11 DEF CrashAndRestart, HandlersOK, WellFormed, Delivery, Idle
  <2>3. RowsTyped'
    BY <1>11 DEF CrashAndRestart, Recover, RowsTyped, queue
  <2>4. QED
    BY <1>11, <2>1, <2>2, <2>3 DEF CrashAndRestart, KeysTyped
<1>12. CASE QueueStep
  <2>1. RowsTyped'
    BY <1>12 DEF QueueStep, Start, End, Withdraw, RowsTyped, intake
  <2>2. QED
    BY <1>12, <2>1 DEF QueueStep, KeysTyped, BooksTyped, HandlersOK, WellFormed, Delivery,
                       intake, books
<1>13. CASE UNCHANGED allVars
  BY <1>13 DEF allVars, queue, intake, books, RowsTyped, KeysTyped, BooksTyped, HandlersOK,
               WellFormed, Delivery
<1>14. QED
  BY <1>1, <1>2, <1>3, <1>4, <1>5, <1>6, <1>7, <1>8, <1>9, <1>10, <1>11, <1>12, <1>13
  DEF IntakeNext, Handler

-----------------------------------------------------------------------------
(* The rows of the queue that stand for an account, after each kind of step. *)
LEMMA RowInserted ==
  ASSUME IntakeTypeOK, NEW r \in Requests, NEW j \in Jobs, InsertRow(r, j), NEW k \in Accounts
  PROVE  Cardinality(RowsOf(k))' = Cardinality(RowsOf(k)) + One(At(r) = k)
<1>1. j \notin RowsOf(k)
  BY IntakeAssumption DEF InsertRow, Submit, RowsOf, IntakeTypeOK, Accounts, Triggers
<1>2. /\ <<owner[j], eventOf[j]>>' = At(r)
      /\ \A i \in Jobs \ {j} : <<owner[i], eventOf[i]>>' = <<owner[i], eventOf[i]>>
  BY DEF InsertRow, Submit, At, IntakeTypeOK
<1>3. CASE At(r) = k
  <2>1. RowsOf(k)' = RowsOf(k) \cup {j}
    BY <1>2, <1>3 DEF RowsOf
  <2>2. QED
    BY <1>1, <1>3, <2>1, TermsAreNumbers, FS_AddElement DEF One
<1>4. CASE At(r) # k
  <2>1. RowsOf(k)' = RowsOf(k)
    BY <1>1, <1>2, <1>4 DEF RowsOf
  <2>2. QED
    BY <1>4, <2>1, TermsAreNumbers DEF One
<1>5. QED
  BY <1>3, <1>4

(* Every step keeps the account of every trigger and payload. *)
LEMMA BalanceStep == IntakeInv /\ [IntakeNext]_allVars => WindowsAccounted'
<1> SUFFICES ASSUME IntakeInv, [IntakeNext]_allVars, NEW k \in Accounts
             PROVE  Cardinality(RowsOf(k))' + sent'[k] + refused'[k] + lost'[k]
                      + Cardinality(Holders(k))' = expired'[k] + One(k \in keys')
  BY DEF WindowsAccounted, Dispatched, Windows, One, Accounts, Triggers
<1> DEFINE Balanced == Cardinality(RowsOf(k))' + sent'[k] + refused'[k] + lost'[k]
                         + Cardinality(Holders(k))' = expired'[k] + One(k \in keys')
<1>0. IntakeTypeOK /\ HandlersOK /\ BooksTyped
  BY TypeParts DEF IntakeInv
<1>1. /\ Cardinality(RowsOf(k)) \in Nat /\ Cardinality(Holders(k)) \in Nat
      /\ sent[k] \in Nat /\ refused[k] \in Nat /\ lost[k] \in Nat /\ expired[k] \in Nat
      /\ Cardinality(RowsOf(k)) + sent[k] + refused[k] + lost[k] + Cardinality(Holders(k))
           = expired[k] + One(k \in keys)
  BY Balance
<1>2. \A r \in Requests : One(At(r) = k) \in Nat
  BY DEF One
<1>3. ASSUME NEW r \in Requests, NEW v \in Events, Receive(r, v) PROVE Balanced
  <2>1. Cardinality(Holders(k))' = Cardinality(Holders(k))
    <3>1. At(r)' \notin Accounts /\ At(r) \notin Accounts
      BY <1>0, <1>3, NoHold, IntakeAssumption
      DEF Receive, Idle, At, HandlersOK, Delivery, Accounts, Triggers
    <3>2. \A q \in Requests \ {r} : At(q)' = At(q)
      BY <1>0, <1>3 DEF Receive, At, HandlersOK
    <3>3. Holders(k)' = Holders(k)
      BY <3>1, <3>2 DEF Holders
    <3>4. QED
      BY <3>3
  <2>2. QED
    BY <1>1, <1>3, <2>1, SameRows DEF Receive, queue, books
<1>4. ASSUME NEW r \in Requests, NEW t \in Triggers, TakeTrigger(r, t) PROVE Balanced
  <2> DEFINE d == [delivery[r] EXCEPT !.todo = @ \ {t},
                     !.at = IF <<t, delivery[r].event>> \in keys THEN @ ELSE t]
  <2>1. delivery' = [delivery EXCEPT ![r] = d] /\ delivery[r].at = NoOwner
    BY <1>0, <1>4 DEF TakeTrigger, HandlersOK, Delivery
  <2>2. <<d.at, d.event>> = IF <<t, delivery[r].event>> \in keys
                              THEN <<NoOwner, delivery[r].event>> ELSE <<t, delivery[r].event>>
    BY <1>0, <2>1 DEF HandlersOK, Delivery
  <2> HIDE DEF d
  <2>3. Cardinality(Holders(k))' = Cardinality(Holders(k)) + One(<<d.at, d.event>> = k)
    <3> HIDE DEF Balanced
    <3>1. OthersStay(r) /\ At(r)' = <<d.at, d.event>>
      BY <1>0, <2>1, OneMoves
    <3>2. Cardinality(Holders(k))' = Cardinality(Holders(k)) + One(At(r)' = k)
      BY <2>1, <3>1, HandlerEnters
    <3>3. QED
      BY <3>1, <3>2
  <2>4. One(k \in keys') = One(k \in keys) + One(<<d.at, d.event>> = k)
    BY <1>4, <2>2, IntakeAssumption DEF TakeTrigger, One, Accounts, Triggers
  <2>5. One(<<d.at, d.event>> = k) \in Nat /\ One(k \in keys) \in Nat
    BY DEF One
  <2>6. /\ Cardinality(RowsOf(k))' = Cardinality(RowsOf(k))
        /\ UNCHANGED <<expired, sent, refused, lost>>
    BY <1>4, SameRows DEF TakeTrigger, queue, books
  <2> HIDE DEF Balanced
  <2> DEFINE opened == One(<<d.at, d.event>> = k)
  <2>7. /\ Cardinality(Holders(k))' = Cardinality(Holders(k)) + opened
        /\ One(k \in keys') = One(k \in keys) + opened
        /\ opened \in Nat /\ One(k \in keys) \in Nat
    BY <2>3, <2>4, <2>5
  <2> HIDE DEF opened
  <2>8. QED
    BY <1>1, <2>6, <2>7 DEF Balanced, One
<1>5. ASSUME NEW r \in Requests, NextTrigger(r) \/ GiveUp(r)
      PROVE  Cardinality(Holders(k))' + One(At(r) = k) = Cardinality(Holders(k))
  <2>1. PICK d : delivery' = [delivery EXCEPT ![r] = d] /\ d.at = NoOwner
    BY <1>0, <1>5, HandlerMovesOn
  <2>2. OthersStay(r) /\ delivery'[r].at = NoOwner
    BY <1>0, <2>1, OneMoves
  <2>3. QED
    BY <2>2, HandlerLeaves
<1>6. ASSUME NEW book \in [Accounts -> Nat], NEW q
      PROVE  CountIn(book, q)[k] = book[k] + One(q = k)
  BY CountInAdds DEF One
<1>7. ASSUME NEW r \in Requests, SendToSession(r) PROVE Balanced
  <2>1. sent'[k] = sent[k] + One(At(r) = k)
    BY <1>0, <1>6, <1>7 DEF SendToSession, BooksTyped
  <2>2. Cardinality(Holders(k))' + One(At(r) = k) = Cardinality(Holders(k))
    BY <1>5, <1>7 DEF SendToSession
  <2>3. QED
    BY <1>1, <1>2, <1>7, <2>1, <2>2, HoldersNext, SameRows DEF SendToSession, queue
<1>8. ASSUME NEW r \in Requests, SessionRefuses(r) PROVE Balanced
  <2>1. refused'[k] = refused[k] + One(At(r) = k)
    BY <1>0, <1>6, <1>8 DEF SessionRefuses, BooksTyped
  <2>2. Cardinality(Holders(k))' + One(At(r) = k) = Cardinality(Holders(k))
    BY <1>5, <1>8 DEF SessionRefuses
  <2>3. QED
    BY <1>1, <1>2, <1>8, <2>1, <2>2, HoldersNext, SameRows DEF SessionRefuses, queue
<1>9. ASSUME NEW r \in Requests, CheckDepth(r) PROVE Balanced
  <2>1. CASE Depth(delivery[r].at) >= MaxDepth
    <3>1. refused'[k] = refused[k] + One(At(r) = k)
      BY <1>0, <1>6, <1>9, <2>1 DEF CheckDepth, BooksTyped
    <3>2. Cardinality(Holders(k))' + One(At(r) = k) = Cardinality(Holders(k))
      BY <1>5, <1>9, <2>1 DEF CheckDepth
    <3>3. QED
      BY <1>1, <1>2, <1>9, <3>1, <3>2, HoldersNext, SameRows DEF CheckDepth, queue
  <2>2. CASE ~(Depth(delivery[r].at) >= MaxDepth)
    <3>1. \A q \in Requests : At(q)' = At(q)
      BY <1>0, <1>9, <2>2 DEF CheckDepth, At, HandlersOK, Delivery
    <3>2. Holders(k)' = Holders(k)
      BY <3>1 DEF Holders
    <3>3. QED
      BY <1>1, <1>9, <2>2, <3>2, SameRows DEF CheckDepth, queue
  <2>3. QED
    BY <2>1, <2>2
<1>10. ASSUME NEW r \in Requests, NEW j \in Jobs, InsertRow(r, j) PROVE Balanced
  <2>1. Cardinality(Holders(k))' + One(At(r) = k) = Cardinality(Holders(k))
    BY <1>5, <1>10 DEF InsertRow
  <2>2. Cardinality(RowsOf(k))' = Cardinality(RowsOf(k)) + One(At(r) = k)
    BY <1>0, <1>10, RowInserted
  <2>3. QED
    BY <1>1, <1>2, <1>10, <2>1, <2>2, HoldersNext DEF InsertRow, books
<1>11. ASSUME NEW r \in Requests, Respond(r) PROVE Balanced
  <2>1. Cardinality(Holders(k))' + One(At(r) = k) = Cardinality(Holders(k))
    BY <1>5, <1>11 DEF Respond
  <2>2. One(At(r) = k) = 0
    BY <1>11, NoHold DEF Respond, One
  <2>3. QED
    BY <1>1, <1>11, <2>1, <2>2, HoldersNext, SameRows DEF Respond, queue, books
<1>12. ASSUME NEW r \in Requests, HandlerFails(r) PROVE Balanced
  <2>1. lost'[k] = lost[k] + One(At(r) = k)
    BY <1>0, <1>6, <1>12 DEF HandlerFails, BooksTyped
  <2>2. Cardinality(Holders(k))' + One(At(r) = k) = Cardinality(Holders(k))
    BY <1>5, <1>12 DEF HandlerFails
  <2>3. QED
    BY <1>1, <1>2, <1>12, <2>1, <2>2, HoldersNext, SameRows DEF HandlerFails, queue
<1>13. ASSUME NEW q \in Accounts, Expire(q) PROVE Balanced
  <2>1. expired'[k] = expired[k] + One(q = k)
    BY <1>0, <1>6, <1>13 DEF Expire, BooksTyped
  <2>2. One(k \in keys') + One(q = k) = One(k \in keys)
    BY <1>13 DEF Expire, One
  <2>3. One(k \in keys) \in Nat /\ One(k \in keys') \in Nat /\ One(q = k) \in Nat
    BY DEF One
  <2>4. QED
    BY <1>1, <1>13, <2>1, <2>2, <2>3, SameRows, SameHolders DEF Expire, queue
<1>14. CASE MinutePasses
  BY <1>1, <1>14, SameRows, SameHolders DEF MinutePasses, queue, books
<1>15. CASE CrashAndRestart
  <2>1. Holders(k)' = {}
    BY <1>15, IntakeAssumption DEF CrashAndRestart, Holders, At, Idle, Accounts, Triggers
  <2>2. Cardinality(Holders(k))' = 0
    BY <2>1, FS_EmptySet
  <2>3. lost'[k] = lost[k] + Cardinality(Holders(k))
    BY <1>15 DEF CrashAndRestart
  <2>4. UNCHANGED owner
    BY <1>15 DEF CrashAndRestart, Recover, queue
  <2>5. QED
    BY <1>1, <1>15, <2>2, <2>3, <2>4, SameRows DEF CrashAndRestart
<1>16. CASE QueueStep
  <2>1. UNCHANGED owner
    BY <1>16 DEF QueueStep, Start, End, Withdraw
  <2>2. QED
    BY <1>1, <1>16, <2>1, SameRows, SameHolders DEF QueueStep, intake, books
<1>17. CASE UNCHANGED allVars
  BY <1>1, <1>17, SameRows, SameHolders DEF allVars, queue, intake, books
<1>18. QED
  BY <1>3, <1>4, <1>7, <1>8, <1>9, <1>10, <1>11, <1>12, <1>13, <1>14, <1>15, <1>16, <1>17
  DEF IntakeNext, Handler

-----------------------------------------------------------------------------
(* The invariant holds in every reachable state.                           *)
THEOREM IntakeInvariant == IntakeSpec => []IntakeInv
<1>1. IntakeInv /\ [IntakeNext]_allVars => IntakeInv'
  BY TypeStep, BalanceStep DEF IntakeInv
<1>2. QED
  BY IntakeInvInit, <1>1, PTL DEF IntakeSpec

(* Every reachable state is well typed.                                    *)
THEOREM IntakeTypeCorrect == IntakeSpec => []IntakeTypeOK
<1>1. IntakeInv => IntakeTypeOK
  BY DEF IntakeInv
<1>2. QED
  BY IntakeInvariant, <1>1, PTL

(* Whatever deliveries, exceptions, expiries and restarts do, each window  *)
(* of each trigger and payload is accounted for exactly once.              *)
THEOREM WindowsAccountedHolds == IntakeSpec => []WindowsAccounted
<1>1. IntakeInv => WindowsAccounted
  BY DEF IntakeInv
<1>2. QED
  BY IntakeInvariant, <1>1, PTL

(* A trigger is given a payload at most once per window.                   *)
OncePerWindow == \A k \in Accounts : Dispatched(k) <= Windows(k)
(* It follows from the books: what was dispatched had a window of its own. *)
THEOREM OncePerWindowHolds == IntakeSpec => []OncePerWindow
<1>1. ASSUME IntakeInv, NEW k \in Accounts PROVE Dispatched(k) <= Windows(k)
  BY <1>1, Balance DEF Dispatched, Windows, One
<1>2. IntakeInv => OncePerWindow
  BY <1>1 DEF OncePerWindow
<1>3. QED
  BY IntakeInvariant, <1>2, PTL

-----------------------------------------------------------------------------
(* What JobQueue promises, whoever implements it. At most limit[o] jobs of   *)
(* an owner run at once.                                                     *)
QueueStates == {"new", "waiting", "running", "done", "withdrawn"}
QueueTyped ==
  /\ state \in [Jobs -> QueueStates] /\ DOMAIN owner = Jobs
  /\ limit \in [Owners -> Nat]
  /\ \A j \in Jobs : state[j] \in {"waiting", "running"} => owner[j] \in Owners
WithinLimit == \A o \in Owners : Cardinality(RunningOf(o)) <= limit[o]

(* The jobs that run are finitely many.                                      *)
LEMMA RunningFinite ==
  ASSUME NEW o
  PROVE  IsFiniteSet(RunningOf(o)) /\ Cardinality(RunningOf(o)) \in Nat
<1>1. RunningOf(o) \subseteq Jobs
  BY DEF RunningOf
<1> QED
  BY <1>1, IntakeAssumption, FS_Subset, FS_CardinalityType

(* Initially nothing runs.                                                   *)
LEMMA QueueInitially == Init => QueueTyped /\ WithinLimit
<1> SUFFICES ASSUME Init PROVE QueueTyped /\ WithinLimit
  OBVIOUS
<1>1. \A o \in Owners : RunningOf(o) = {}
  BY DEF Init, RunningOf
<1> QED
  BY <1>1, FS_EmptySet DEF Init, QueueTyped, QueueStates, WithinLimit

(* A step that starts no job of an owner leaves at most as many running.     *)
LEMMA FewerRunning ==
  ASSUME NEW o, RunningOf(o)' \subseteq RunningOf(o)
  PROVE  Cardinality(RunningOf(o))' <= Cardinality(RunningOf(o)) /\ Cardinality(RunningOf(o))' \in Nat
<1>1. Cardinality(RunningOf(o)') <= Cardinality(RunningOf(o)) /\ Cardinality(RunningOf(o)') \in Nat
  BY RunningFinite, FS_Subset, FS_CardinalityType
<1> QED
  BY <1>1

(* Every step of JobQueue keeps the types and the limits.                    *)
LEMMA QueueStepKeeps == QueueTyped /\ WithinLimit /\ [Next]_vars => (QueueTyped /\ WithinLimit)'
<1> SUFFICES ASSUME QueueTyped, WithinLimit, [Next]_vars
             PROVE  QueueTyped' /\ WithinLimit'
  OBVIOUS
<1> DEFINE Kept == \A o \in Owners : RunningOf(o)' \subseteq RunningOf(o) /\ limit'[o] >= limit[o]
<1>1. ASSUME QueueTyped', Kept PROVE QueueTyped' /\ WithinLimit'
  <2> SUFFICES ASSUME NEW o \in Owners PROVE Cardinality(RunningOf(o))' <= limit'[o]
    BY <1>1 DEF WithinLimit
  <2>1. Cardinality(RunningOf(o))' <= Cardinality(RunningOf(o)) /\ Cardinality(RunningOf(o))' \in Nat
    BY <1>1, FewerRunning
  <2>2. Cardinality(RunningOf(o)) <= limit[o] /\ limit[o] <= limit'[o]
    BY <1>1 DEF WithinLimit
  <2>3. limit[o] \in Nat /\ limit'[o] \in Nat /\ Cardinality(RunningOf(o)) \in Nat
    BY <1>1, RunningFinite DEF QueueTyped
  <2> QED
    BY <2>1, <2>2, <2>3
<1>2. ASSUME NEW j \in Jobs, NEW o \in Owners, Submit(j, o) PROVE QueueTyped' /\ Kept
  BY <1>2 DEF Submit, QueueTyped, QueueStates, RunningOf
<1>3. ASSUME NEW o \in Owners, Withdraw(o) PROVE QueueTyped' /\ Kept
  BY <1>3 DEF Withdraw, QueueTyped, QueueStates, RunningOf
<1>4. ASSUME NEW j \in Jobs, End(j) PROVE QueueTyped' /\ Kept
  BY <1>4 DEF End, QueueTyped, QueueStates, RunningOf
<1>5. ASSUME Recover PROVE QueueTyped' /\ Kept
  BY <1>5 DEF Recover, QueueTyped, QueueStates, RunningOf
<1>6. ASSUME NEW o \in Owners, RaiseLimit(o) PROVE QueueTyped' /\ Kept
  <2>1. \A p \in Owners : limit'[p] >= limit[p] /\ limit'[p] \in Nat
    BY <1>6 DEF RaiseLimit, QueueTyped
  <2> QED
    BY <1>6, <2>1 DEF RaiseLimit, QueueTyped, RunningOf
<1>7. ASSUME UNCHANGED vars PROVE QueueTyped' /\ Kept
  BY <1>7 DEF vars, QueueTyped, RunningOf
<1>8. ASSUME NEW j \in Jobs, Start(j) PROVE QueueTyped' /\ WithinLimit'
  <2>1. QueueTyped'
    BY <1>8 DEF Start, QueueTyped, QueueStates
  <2>2. \A o \in Owners \ {owner[j]} : RunningOf(o)' = RunningOf(o)
    BY <1>8 DEF Start, QueueTyped, RunningOf
  <2>3. RunningOf(owner[j])' = RunningOf(owner[j]) \cup {j} /\ j \notin RunningOf(owner[j])
    BY <1>8 DEF Start, QueueTyped, RunningOf
  <2>4. Cardinality(RunningOf(owner[j]) \cup {j}) = Cardinality(RunningOf(owner[j])) + 1
    BY <2>3, RunningFinite, FS_AddElement
  <2>5. Cardinality(RunningOf(owner[j]))' <= limit[owner[j]]
    <3>1. owner[j] \in Owners /\ limit[owner[j]] \in Nat
      BY <1>8 DEF Start, QueueTyped
    <3>2. Cardinality(RunningOf(owner[j])) < limit[owner[j]]
      BY <1>8 DEF Start
    <3> QED
      BY <1>8, <2>3, <2>4, <3>1, <3>2, RunningFinite
  <2> QED
    BY <1>8, <2>1, <2>2, <2>5 DEF WithinLimit, Start
<1> QED
  BY <1>1, <1>2, <1>3, <1>4, <1>5, <1>6, <1>7, <1>8 DEF Next

(* The limit of every owner is kept by whatever implements JobQueue.         *)
THEOREM JobQueueWithinLimit == Spec => []WithinLimit
BY QueueInitially, QueueStepKeeps, PTL DEF Spec

(* Nobody hears again of a job that ended or was withdrawn, and a job keeps  *)
(* its owner.                                                                *)
EndedForGood ==
  [][\A j \in Jobs : /\ state[j] \in {"done", "withdrawn"} => state'[j] = state[j]
                     /\ state[j] # "new" => owner'[j] = owner[j]]_vars

(* JobQueue keeps that promise.                                              *)
THEOREM JobQueueEndsForGood == Spec => EndedForGood
<1>1. QueueTyped /\ [Next]_vars =>
        [\A j \in Jobs : /\ state[j] \in {"done", "withdrawn"} => state'[j] = state[j]
                         /\ state[j] # "new" => owner'[j] = owner[j]]_vars
  BY DEF QueueTyped, Next, Submit, Withdraw, Start, End, Recover, RaiseLimit
<1> QED
  BY <1>1, QueueInitially, QueueStepKeeps, PTL DEF Spec, EndedForGood

-----------------------------------------------------------------------------
(* The composition: whatever handlers, deliveries, expiries and restarts do, *)
(* what the intake does to the queue is what JobQueue allows, so the queue   *)
(* keeps its promises to it.                                                 *)
THEOREM IntakeUsesJobQueue == IntakeSpec => Spec
<1>1. IntakeInit => Init
  BY DEF IntakeInit, Init
<1>2. IntakeTypeOK /\ [IntakeNext]_allVars => [Next]_vars
  <2> SUFFICES ASSUME IntakeTypeOK, [IntakeNext]_allVars PROVE [Next]_vars
    OBVIOUS
  <2>1. ASSUME NEW r \in Requests, NEW j \in Jobs, InsertRow(r, j) PROVE Next
    <3>1. delivery[r].at \in Owners
      BY <2>1 DEF InsertRow, IntakeTypeOK, Triggers
    <3> QED
      BY <2>1, <3>1 DEF InsertRow, Next
  <2>2. CASE QueueStep
    BY <2>2 DEF QueueStep, Next
  <2>3. CASE CrashAndRestart
    BY <2>3 DEF CrashAndRestart, Next, queue, vars
  <2>4. ASSUME NEW r \in Requests,
               \/ SendToSession(r) \/ SessionRefuses(r) \/ CheckDepth(r) \/ Respond(r)
               \/ HandlerFails(r) \/ \E t \in Triggers : TakeTrigger(r, t)
               \/ \E v \in Events : Receive(r, v)
        PROVE  UNCHANGED vars
    BY <2>4 DEF SendToSession, SessionRefuses, CheckDepth, Respond, HandlerFails, TakeTrigger,
                Receive, queue, vars
  <2>5. ASSUME (\E k \in Accounts : Expire(k)) \/ MinutePasses \/ UNCHANGED allVars
        PROVE  UNCHANGED vars
    BY <2>5 DEF Expire, MinutePasses, allVars, queue, vars
  <2> QED
    BY <2>1, <2>2, <2>3, <2>4, <2>5 DEF IntakeNext, Handler
<1> QED
  BY <1>1, <1>2, IntakeTypeCorrect, PTL DEF IntakeSpec, Spec

(* From the webhook on: a trigger never has more executions running than its *)
(* limit, however many deliveries ask for one.                               *)
THEOREM IntakeWithinLimit == IntakeSpec => []WithinLimit
BY IntakeUsesJobQueue, JobQueueWithinLimit, PTL
=============================================================================
