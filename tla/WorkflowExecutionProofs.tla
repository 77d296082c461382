----------------------- MODULE WorkflowExecutionProofs -----------------------
(***************************************************************************)
(* Proofs about WorkflowExecution, for any graph, any number of attempts,  *)
(* requests, crashes and failing statements. NodeHasInputs and             *)
(* CompletedIsWhole follow from Walk: what static_order has yielded has    *)
(* its predecessors behind it, what is skipped is closed under successors, *)
(* and a node behind the walker either has an output or has all its        *)
(* successors skipped. GateNeedsApproval follows from Answers: as long as  *)
(* no thread is left behind, a rejection that will wake a gate has its     *)
(* flag, because only the one live attempt can take the flag away.         *)
(***************************************************************************)
EXTENDS WorkflowExecution, TLAPS

InNode == pc \in {"dispatch", "wait", "failed", "succeeded"}
Stopped == pc \in {"dead", "lost"}
Active == {"register", "persist", "announce", "waiting", "woken", "expired"}
Behind == Nodes \ todo

(* Where the walker is. *)
Place ==
  /\ pc = "none" => todo = Nodes /\ group = {} /\ skipped = {} /\ row = "none"
  /\ InNode => cur \in Nodes \ todo /\ nodeRow[cur] = "running"
  /\ pc = "dispatch" => attempt <= wf.retries[cur]
  /\ InNode => attempt <= 1 + wf.retries[cur]
  /\ pc = "wait" => IsGate(cur) /\ attempt >= 1
  /\ (InNode \/ pc \in {"none", "pick"}) => verdict = "none"
  /\ pc = "finish" => verdict = "failed"
  /\ pc \in {"save", "ended"} => verdict # "none"
  /\ pc = "ended" => row = verdict
  /\ row = "completed" => verdict = "completed"

(* The graph: order, skipped nodes, outputs. *)
Walk ==
  /\ pc # "none" => Acyclic
  /\ (pc # "none" /\ group = {}) => todo = {}
  /\ \A n \in group \cup Behind : Pred(n) \cap todo = {}
  /\ \A n \in skipped : Succ(n) \subseteq skipped
  /\ \A n \in Behind : \/ n \in outputs \/ Succ(n) \subseteq skipped
                       \/ n = cur /\ (InNode \/ Stopped)
  /\ InNode => Succ(cur) \subseteq todo

(* The rows of the nodes agree with it. *)
Rows ==
  /\ NodeHasInputs
  /\ \A n \in Behind : \/ nodeRow[n] \in {"completed", "failed", "skipped"}
                       \/ n = cur /\ (InNode \/ Stopped)
  /\ \A n \in skipped \ todo : nodeRow[n] = "skipped"
  /\ \A n \in Nodes : nodeRow[n] = "failed" => wf.mode[n] # "stop" \/ verdict = "failed" \/ Stopped
  /\ verdict = "completed" => todo = {} /\ ~InNode
  /\ verdict = "completed" =>
       \A n \in Nodes : /\ nodeRow[n] \in {"completed", "failed", "skipped"}
                        /\ nodeRow[n] = "failed" => wf.mode[n] # "stop"
                        /\ n \notin outputs => \A m \in Succ(n) : nodeRow[m] = "skipped"

(* The threads of gates: which have started, and that those without a      *)
(* timeout of their own run only while the walker waits for them.          *)
GateThreads ==
  \A t \in Threads :
    /\ thread[t] # "none" => /\ IsGate(t[1]) /\ t[1] \notin todo
                             /\ (InNode /\ t[1] = cur) => t[2] <= attempt
    /\ (thread[t] \in Active /\ t[1] \notin wf.limited)
         => pc = "wait" /\ t = <<cur, attempt>>

(* Answers to a gate, and what they leave behind. *)
Answers ==
  /\ \A t \in Threads : thread[t] = "none" =>
       t \notin isSet /\ events[t[1]] # t[2] /\ \A r \in Requests : req[r].target # t
  /\ \A t \in Threads : (thread[t] \in Active /\ t[1] \notin wf.limited) =>
       /\ t \in isSet => t[1] \in approved \cup flags
       /\ \A r \in Requests : req[r] = [kind |-> "rejected", target |-> t]
            => t[1] \in approved \cup flags
       /\ thread[t] = "woken" => t \in isSet
  /\ \A t \in Threads : (thread[t] = "passed" /\ t[1] \notin wf.limited) => t[1] \in approved
  /\ (pc = "succeeded" /\ IsGate(cur) /\ cur \notin wf.limited) => cur \in approved
  /\ GateNeedsApproval

(* The status in memory, when no gate can be left behind. *)
Shown ==
  (\A n \in wf.limited : ~IsGate(n)) =>
    /\ (pc = "save" /\ status # "none") => status = verdict
    /\ VerdictShown

IInv == TypeOK /\ Place /\ Walk /\ Rows /\ GateThreads /\ Answers /\ Shown

-----------------------------------------------------------------------------
(* Facts about graphs *)

(* What the assumption on Workflows says of the graph that is executed.      *)
LEMMA WfFacts ==
  ASSUME TypeOK
  PROVE  /\ wf.type \in [Nodes -> {"step", "conditional", "approval_gate"}]
         /\ wf.mode \in [Nodes -> {"stop", "continue", "continue_with_error"}]
         /\ wf.retries \in [Nodes -> 0..(MaxAttempts - 1)]
         /\ wf.limited \subseteq Nodes
  BY WorkflowAssumption DEF TypeOK, WorkflowType

(* Succ and Pred are the two directions of one relation on the nodes.        *)
LEMMA SuccPred ==
  /\ \A n : Succ(n) \subseteq Nodes /\ Pred(n) \subseteq Nodes
  /\ \A n, m \in Nodes : m \in Succ(n) <=> n \in Pred(m)
  BY DEF Succ, Pred

(* MarkSkipped adds the seed and everything reached from it, and nothing    *)
(* outside a set that is closed under successors and holds the seed.        *)
LEMMA MarkFacts ==
  ASSUME skipped \subseteq Nodes, NEW seed, seed \subseteq Nodes
  PROVE  /\ MarkSkipped(seed) \subseteq Nodes
         /\ skipped \cup seed \subseteq MarkSkipped(seed)
         /\ (\A n \in skipped : Succ(n) \subseteq skipped)
              => \A n \in MarkSkipped(seed) : Succ(n) \subseteq MarkSkipped(seed)
         /\ \A T \in SUBSET Nodes :
              (seed \subseteq T /\ \A x \in T : Succ(x) \subseteq T) => MarkSkipped(seed) \subseteq skipped \cup T
<1>1. MarkSkipped(seed) \subseteq Nodes /\ skipped \cup seed \subseteq MarkSkipped(seed)
  BY DEF MarkSkipped
<1>2. ASSUME \A n \in skipped : Succ(n) \subseteq skipped,
             NEW n \in MarkSkipped(seed), NEW m \in Succ(n)
      PROVE  m \in MarkSkipped(seed)
  <2>1. ASSUME NEW S \in SUBSET Nodes, skipped \cup seed \subseteq S,
               \A x \in S \ skipped : Succ(x) \subseteq S
        PROVE  m \in S
    <3>1. n \in S
      BY <2>1 DEF MarkSkipped
    <3> QED BY <3>1, <2>1, <1>2
  <2> QED BY <2>1, SuccPred DEF MarkSkipped
<1>3. ASSUME NEW T \in SUBSET Nodes, seed \subseteq T, \A x \in T : Succ(x) \subseteq T
      PROVE  MarkSkipped(seed) \subseteq skipped \cup T
  <2>1. /\ skipped \cup T \in SUBSET Nodes
        /\ skipped \cup seed \subseteq skipped \cup T
        /\ \A x \in (skipped \cup T) \ skipped : Succ(x) \subseteq skipped \cup T
    BY <1>3
  <2> QED BY <2>1 DEF MarkSkipped
<1> QED BY <1>1, <1>2, <1>3

(* In an acyclic graph static_order has a next group until all is yielded. *)
LEMMA ReadyFacts ==
  ASSUME Acyclic, NEW rest \in SUBSET Nodes
  PROVE  Ready(rest) \subseteq rest /\ (Ready(rest) = {} => rest = {})
  BY DEF Ready, Acyclic

(* What the gates' threads, the requests and the entry's own life do is not *)
(* seen by the walker.                                                      *)
LEMMA Apart ==
  ASSUME \/ CancelExecution \/ CleanupExecution
         \/ \E t \in Threads : Gate(t) \/ GateFails(t)
         \/ \E r \in Requests : Api(r)
         \/ UNCHANGED vars
  PROVE  UNCHANGED <<wf, row, up, pc, walk, nodeRow>>
  BY DEF CancelExecution, CleanupExecution, Gate, RegisterEvent, PersistApproval, Announce,
         Wake, Expire, ReadAnswer, GateFails, Api, Ask, Answer, AnswerFails, Others, vars

-----------------------------------------------------------------------------
(* Types *)

(* No walk, no rows, no threads: every part holds initially.                 *)
LEMMA InitIInv == Init => IInv
<1> SUFFICES ASSUME Init PROVE IInv
  OBVIOUS
<1>1. TypeOK
  <2>1. /\ row \in RowStates /\ status \in RowStates \cup {"pending_approval"}
        /\ nodeRow \in [Nodes -> {"none", "running", "completed", "failed", "skipped"}]
        /\ approval \in [Nodes -> {"none", "pending", "approved", "rejected", "timed_out"}]
        /\ req \in [Requests -> [kind : {"none", "done"}, target : {NoNode}]
                           \cup [kind : {"approved", "rejected"}, target : Threads]]
    BY DEF Init, RowStates, Idle
  <2>2. thread \in [Threads -> {"none", "register", "persist", "announce", "waiting", "woken",
                                "expired", "passed", "raised"}]
    BY DEF Init
  <2>3. attempt \in 0..MaxAttempts /\ events \in [Nodes -> 0..MaxAttempts]
        /\ crashes \in 0..MaxCrashes /\ faults \in 0..MaxFaults
    BY WorkflowAssumption DEF Init
  <2> QED BY <2>1, <2>2, <2>3 DEF Init, TypeOK
<1>2. Place /\ Walk /\ Rows /\ Shown
  BY DEF Init, Place, Walk, Rows, Shown, InNode, Stopped, Behind, NodeHasInputs, VerdictShown
<1>3. GateThreads /\ Answers
  <2>1. \A t \in Threads : t[2] # 0
    BY WorkflowAssumption DEF Threads
  <2>2. \A r \in Requests : req[r] = Idle
    BY DEF Init
  <2>3. \A t \in Threads : \A r \in Requests : req[r].target # t
    BY <2>2, WorkflowAssumption DEF Idle, Threads
  <2> QED BY <2>1, <2>2, <2>3 DEF Init, GateThreads, Answers, GateNeedsApproval, InNode, Idle, Active, Threads
<1> QED BY <1>1, <1>2, <1>3 DEF IInv

(* A thread is a gate and an attempt of it.                                  *)
LEMMA ThreadFacts ==
  /\ \A n \in Nodes, k \in 1..MaxAttempts : <<n, k>> \in Threads
  /\ \A t \in Threads : t = <<t[1], t[2]>> /\ t[1] \in Nodes /\ t[2] \in 1..MaxAttempts
  BY DEF Threads

(* Every action keeps the types.                                             *)
LEMMA TypeStep == TypeOK /\ Place /\ [Next]_vars => TypeOK'
<1> SUFFICES ASSUME TypeOK, Place, [Next]_vars PROVE TypeOK'
  OBVIOUS
<1> USE DEF TypeOK
<1>1. CASE ExecuteWorkflow
  BY <1>1 DEF ExecuteWorkflow, Ready, Place, RowStates, gates, bounds
<1>2. CASE CancelExecution
  BY <1>2 DEF CancelExecution, walk, gates, bounds
<1>3. CASE TimeOut \/ StopCancelled
  BY <1>3 DEF TimeOut, StopCancelled, UpdateStatus, RowStates, entry, gates, bounds
<1>4. ASSUME NEW n \in Nodes, SkipNode(n) \/ StartNode(n) PROVE TypeOK'
  <2>1. todo' \subseteq Nodes /\ group' \subseteq todo'
    BY <1>4 DEF SkipNode, StartNode, Yielded, Ready
  <2> QED BY <1>4, <2>1, WorkflowAssumption DEF SkipNode, StartNode, entry, gates, bounds
<1>5. CASE RunHandler \/ StartGate
  <2>1. attempt + 1 \in 0..MaxAttempts
    BY <1>5, WfFacts, WorkflowAssumption DEF RunHandler, StartGate, Place, InNode
  <2> QED BY <1>5, <2>1 DEF RunHandler, StartGate, AfterFailure, entry, gates, bounds
<1>6. CASE JoinGate \/ LeaveGate
  BY <1>6 DEF JoinGate, LeaveGate, AfterFailure, entry, walk, gates, bounds
<1>7. CASE NodeFails \/ NodeSucceeds
  <2>1. skipped' \subseteq Nodes /\ outputs' \subseteq Nodes
    <3>1. Succ(cur) \subseteq Nodes /\ \A label : OffBranch(label) \subseteq Nodes
      BY SuccPred DEF OffBranch
    <3>2. cur \in Nodes
      BY <1>7 DEF Place, InNode, NodeFails, NodeSucceeds
    <3> QED BY <1>7, <3>1, <3>2, MarkFacts DEF NodeFails, NodeSucceeds
  <2> QED BY <1>7, <2>1 DEF NodeFails, NodeSucceeds, entry, gates, bounds
<1>8. CASE Finish
  BY <1>8 DEF Finish, UpdateStatus, RowStates, gates, bounds
<1>9. CASE Save \/ WalkerDies \/ CleanupExecution
  <2>1. CASE Save \/ CleanupExecution
    BY <1>9, <2>1 DEF Save, Place, CleanupExecution, RowStates, entry, walk, gates, bounds
  <2>2. CASE WalkerDies
    <3>1. faults' \in 0..MaxFaults
      BY <2>2, WorkflowAssumption DEF WalkerDies
    <3> QED BY <2>2, <3>1 DEF WalkerDies, entry, walk, gates
  <2> QED BY <1>9, <2>1, <2>2
<1>10. ASSUME NEW t \in Threads, Gate(t) \/ GateFails(t) PROVE TypeOK'
  <2>1. CASE RegisterEvent(t)
    BY <1>10, <2>1, ThreadFacts DEF RegisterEvent, GoTo, Others, entry, walk, bounds
  <2>2. CASE PersistApproval(t)
    BY <1>10, <2>2, ThreadFacts DEF PersistApproval, GoTo, Others, entry, walk, bounds
  <2>3. CASE Announce(t)
    BY <1>10, <2>3 DEF Announce, GoTo, UpdateStatus, RowStates, Others, walk, bounds
  <2>4. CASE Wake(t)
    <3>1. thread' \in [Threads -> {"none", "register", "persist", "announce", "waiting", "woken",
                                  "expired", "passed", "raised"}]
      <4>1. CASE t \in isSet
        BY <2>4, <4>1 DEF Wake, GoTo
      <4>2. CASE t \notin isSet
        BY <2>4, <4>2 DEF Wake, GoTo
      <4> QED BY <4>1, <4>2
    <3>2. events' \in [Nodes -> 0..MaxAttempts]
      <4>1. 0 \in 0..MaxAttempts /\ events' = [events EXCEPT ![t[1]] = 0]
        BY <2>4, WorkflowAssumption DEF Wake
      <4> QED BY <4>1
    <3> QED BY <2>4, <3>1, <3>2 DEF Wake, Others, entry, walk, bounds
  <2>5. CASE Expire(t)
    <3>1. approval' \in [Nodes -> {"none", "pending", "approved", "rejected", "timed_out"}]
      BY <2>5 DEF Expire
    <3>2. status' \in RowStates \cup {"pending_approval"}
      BY <2>5 DEF Expire, UpdateStatus, RowStates
    <3> QED BY <1>10, <2>5, <3>1, <3>2 DEF Expire, GoTo, Others, walk, bounds
  <2>6. CASE ReadAnswer(t)
    BY <1>10, <2>6 DEF ReadAnswer, GoTo, UpdateStatus, RowStates, Others, walk, bounds
  <2>7. CASE GateFails(t)
    BY <1>10, <2>7, WorkflowAssumption DEF GateFails, GoTo, Others, entry, walk
  <2> QED BY <1>10, <2>1, <2>2, <2>3, <2>4, <2>5, <2>6, <2>7 DEF Gate
<1>11. ASSUME NEW r \in Requests, Api(r) PROVE TypeOK'
  <2>1. ASSUME NEW n \in Nodes, NEW kind \in {"approved", "rejected"}, Ask(r, n, kind)
        PROVE  TypeOK'
    <3>1. <<n, events[n]>> \in Threads
      BY <2>1, ThreadFacts DEF Ask
    <3>2. [kind |-> kind, target |-> <<n, events[n]>>] \in [kind : {"approved", "rejected"}, target : Threads]
      BY <3>1
    <3>3. flags' \subseteq Nodes
      BY <2>1 DEF Ask
    <3>4. req' \in [Requests -> [kind : {"none", "done"}, target : {NoNode}]
                           \cup [kind : {"approved", "rejected"}, target : Threads]]
      BY <1>11, <2>1, <3>2 DEF Ask
    <3> QED BY <2>1, <3>3, <3>4 DEF Ask, entry, walk, bounds
  <2>2. CASE Answer(r)
    <3>1. req[r].target \in Threads /\ req[r].kind \in {"approved", "rejected"}
      BY <2>2 DEF Answer, Held
    <3> QED BY <2>2, <3>1, ThreadFacts DEF Answer, Done, entry, walk, bounds
  <2>3. CASE AnswerFails(r)
    BY <2>3, WorkflowAssumption DEF AnswerFails, Done, entry, walk, gates
  <2> QED BY <1>11, <2>1, <2>2, <2>3 DEF Api
<1>12. CASE Crash
  <2>1. req' \in [Requests -> [kind : {"none", "done"}, target : {NoNode}]
                         \cup [kind : {"approved", "rejected"}, target : Threads]]
    BY <1>12 DEF Crash, Held
  <2>2. thread' \in [Threads -> {"none", "register", "persist", "announce", "waiting", "woken",
                                "expired", "passed", "raised"}]
    BY <1>12 DEF Crash
  <2>3. crashes' \in 0..MaxCrashes /\ events' \in [Nodes -> 0..MaxAttempts]
    BY <1>12, WorkflowAssumption DEF Crash
  <2>4. pc' \in {"none", "lost"} /\ status' = "none" /\ cancelled' = FALSE /\ up' = FALSE
        /\ isSet' = {} /\ flags' = {} /\ UNCHANGED <<wf, row, walk, nodeRow, approval, approved, faults>>
    BY <1>12 DEF Crash
  <2> QED BY <2>1, <2>2, <2>3, <2>4 DEF walk, RowStates
<1>13. CASE Restart
  BY <1>13 DEF Restart, walk, RowStates, entry, bounds
<1>14. CASE UNCHANGED vars
  BY <1>14 DEF vars, entry, walk, gates, bounds
<1> QED BY <1>1, <1>2, <1>3, <1>4, <1>5, <1>6, <1>7, <1>8, <1>9, <1>10, <1>11, <1>12, <1>13, <1>14
        DEF Next, Walker

-----------------------------------------------------------------------------
(* The walker *)

(* Every action keeps what the place of the walker says.                     *)
LEMMA PlaceStep == TypeOK /\ Place /\ [Next]_vars => Place'
<1> SUFFICES ASSUME TypeOK, Place, [Next]_vars PROVE Place'
  OBVIOUS
<1> USE DEF Place, InNode
<1>1. CASE ExecuteWorkflow
  BY <1>1 DEF ExecuteWorkflow
<1>2. CASE TimeOut \/ StopCancelled
  BY <1>2 DEF TimeOut, StopCancelled
<1>3. ASSUME NEW n \in Nodes, SkipNode(n) \/ StartNode(n) PROVE Place'
  <2>1. CASE SkipNode(n)
    BY <2>1 DEF SkipNode
  <2>2. CASE StartNode(n)
    <3>1. n \notin todo' /\ nodeRow'[n] = "running"
      BY <2>2 DEF StartNode, Yielded, TypeOK
    <3>2. 0 <= wf.retries[n] /\ 0 <= 1 + wf.retries[n]
      BY WfFacts, WorkflowAssumption
    <3> QED BY <2>2, <3>1, <3>2 DEF StartNode
  <2> QED BY <1>3, <2>1, <2>2
<1>4. CASE RunHandler \/ StartGate
  <2>1. attempt \in Nat /\ wf.retries[cur] \in Int /\ attempt <= wf.retries[cur]
    BY <1>4, WfFacts, WorkflowAssumption DEF RunHandler, StartGate, TypeOK
  <2>2. /\ pc' \in {"succeeded", "dispatch", "failed", "wait"} /\ attempt' = attempt + 1
        /\ pc' = "dispatch" => attempt' <= wf.retries[cur]
        /\ pc' = "wait" => IsGate(cur)
        /\ pc = "dispatch" /\ UNCHANGED <<wf, row, todo, group, cur, skipped, verdict, nodeRow>>
    BY <1>4, <2>1 DEF RunHandler, StartGate, AfterFailure
  <2> QED BY <2>1, <2>2 DEF IsGate
<1>5. CASE JoinGate \/ LeaveGate
  <2>1. attempt \in Nat /\ wf.retries[cur] \in Int /\ pc = "wait"
    BY <1>5, WfFacts, WorkflowAssumption DEF JoinGate, LeaveGate, TypeOK
  <2>2. (pc' = "dispatch" => attempt <= wf.retries[cur]) /\ pc' \in {"succeeded", "dispatch", "failed"}
    BY <1>5, <2>1 DEF JoinGate, LeaveGate, AfterFailure
  <2> QED BY <1>5, <2>1, <2>2 DEF JoinGate, LeaveGate, walk
<1>6. CASE NodeFails \/ NodeSucceeds
  BY <1>6 DEF NodeFails, NodeSucceeds
<1>7. CASE Finish
  BY <1>7 DEF Finish
<1>8. CASE Save \/ WalkerDies
  BY <1>8 DEF Save, WalkerDies, walk, TypeOK
<1>9. CASE UNCHANGED <<wf, row, up, pc, walk, nodeRow>>
  BY <1>9 DEF walk, IsGate
<1>10. CASE Crash
  BY <1>10 DEF Crash, walk
<1>11. CASE Restart
  BY <1>11 DEF Restart, walk, TypeOK, IsGate
<1> QED BY <1>1, <1>2, <1>3, <1>4, <1>5, <1>6, <1>7, <1>8, <1>9, <1>10, <1>11, Apart
        DEF Next, Walker

(* The graph does not change while it is executed.                           *)
LEMMA GraphFixed == [Next]_vars => wf' = wf /\ \A n : Succ(n)' = Succ(n) /\ Pred(n)' = Pred(n)
<1> SUFFICES ASSUME [Next]_vars PROVE wf' = wf
  BY DEF Succ, Pred
<1> QED BY Apart DEF Next, Walker, ExecuteWorkflow, TimeOut, StopCancelled, SkipNode, StartNode,
        RunHandler, StartGate, JoinGate, LeaveGate, NodeFails, NodeSucceeds, Finish, Save,
        WalkerDies, Crash, Restart

(* Yielding a node keeps the order: nothing that is left is before it.      *)
LEMMA YieldStep ==
  ASSUME TypeOK, Walk, Acyclic, wf' = wf, NEW n \in group, Yielded(n)
  PROVE  /\ todo' = todo \ {n} /\ n \in Nodes
         /\ Pred(n) \cap todo = {}
         /\ Succ(n) \subseteq todo'
         /\ group' = {} => todo' = {}
         /\ \A m \in group' \cup (Nodes \ todo') : Pred(m) \cap todo' = {}
<1>1. todo' = todo \ {n} /\ n \in Nodes /\ n \in todo /\ todo' \in SUBSET Nodes
  BY DEF Yielded, TypeOK
<1>2. \A m \in group \cup (Nodes \ todo) : Pred(m) \cap todo = {}
  BY DEF Walk, Behind
<1>3. Succ(n) \subseteq todo'
  <2> SUFFICES ASSUME NEW m \in Succ(n), m \notin todo' PROVE FALSE
    OBVIOUS
  <2>1. m \in Nodes /\ n \in Pred(m)
    BY <1>1, SuccPred
  <2>2. m \in group \cup (Nodes \ todo)
    BY <1>1, <2>1
  <2> QED BY <1>1, <1>2, <2>1, <2>2
<1>4. CASE group = {n}
  <2>1. group' = Ready(todo')
    BY <1>4 DEF Yielded
  <2>2. group' = {} => todo' = {}
    BY <2>1, <1>1, ReadyFacts
  <2>3. \A m \in group' : Pred(m) \cap todo' = {}
    BY <2>1 DEF Ready
  <2> QED BY <1>1, <1>2, <1>3, <2>2, <2>3
<1>5. CASE group # {n}
  <2>1. group' = group \ {n} /\ group' # {}
    BY <1>5 DEF Yielded
  <2> QED BY <1>1, <1>2, <1>3, <2>1
<1> QED BY <1>4, <1>5

(* What a node's end adds to skipped_nodes lies ahead of the walker.        *)
LEMMA SkipStep ==
  ASSUME TypeOK, Place, Walk, InNode, NEW seed, seed \subseteq Succ(cur)
  PROVE  /\ skipped \cup seed \subseteq MarkSkipped(seed)
         /\ \A n \in MarkSkipped(seed) : Succ(n) \subseteq MarkSkipped(seed)
         /\ MarkSkipped(seed) \subseteq skipped \cup todo
<1>1. skipped \subseteq Nodes /\ seed \subseteq Nodes /\ todo \in SUBSET Nodes /\ seed \subseteq todo
  BY SuccPred DEF TypeOK, Walk
<1>2. ASSUME NEW x \in todo PROVE Succ(x) \subseteq todo
  <2> SUFFICES ASSUME NEW y \in Succ(x), y \notin todo PROVE FALSE
    OBVIOUS
  <2>1. x \in Nodes /\ y \in Nodes /\ x \in Pred(y)
    BY <1>1, SuccPred
  <2> QED BY <2>1 DEF Walk, Behind
<1> QED BY <1>1, <1>2, MarkFacts DEF Walk

(* The walk: order, skipped nodes and outputs go on agreeing with the graph. *)
LEMMA WalkStep == TypeOK /\ Place /\ Walk /\ [Next]_vars => Walk'
<1> SUFFICES ASSUME TypeOK, Place, Walk, [Next]_vars PROVE Walk'
  OBVIOUS
<1>0. /\ wf' = wf /\ Acyclic' = Acyclic
      /\ \A n : Succ(n)' = Succ(n) /\ Pred(n)' = Pred(n)
  BY GraphFixed DEF Acyclic
<1>1. CASE ExecuteWorkflow
  <2>1. Ready(Nodes) \subseteq Nodes /\ (Ready(Nodes) = {} => Nodes = {})
        /\ \A n \in Ready(Nodes) : Pred(n) \cap Nodes = {}
    BY <1>1, ReadyFacts DEF ExecuteWorkflow, Ready
  <2> QED BY <1>0, <1>1, <2>1 DEF ExecuteWorkflow, Walk, Place, Behind, InNode, Stopped
<1>2. CASE TimeOut \/ StopCancelled
  BY <1>0, <1>2 DEF TimeOut, StopCancelled, Walk, Behind, InNode, Stopped
<1>3. ASSUME NEW n \in Nodes, SkipNode(n) \/ StartNode(n) PROVE Walk'
  <2>1. /\ pc = "pick" /\ n \in group /\ Yielded(n) /\ Acyclic /\ skipped' = skipped /\ outputs' = outputs
    BY <1>3 DEF SkipNode, StartNode, Walk
  <2>2. /\ todo' = todo \ {n} /\ Succ(n) \subseteq todo' /\ (group' = {} => todo' = {})
        /\ \A m \in group' \cup (Nodes \ todo') : Pred(m) \cap todo' = {}
    BY <1>0, <2>1, YieldStep
  <2>3. \A m \in Nodes \ todo : m \in outputs \/ Succ(m) \subseteq skipped
    BY <2>1 DEF Walk, Behind, InNode, Stopped
  <2>4. CASE SkipNode(n)
    <3>1. Succ(n) \subseteq skipped /\ pc' = pc
      BY <2>4 DEF SkipNode, Walk
    <3> QED BY <1>0, <2>1, <2>2, <2>3, <3>1 DEF Walk, Behind, InNode, Stopped
  <2>5. CASE StartNode(n)
    <3>1. pc' = "dispatch" /\ cur' = n
      BY <2>5 DEF StartNode
    <3> QED BY <1>0, <2>1, <2>2, <2>3, <3>1 DEF Walk, Behind, InNode, Stopped
  <2> QED BY <1>3, <2>4, <2>5
<1>4. CASE RunHandler \/ StartGate \/ JoinGate \/ LeaveGate
  <2>1. InNode /\ InNode' /\ pc' # "none" /\ UNCHANGED <<todo, group, cur, skipped, outputs>>
    BY <1>4 DEF RunHandler, StartGate, JoinGate, LeaveGate, AfterFailure, InNode, walk
  <2> QED BY <1>0, <2>1 DEF Walk, Behind, InNode
<1>5. CASE NodeFails
  <2>1. /\ InNode /\ pc # "none" /\ ~InNode' /\ UNCHANGED <<todo, group, cur>>
        /\ skipped \subseteq skipped' /\ outputs \subseteq outputs'
        /\ cur \in outputs' \/ Succ(cur) \subseteq skipped'
        /\ \A n \in skipped' : Succ(n) \subseteq skipped'
    BY <1>5, SkipStep DEF NodeFails, InNode, Walk
  <2> QED BY <1>0, <2>1 DEF Walk, Behind, InNode, Stopped
<1>6. CASE NodeSucceeds
  <2>1. \A label : OffBranch(label) \subseteq Succ(cur)
    BY DEF OffBranch, Succ
  <2>2. /\ InNode /\ pc # "none" /\ ~InNode' /\ UNCHANGED <<todo, group, cur>>
        /\ skipped \subseteq skipped' /\ outputs \subseteq outputs' /\ cur \in outputs'
        /\ \A n \in skipped' : Succ(n) \subseteq skipped'
    BY <1>6, <2>1, SkipStep DEF NodeSucceeds, InNode
  <2> QED BY <1>0, <2>2 DEF Walk, Behind, InNode, Stopped
<1>7. CASE Finish \/ Save
  BY <1>0, <1>7 DEF Finish, Save, walk, Walk, Behind, InNode, Stopped
<1>8. CASE WalkerDies \/ Crash
  BY <1>0, <1>8 DEF WalkerDies, Crash, walk, Walk, Place, Behind, InNode, Stopped
<1>9. CASE Restart \/ UNCHANGED <<wf, row, up, pc, walk, nodeRow>>
  BY <1>0, <1>9 DEF Restart, walk, Walk, Behind, InNode, Stopped
<1> QED BY <1>1, <1>2, <1>3, <1>4, <1>5, <1>6, <1>7, <1>8, <1>9, Apart DEF Next, Walker

(* The rows of the nodes go on agreeing with the walk.                       *)
LEMMA RowsStep == TypeOK /\ Place /\ Walk /\ Rows /\ [Next]_vars => Rows'
<1> SUFFICES ASSUME TypeOK, Place, Walk, Rows, [Next]_vars PROVE Rows'
  OBVIOUS
<1>0. wf' = wf /\ \A n : Succ(n)' = Succ(n) /\ Pred(n)' = Pred(n)
  BY GraphFixed
<1>1. CASE ExecuteWorkflow
  BY <1>0, <1>1 DEF ExecuteWorkflow, Rows, Place, NodeHasInputs, Behind, InNode, Stopped
<1>2. CASE TimeOut \/ StopCancelled
  BY <1>0, <1>2 DEF TimeOut, StopCancelled, Rows, Place, NodeHasInputs, Behind, InNode, Stopped
<1>3. ASSUME NEW n \in Nodes, SkipNode(n) \/ StartNode(n) PROVE Rows'
  <2>1. /\ pc = "pick" /\ n \in group /\ Yielded(n) /\ UNCHANGED <<skipped, outputs, verdict>>
        /\ verdict = "none" /\ todo' = todo \ {n} /\ Pred(n) \cap todo = {}
    BY <1>0, <1>3, YieldStep DEF SkipNode, StartNode, Walk, Place
  <2>2. CASE SkipNode(n)
    <3>1. nodeRow' = [nodeRow EXCEPT ![n] = "skipped"] /\ pc' = pc
      BY <2>2 DEF SkipNode
    <3> QED BY <1>0, <2>1, <3>1 DEF Rows, NodeHasInputs, Behind, InNode, Stopped, TypeOK
  <2>3. CASE StartNode(n)
    <3>1. nodeRow' = [nodeRow EXCEPT ![n] = "running"] /\ pc' = "dispatch" /\ cur' = n /\ n \notin skipped
      BY <2>3 DEF StartNode
    <3>2. Pred(n) \subseteq outputs
      <4> SUFFICES ASSUME NEW m \in Pred(n) PROVE m \in outputs
        OBVIOUS
      <4>1. m \in Nodes \ todo /\ n \in Succ(m)
        BY <2>1, SuccPred
      <4> QED BY <2>1, <3>1, <4>1 DEF Walk, Behind, InNode, Stopped
    <3> QED BY <1>0, <2>1, <3>1, <3>2 DEF Rows, NodeHasInputs, Behind, InNode, Stopped, TypeOK
  <2> QED BY <1>3, <2>2, <2>3
<1>4. CASE RunHandler \/ StartGate \/ JoinGate \/ LeaveGate
  <2>1. InNode /\ InNode' /\ UNCHANGED <<todo, cur, skipped, outputs, verdict, nodeRow>>
    BY <1>4 DEF RunHandler, StartGate, JoinGate, LeaveGate, AfterFailure, InNode, walk
  <2>2. verdict = "none"
    BY <2>1 DEF Place
  <2> QED BY <1>0, <2>1, <2>2 DEF Rows, NodeHasInputs, Behind, InNode, Stopped
<1>5. CASE NodeFails \/ NodeSucceeds
  <2>1. /\ InNode /\ ~InNode' /\ ~Stopped /\ ~Stopped' /\ verdict = "none"
        /\ cur \in Nodes \ todo /\ nodeRow[cur] = "running" /\ UNCHANGED <<todo, cur>>
    BY <1>5 DEF NodeFails, NodeSucceeds, InNode, Stopped, Place
  <2>2. \A label : OffBranch(label) \subseteq Succ(cur)
    BY DEF OffBranch, Succ
  <2>3. skipped' \subseteq skipped \cup todo /\ outputs \subseteq outputs'
    BY <1>5, <2>1, <2>2, SkipStep DEF NodeFails, NodeSucceeds
  <2>4. cur \notin skipped' /\ Pred(cur) \subseteq outputs
    BY <2>1, <2>3 DEF Rows, NodeHasInputs
  <2>5. \/ nodeRow' = [nodeRow EXCEPT ![cur] = "completed"] /\ verdict' = verdict
        \/ /\ nodeRow' = [nodeRow EXCEPT ![cur] = "failed"] /\ verdict' \in {"none", "failed"}
           /\ wf.mode[cur] # "stop" \/ verdict' = "failed"
    BY <1>5, <2>1 DEF NodeFails, NodeSucceeds
  <2> QED BY <1>0, <2>1, <2>3, <2>4, <2>5 DEF Rows, NodeHasInputs, Behind, TypeOK
<1>6. CASE Finish
  <2>1. /\ nodeRow' = [n \in Nodes |-> IF n \in skipped /\ nodeRow[n] = "none" THEN "skipped"
                                                                         ELSE nodeRow[n]]
        /\ verdict' = IF verdict = "failed" THEN "failed" ELSE "completed"
        /\ pc' = "save" /\ UNCHANGED <<todo, cur, skipped, outputs>> /\ ~InNode /\ ~Stopped
    BY <1>6 DEF Finish, InNode, Stopped
  <2>2. verdict # "failed" => todo = {} /\ verdict = "none"
    BY <1>6 DEF Finish, Place, Walk
  <2>3. verdict # "failed" =>
          \A n \in Nodes : /\ nodeRow[n] \in {"completed", "failed", "skipped"}
                           /\ nodeRow[n] = "failed" => wf.mode[n] # "stop"
                           /\ n \notin outputs => Succ(n) \subseteq skipped
                           /\ n \in skipped => nodeRow[n] = "skipped"
    BY <2>1, <2>2 DEF Rows, Walk, Behind
  <2>a. \A n \in Nodes : nodeRow'[n] # nodeRow[n] => nodeRow[n] = "none" /\ nodeRow'[n] = "skipped"
    BY <2>1
  <2>4. /\ NodeHasInputs'
        /\ \A n \in Behind' : nodeRow'[n] \in {"completed", "failed", "skipped"}
        /\ \A n \in skipped' \ todo' : nodeRow'[n] = "skipped"
    <3>1. NodeHasInputs'
      BY <1>0, <2>1, <2>a DEF Rows, NodeHasInputs
    <3>2. \A n \in Behind' : nodeRow'[n] \in {"completed", "failed", "skipped"}
      BY <2>1, <2>a DEF Rows, Behind
    <3>3. \A n \in skipped' \ todo' : nodeRow'[n] = "skipped"
      BY <2>1, <2>a DEF Rows, TypeOK
    <3> QED BY <3>1, <3>2, <3>3
  <2>5. \A n \in Nodes : nodeRow'[n] = "failed" => wf.mode[n] # "stop" \/ verdict' = "failed"
    BY <2>1, <2>3 DEF Rows
  <2>6. verdict' = "completed" =>
          \A n \in Nodes : /\ nodeRow'[n] \in {"completed", "failed", "skipped"}
                           /\ nodeRow'[n] = "failed" => wf.mode[n] # "stop"
                           /\ n \notin outputs => \A m \in Succ(n) : nodeRow'[m] = "skipped"
    BY <2>1, <2>3, SuccPred
  <2> QED BY <1>0, <2>1, <2>2, <2>4, <2>5, <2>6 DEF Rows, InNode
<1>7. CASE Save
  BY <1>0, <1>7 DEF Save, walk, Rows, NodeHasInputs, Behind, InNode, Stopped
<1>8. CASE WalkerDies \/ Crash
  BY <1>0, <1>8 DEF WalkerDies, Crash, walk, Rows, Place, NodeHasInputs, Behind, InNode, Stopped
<1>9. CASE Restart \/ UNCHANGED <<wf, row, up, pc, walk, nodeRow>>
  BY <1>0, <1>9 DEF Restart, walk, Rows, NodeHasInputs, Behind, InNode, Stopped
<1> QED BY <1>1, <1>2, <1>3, <1>4, <1>5, <1>6, <1>7, <1>8, <1>9, Apart DEF Next, Walker

-----------------------------------------------------------------------------
(* The gates *)

(* What every walker step but StartGate leaves alone.                       *)
LEMMA WalkerGates ==
  ASSUME Walker, ~StartGate
  PROVE  UNCHANGED <<wf, gates, req, approved>>
  BY DEF Walker, TimeOut, StopCancelled, SkipNode, StartNode, RunHandler, JoinGate, LeaveGate,
         NodeFails, NodeSucceeds, Finish, Save

(* A handler's step moves one live thread.                                  *)
LEMMA GateMoves ==
  ASSUME TypeOK, NEW t \in Threads, Gate(t) \/ GateFails(t)
  PROVE  /\ thread[t] \in Active
         /\ thread' = [thread EXCEPT ![t] = thread'[t]] /\ thread'[t] # "none"
         /\ UNCHANGED <<wf, row, pc, todo, cur, attempt, nodeRow, req, approved, isSet>>
  BY DEF Gate, RegisterEvent, PersistApproval, Announce, Wake, Expire, ReadAnswer, GateFails,
         Others, GoTo, Active, TypeOK, walk

(* Only a gate with a timeout of its own is ever left behind.                *)
LEMMA ThreadsStep == TypeOK /\ Place /\ GateThreads /\ [Next]_vars => GateThreads'
<1> SUFFICES ASSUME TypeOK, Place, GateThreads, [Next]_vars PROVE GateThreads'
  OBVIOUS
<1>0. wf' = wf
  BY GraphFixed
<1> USE <1>0 DEF GateThreads, InNode, IsGate
<1>1. CASE ExecuteWorkflow \/ TimeOut \/ StopCancelled \/ NodeFails \/ NodeSucceeds \/ Finish \/ Save
  BY <1>1 DEF ExecuteWorkflow, TimeOut, StopCancelled, NodeFails, NodeSucceeds, Finish, Save, gates, walk
<1>2. ASSUME NEW n \in Nodes, SkipNode(n) \/ StartNode(n) PROVE GateThreads'
  <2>1. /\ pc = "pick" /\ thread' = thread /\ todo' \subseteq todo /\ n \in todo
        /\ InNode' => cur' = n
    BY <1>2 DEF SkipNode, StartNode, Yielded, gates, TypeOK
  <2> QED BY <2>1
<1>3. CASE RunHandler
  <2>1. pc' # "wait" /\ UNCHANGED <<thread, todo, cur>> /\ ~IsGate(cur) /\ pc # "wait"
    BY <1>3 DEF RunHandler, AfterFailure, gates
  <2> QED BY <2>1
<1>4. CASE StartGate
  <2>1. /\ pc = "dispatch" /\ pc' = "wait" /\ UNCHANGED <<todo, cur>> /\ attempt' = attempt + 1
        /\ thread' = [thread EXCEPT ![<<cur, attempt + 1>>] = "register"] /\ IsGate(cur)
        /\ cur \in Nodes \ todo
    BY <1>4 DEF StartGate, Place
  <2>2. attempt \in Nat /\ \A t \in Threads : t = <<t[1], t[2]>> /\ t[2] \in Nat
    BY ThreadFacts, WorkflowAssumption DEF TypeOK
  <2> QED BY <2>1, <2>2 DEF TypeOK, Active
<1>5. CASE JoinGate \/ LeaveGate
  <2>1. /\ pc = "wait" /\ UNCHANGED <<thread, walk>>
        /\ thread[<<cur, attempt>>] \in Active => cur \in wf.limited
    BY <1>5 DEF JoinGate, LeaveGate, gates, Active
  <2> QED BY <2>1 DEF walk
<1>6. ASSUME NEW t \in Threads, Gate(t) \/ GateFails(t) PROVE GateThreads'
  BY <1>6, GateMoves DEF TypeOK, Active
<1>7. CASE WalkerDies
  BY <1>7 DEF WalkerDies, gates, walk
<1>8. CASE Crash
  BY <1>8 DEF Crash, Active
<1>9. CASE CancelExecution \/ CleanupExecution \/ Restart \/ UNCHANGED vars
  BY <1>9 DEF CancelExecution, CleanupExecution, Restart, vars, walk, gates
<1>10. ASSUME NEW r \in Requests, Api(r) PROVE GateThreads'
  BY <1>10 DEF Api, Ask, Answer, AnswerFails, gates, walk
<1> QED BY <1>1, <1>2, <1>3, <1>4, <1>5, <1>6, <1>7, <1>8, <1>9, <1>10 DEF Next, Walker

(* No answer to a gate that is not left behind loses its approval or flag.   *)
LEMMA AnswersStep == TypeOK /\ Place /\ GateThreads /\ Answers /\ [Next]_vars => Answers'
<1> SUFFICES ASSUME TypeOK, Place, GateThreads, Answers, [Next]_vars PROVE Answers'
  OBVIOUS
<1>0. wf' = wf
  BY GraphFixed
<1>a. \A t \in Threads : t = <<t[1], t[2]>> /\ t[1] \in Nodes /\ t[2] \in 1..MaxAttempts /\ t # NoNode
  BY ThreadFacts, WorkflowAssumption DEF Threads
<1>b. \A r \in Requests : \/ (req[r].kind \in {"none", "done"} /\ req[r].target = NoNode)
                         \/ (req[r].kind \in {"approved", "rejected"} /\ req[r].target \in Threads)
  BY DEF TypeOK
<1> USE <1>0 DEF IsGate
<1>1. CASE Walker /\ ~StartGate
  <2>1. UNCHANGED <<gates, req, approved>>
    BY <1>1, WalkerGates
  <2>2. (pc' = "succeeded" /\ IsGate(cur') /\ cur' \notin wf.limited) => cur' \in approved
    <3> SUFFICES ASSUME pc' = "succeeded", IsGate(cur'), cur' \notin wf.limited PROVE cur' \in approved
      OBVIOUS
    <3>1. JoinGate \/ RunHandler
      BY <1>1 DEF Walker, TimeOut, StopCancelled, SkipNode, StartNode, LeaveGate, AfterFailure,
              NodeFails, NodeSucceeds, Finish, Save
    <3>2. cur' = cur /\ ~RunHandler
      BY <3>1 DEF JoinGate, RunHandler, walk
    <3>3. thread[<<cur, attempt>>] = "passed" /\ <<cur, attempt>> \in Threads
      BY <3>1, <3>2, ThreadFacts DEF JoinGate, AfterFailure, Place, InNode, TypeOK
    <3> QED BY <3>2, <3>3, <1>a DEF Answers
  <2>3. \A n \in Nodes \ wf.limited : (IsGate(n) /\ nodeRow'[n] = "completed") => n \in approved
    <3>1. CASE NodeSucceeds
      BY <3>1 DEF NodeSucceeds, Answers, GateNeedsApproval, TypeOK
    <3>2. CASE ~NodeSucceeds
      <4>1. \A n \in Nodes : nodeRow'[n] = "completed" => nodeRow[n] = "completed"
        BY <1>1, <3>2 DEF Walker, TimeOut, StopCancelled, SkipNode, StartNode, RunHandler, JoinGate,
           LeaveGate, NodeFails, Finish, Save, TypeOK
      <4> QED BY <4>1 DEF Answers, GateNeedsApproval
    <3> QED BY <3>1, <3>2
  <2> QED BY <2>1, <2>2, <2>3 DEF Answers, GateNeedsApproval, gates
<1>2. CASE StartGate
  <2>1. /\ pc' = "wait" /\ UNCHANGED <<events, isSet, flags, req, approved, nodeRow>>
        /\ thread' = [thread EXCEPT ![<<cur, attempt + 1>>] = "register"]
    BY <1>2 DEF StartGate
  <2>2. <<cur, attempt + 1>> \in Threads => thread[<<cur, attempt + 1>>] = "none"
    <3>1. attempt \in Nat /\ ~(attempt + 1 <= attempt)
      BY DEF TypeOK
    <3> QED BY <1>2, <3>1 DEF StartGate, GateThreads, InNode
  <2> QED BY <2>1, <2>2 DEF Answers, GateNeedsApproval, Active, TypeOK
<1>3. ASSUME NEW t \in Threads, Gate(t) \/ GateFails(t) PROVE Answers'
  <2>1. /\ thread[t] \in Active /\ thread' = [thread EXCEPT ![t] = thread'[t]] /\ thread'[t] # "none"
        /\ UNCHANGED <<pc, cur, nodeRow, req, approved, isSet>>
    BY <1>3, GateMoves
  <2>2. CASE ~ReadAnswer(t)
    <3>1. /\ flags' = flags /\ thread'[t] # "passed" /\ (thread'[t] = "woken" => t \in isSet)
          /\ \A u \in Threads : u # t => events'[u[1]] # u[2] \/ events[u[1]] = u[2]
      BY <1>3, <2>2, <1>a DEF Gate, RegisterEvent, PersistApproval, Announce, Wake, Expire, GateFails,
         GoTo, TypeOK
    <3> QED BY <2>1, <3>1 DEF Answers, GateNeedsApproval, Active, TypeOK
  <2>3. CASE ReadAnswer(t)
    <3>1. /\ flags' = flags \ {t[1]} /\ UNCHANGED events /\ thread[t] = "woken"
          /\ thread'[t] = IF t[1] \in flags THEN "raised" ELSE "passed"
      BY <2>3 DEF ReadAnswer, GoTo, TypeOK
    <3>2. \A u \in Threads : (thread'[u] \in Active /\ u[1] \notin wf.limited) => u[1] # t[1]
      BY <2>1, <3>1, <1>a DEF GateThreads, Active, TypeOK
    <3>3. (thread'[t] = "passed" /\ t[1] \notin wf.limited) => t[1] \in approved
      BY <2>1, <3>1 DEF Answers
    <3> QED BY <2>1, <3>1, <3>2, <3>3 DEF Answers, GateNeedsApproval, Active, TypeOK
  <2> QED BY <2>2, <2>3
<1>4. ASSUME NEW r \in Requests, Api(r) PROVE Answers'
  <2>0. UNCHANGED <<pc, cur, nodeRow, thread, events>>
    BY <1>4 DEF Api, Ask, Answer, AnswerFails, walk, gates
  <2>1. ASSUME NEW n \in Nodes, NEW kind \in {"approved", "rejected"}, Ask(r, n, kind)
        PROVE  Answers'
    <3>1. <<n, events[n]>> \in Threads /\ thread[<<n, events[n]>>] # "none"
      BY <2>1, ThreadFacts DEF Ask, Answers, TypeOK
    <3>2. /\ req' = [req EXCEPT ![r] = [kind |-> kind, target |-> <<n, events[n]>>]]
          /\ flags \subseteq flags' /\ (kind = "rejected" => n \in flags') /\ UNCHANGED <<isSet, approved>>
      BY <2>1 DEF Ask
    <3>3. \A q \in Requests : req'[q] = IF q = r THEN [kind |-> kind, target |-> <<n, events[n]>>] ELSE req[q]
      BY <3>2 DEF TypeOK
    <3>4. \A t \in Threads : thread[t] = "none" => \A q \in Requests : req'[q].target # t
      BY <3>1, <3>3 DEF Answers
    <3>5. \A t \in Threads : (thread[t] \in Active /\ t[1] \notin wf.limited) =>
            \A q \in Requests : req'[q] = [kind |-> "rejected", target |-> t] => t[1] \in approved \cup flags'
      BY <3>2, <3>3 DEF Answers
    <3> QED BY <2>0, <3>2, <3>4, <3>5 DEF Answers, GateNeedsApproval
  <2>2. CASE Answer(r)
    <3>1. /\ req[r].target \in Threads /\ thread[req[r].target] # "none"
          /\ req[r] = [kind |-> req[r].kind, target |-> req[r].target]
      BY <2>2, <1>b DEF Answer, Held, Answers, TypeOK
    <3>2. /\ isSet' = isSet \cup {req[r].target} /\ flags' = flags /\ approved \subseteq approved'
          /\ req[r].kind = "approved" => req[r].target[1] \in approved'
          /\ req[r].kind \in {"approved", "rejected"}
          /\ \A q \in Requests : req'[q] = IF q = r THEN [kind |-> "done", target |-> NoNode] ELSE req[q]
      BY <2>2 DEF Answer, Done, Held, TypeOK
    <3>3. \A t \in Threads : thread[t] = "none" =>
            t \notin isSet' /\ \A q \in Requests : req'[q].target # t
      BY <3>1, <3>2, <1>a DEF Answers
    <3>4. \A t \in Threads : (thread[t] \in Active /\ t[1] \notin wf.limited) =>
            /\ t \in isSet' => t[1] \in approved' \cup flags'
            /\ \A q \in Requests : req'[q] = [kind |-> "rejected", target |-> t]
                                    => t[1] \in approved' \cup flags'
      BY <3>1, <3>2, <1>a DEF Answers
    <3> QED BY <2>0, <3>2, <3>3, <3>4 DEF Answers, GateNeedsApproval
  <2>3. CASE AnswerFails(r)
    <3>1. /\ UNCHANGED <<isSet, flags, approved>>
          /\ \A q \in Requests : req'[q] = IF q = r THEN [kind |-> "done", target |-> NoNode] ELSE req[q]
      BY <2>3 DEF AnswerFails, Done, gates, TypeOK
    <3> QED BY <2>0, <3>1, <1>a DEF Answers, GateNeedsApproval
  <2> QED BY <1>4, <2>1, <2>2, <2>3 DEF Api
<1>5. CASE Crash
  <2>1. \A r \in Requests : req'[r].target = NoNode
    BY <1>5, <1>b DEF Crash, Held
  <2> QED BY <1>5, <2>1, <1>a DEF Crash, Answers, GateNeedsApproval, Active
<1>6. CASE ExecuteWorkflow \/ CancelExecution \/ WalkerDies \/ CleanupExecution \/ Restart \/ UNCHANGED vars
  BY <1>6 DEF ExecuteWorkflow, CancelExecution, WalkerDies, CleanupExecution, Restart, vars, walk, gates,
     Answers, GateNeedsApproval
<1> QED BY <1>1, <1>2, <1>3, <1>4, <1>5, <1>6 DEF Next, Walker

(* Without abandoned gates the last status that is set is the verdict.       *)
LEMMA ShownStep == TypeOK /\ Place /\ GateThreads /\ Shown /\ [Next]_vars => Shown'
<1> SUFFICES ASSUME TypeOK, Place, GateThreads, Shown, [Next]_vars,
                    \A n \in wf.limited : ~IsGate(n)
             PROVE  /\ (pc' = "save" /\ status' # "none") => status' = verdict'
                    /\ (pc' = "ended" /\ status' # "none") => status' = row'
  BY GraphFixed DEF Shown, VerdictShown, IsGate
<1>0. wf' = wf
  BY GraphFixed
<1> USE DEF Shown, VerdictShown
<1>1. CASE Walker
  BY <1>1 DEF Walker, TimeOut, StopCancelled, SkipNode, StartNode, RunHandler, StartGate, JoinGate,
     LeaveGate, AfterFailure, NodeFails, NodeSucceeds, Finish, Save, UpdateStatus, entry, walk
<1>2. ASSUME NEW t \in Threads, Gate(t) \/ GateFails(t)
      PROVE  pc' = "wait"
  <2>1. thread[t] \in Active /\ pc' = pc
    BY <1>2, GateMoves
  <2>2. t[1] \notin wf.limited
    BY <2>1 DEF GateThreads, Active
  <2> QED BY <2>1, <2>2 DEF GateThreads
<1>3. CASE ExecuteWorkflow \/ CancelExecution \/ CleanupExecution \/ WalkerDies \/ Crash \/ Restart \/ UNCHANGED vars
  BY <1>3 DEF ExecuteWorkflow, CancelExecution, CleanupExecution, WalkerDies, Crash, Restart, vars,
     entry, walk, Place, TypeOK
<1>4. ASSUME NEW r \in Requests, Api(r) PROVE UNCHANGED <<pc, status, row, verdict>>
  BY <1>4 DEF Api, Ask, Answer, AnswerFails, entry, walk
<1> QED BY <1>1, <1>2, <1>3, <1>4 DEF Next

-----------------------------------------------------------------------------
(* IInv is an inductive invariant. *)
THEOREM WorkflowInvariant == Spec => []IInv
<1>1. IInv /\ [Next]_vars => IInv'
  BY TypeStep, PlaceStep, WalkStep, RowsStep, ThreadsStep, AnswersStep, ShownStep DEF IInv
<1> QED BY <1>1, InitIInv, PTL DEF Spec

(* Type correctness, for any graph, attempts, requests and faults. *)
THEOREM WorkflowTypeCorrect == Spec => []TypeOK
BY WorkflowInvariant, PTL DEF IInv

(* No node runs without an output of each of its predecessors. *)
THEOREM NodeHasInputsHolds == Spec => []NodeHasInputs
<1>1. IInv => NodeHasInputs
  BY DEF IInv, Rows
<1> QED BY <1>1, WorkflowInvariant, PTL

(* A workflow that is completed went through its whole graph. *)
THEOREM CompletedIsWholeHolds == Spec => []CompletedIsWhole
<1>1. IInv => CompletedIsWhole
  BY DEF IInv, Place, Rows, CompletedIsWhole
<1> QED BY <1>1, WorkflowInvariant, PTL

(* No gate without a timeout of its own opens unless it was approved. *)
THEOREM GateNeedsApprovalHolds == Spec => []GateNeedsApproval
<1>1. IInv => GateNeedsApproval
  BY DEF IInv, Answers
<1> QED BY <1>1, WorkflowInvariant, PTL

(* The status in memory ends as the row's, if no gate can be left behind. *)
THEOREM VerdictShownHolds == Spec => []VerdictShown
<1>1. IInv => VerdictShown
  BY DEF IInv, Shown, VerdictShown
<1> QED BY <1>1, WorkflowInvariant, PTL

-----------------------------------------------------------------------------
(* What else the contract rests on: nodes that are left have no row yet, a   *)
(* walk goes on only under a row that is running, and outputs are those of   *)
(* nodes that have ended.                                                    *)
Walking == InNode \/ pc \in {"pick", "finish"}
Order ==
  /\ Walking \/ pc = "none" => \A n \in todo : nodeRow[n] = "none"
  /\ \A n \in todo : nodeRow[n] \in {"none", "skipped"}
  /\ Walking \/ pc = "save" => row = "running"
  /\ ~up => pc \in {"none", "lost"}
  /\ \A n \in outputs : nodeRow[n] \in {"completed", "failed"}

(* Every step keeps that.                                                    *)
LEMMA OrderStep == IInv /\ Order /\ [Next]_vars => Order'
<1> SUFFICES ASSUME TypeOK, Place, Walk, Rows, Order, [Next]_vars PROVE Order'
  BY DEF IInv
<1> USE DEF Walking, InNode
<1>1. CASE ExecuteWorkflow
  BY <1>1 DEF ExecuteWorkflow, Order
<1>2. CASE TimeOut \/ StopCancelled
  BY <1>2 DEF TimeOut, StopCancelled, Order
<1>3. ASSUME NEW n \in Nodes, SkipNode(n) \/ StartNode(n) PROVE Order'
  <2>1. /\ pc = "pick" /\ pc' \in {"pick", "dispatch"} /\ n \in todo /\ todo' = todo \ {n}
        /\ UNCHANGED <<outputs, row, up>>
    BY <1>3 DEF SkipNode, StartNode, Yielded, TypeOK
  <2>2. \A m \in Nodes \ {n} : nodeRow'[m] = nodeRow[m]
    BY <1>3 DEF SkipNode, StartNode, TypeOK
  <2>3. n \notin outputs
    BY <2>1 DEF Order
  <2> QED
    BY <2>1, <2>2, <2>3 DEF Order, TypeOK
<1>4. CASE RunHandler \/ StartGate \/ JoinGate \/ LeaveGate
  <2>1. InNode /\ InNode' /\ UNCHANGED <<todo, outputs, nodeRow, row, up>>
    BY <1>4 DEF RunHandler, StartGate, JoinGate, LeaveGate, AfterFailure, walk
  <2> QED
    BY <2>1 DEF Order
<1>5. CASE NodeFails \/ NodeSucceeds
  <2>1. /\ InNode /\ pc' \in {"pick", "finish"} /\ cur \in Nodes \ todo
        /\ UNCHANGED <<todo, row, up>> /\ outputs' \in {outputs, outputs \cup {cur}}
    BY <1>5 DEF NodeFails, NodeSucceeds, Place
  <2>2. \E how \in {"completed", "failed"} : nodeRow' = [nodeRow EXCEPT ![cur] = how]
    BY <1>5 DEF NodeFails, NodeSucceeds
  <2> QED
    BY <2>1, <2>2 DEF Order, TypeOK
<1>6. CASE Finish
  <2>1. /\ Walking /\ pc' = "save" /\ UNCHANGED <<todo, outputs, row, up>>
        /\ \A n \in Nodes : nodeRow'[n] = nodeRow[n] \/ (nodeRow[n] = "none" /\ nodeRow'[n] = "skipped")
    BY <1>6 DEF Finish
  <2> QED
    BY <2>1 DEF Order, TypeOK
<1>7. CASE Save \/ WalkerDies
  BY <1>7 DEF Save, WalkerDies, walk, Order
<1>8. CASE Crash \/ Restart
  BY <1>8 DEF Crash, Restart, walk, Order
<1>9. CASE UNCHANGED <<wf, row, up, pc, walk, nodeRow>>
  BY <1>9 DEF walk, Order
<1> QED
  BY <1>1, <1>2, <1>3, <1>4, <1>5, <1>6, <1>7, <1>8, <1>9, Apart DEF Next, Walker

(* Between two nodes no row says that a node is running.                     *)
LEMMA QuietBetween ==
  ASSUME IInv, Order, pc \in {"pick", "finish", "save"}
  PROVE  Contract!Quiet
<1> SUFFICES ASSUME NEW n \in Nodes PROVE nodeRow[n] # "running"
  BY DEF Contract!Quiet
<1>1. CASE n \in todo
  BY <1>1 DEF Order
<1>2. CASE n \notin todo
  BY <1>2 DEF IInv, Rows, Behind, InNode, Stopped
<1> QED
  BY <1>1, <1>2

(* Each step is one of the contract's, or nothing that the rows show.        *)
LEMMA StepMaps == IInv /\ IInv' /\ Order /\ [Next]_vars => [Contract!Next]_Contract!vars
<1> SUFFICES ASSUME IInv, IInv', Order, [Next]_vars PROVE [Contract!Next]_Contract!vars
  OBVIOUS
<1> DEFINE before == [n \in Nodes |-> Pred(n)]
<1>0. before' = before
  BY GraphFixed
<1>t. TypeOK /\ Place /\ Rows /\ Rows'
  BY DEF IInv
<1>1. CASE ExecuteWorkflow
  <2>1. row = "none" /\ row' = "running" /\ UNCHANGED nodeRow
    BY <1>1, <1>t DEF ExecuteWorkflow, Place
  <2> QED
    BY <1>0, <2>1 DEF Contract!Next, Contract!Open
<1>2. ASSUME NEW n \in Nodes, SkipNode(n) PROVE Contract!Next
  <2>1. /\ pc = "pick" /\ n \in todo /\ UNCHANGED row
        /\ nodeRow' = [nodeRow EXCEPT ![n] = "skipped"]
    BY <1>2, <1>t DEF SkipNode, TypeOK
  <2>2. row = "running" /\ nodeRow[n] = "none" /\ Contract!Quiet
    BY <2>1, QuietBetween DEF Order, Walking
  <2>3. Contract!Skip({n})
    BY <1>0, <1>t, <2>1, <2>2 DEF Contract!Skip, TypeOK
  <2> QED
    BY <2>3 DEF Contract!Next
<1>3. ASSUME NEW n \in Nodes, StartNode(n) PROVE Contract!Next
  <2>1. /\ pc = "pick" /\ n \in todo /\ UNCHANGED <<row, outputs>>
        /\ nodeRow' = [nodeRow EXCEPT ![n] = "running"]
    BY <1>3, <1>t DEF StartNode, TypeOK
  <2>2. row = "running" /\ nodeRow[n] = "none" /\ Contract!Quiet
    BY <2>1, QuietBetween DEF Order, Walking
  <2>3. Pred(n) \subseteq outputs
    <3>1. nodeRow'[n] = "running"
      BY <1>t, <2>1 DEF TypeOK
    <3>2. Pred(n)' \subseteq outputs'
      BY <1>t, <3>1 DEF Rows, NodeHasInputs
    <3> QED
      BY <2>1, <3>2, GraphFixed
  <2>4. \A m \in before[n] : nodeRow[m] \in Contract!Ended
    BY <2>3 DEF Order, Contract!Ended
  <2>5. Contract!Start(n)
    BY <1>0, <2>1, <2>2, <2>4 DEF Contract!Start
  <2> QED
    BY <2>5 DEF Contract!Next
<1>4. CASE NodeFails \/ NodeSucceeds
  <2>1. InNode /\ cur \in Nodes /\ nodeRow[cur] = "running" /\ row = "running" /\ UNCHANGED row
    BY <1>4, <1>t DEF NodeFails, NodeSucceeds, InNode, Place, Order, Walking
  <2>2. \E how \in {"completed", "failed"} : nodeRow' = [nodeRow EXCEPT ![cur] = how]
    BY <1>4 DEF NodeFails, NodeSucceeds
  <2>3. Contract!End(cur)
    BY <1>0, <2>1, <2>2 DEF Contract!End, Contract!Ended
  <2> QED
    BY <2>1, <2>3 DEF Contract!Next
<1>5. CASE Finish
  <2> DEFINE S == {n \in skipped : nodeRow[n] = "none"}
  <2>1. pc \in {"pick", "finish"} /\ row = "running" /\ Contract!Quiet /\ UNCHANGED row
    BY <1>5, QuietBetween DEF Finish, Order, Walking
  <2>2. S \subseteq Nodes /\ \A n \in S : nodeRow[n] = "none"
    BY <1>t DEF TypeOK
  <2>3. nodeRow' = [n \in Nodes |-> IF n \in S THEN "skipped" ELSE nodeRow[n]]
    BY <1>5 DEF Finish
  <2> HIDE DEF S
  <2>4. Contract!Skip(S)
    BY <1>0, <2>1, <2>2, <2>3 DEF Contract!Skip
  <2> QED
    BY <2>2, <2>4 DEF Contract!Next
<1>6. CASE Save
  <2>1. pc = "save" /\ row' = verdict /\ row = "running" /\ UNCHANGED nodeRow /\ Contract!Quiet
    BY <1>6, QuietBetween DEF Save, Order
  <2>2. verdict \in {"completed", "failed", "cancelled"}
    BY <1>t, <2>1 DEF TypeOK, Place
  <2>3. verdict = "completed" => \A n \in Nodes : nodeRow[n] \in Contract!Settled
    BY <1>t DEF Rows, Contract!Settled, Contract!Ended
  <2>4. Contract!Conclude(verdict)
    BY <1>0, <2>1, <2>3 DEF Contract!Conclude
  <2> QED
    BY <2>2, <2>4 DEF Contract!Next
<1>7. CASE Restart
  <2>1. UNCHANGED nodeRow /\ row' = IF row = "running" THEN "failed" ELSE row
    BY <1>7 DEF Restart
  <2>2. CASE row = "running"
    <3>1. Contract!Conclude("failed")
      BY <1>0, <2>1, <2>2 DEF Contract!Conclude
    <3> QED
      BY <3>1 DEF Contract!Next
  <2> QED
    BY <1>0, <2>1, <2>2 DEF Contract!vars
<1>8. CASE \/ TimeOut \/ StopCancelled \/ RunHandler \/ StartGate \/ JoinGate \/ LeaveGate
           \/ WalkerDies \/ Crash \/ UNCHANGED <<wf, row, up, pc, walk, nodeRow>>
  <2>1. UNCHANGED <<row, nodeRow>>
    BY <1>8 DEF TimeOut, StopCancelled, RunHandler, StartGate, JoinGate, LeaveGate, WalkerDies,
                Crash
  <2> QED
    BY <1>0, <2>1 DEF Contract!vars
<1> QED
  BY <1>1, <1>2, <1>3, <1>4, <1>5, <1>6, <1>7, <1>8, Apart DEF Next, Walker

(* What the rows tell is what Workflow says: each node at most once, one at  *)
(* a time, in the order of the graph, and nothing behind the verdict.        *)
THEOREM WorkflowKeepsContract == Spec => IsWorkflow
<1>1. Init => Order /\ Contract!Init
  BY SuccPred DEF Init, Order, Walking, InNode, Contract!Init
<1> QED
  BY <1>1, InitIInv, WorkflowInvariant, OrderStep, StepMaps, PTL
     DEF Spec, IsWorkflow, Contract!Spec

(* At most one node is running, and what is recorded of a node that ended or *)
(* was skipped is never rewritten: no retry, late gate or restart runs it    *)
(* again.                                                                    *)
OneAtATime == \A n, m \in Nodes : nodeRow[n] = "running" /\ nodeRow[m] = "running" => n = m
NodesEndForGood ==
  [][\A n \in Nodes : nodeRow[n] \in Contract!Settled => nodeRow'[n] = nodeRow[n]]_nodeRow

(* The contract alone promises that, whatever implements it.                 *)
THEOREM ContractRunsOnce == IsWorkflow => []OneAtATime /\ NodesEndForGood
<1> DEFINE Typed == DOMAIN nodeRow = Nodes /\ nodeRow = [n \in Nodes |-> nodeRow[n]]
<1>1. Contract!Init => Typed /\ OneAtATime
  BY DEF Contract!Init, OneAtATime
<1>2. Typed /\ [Contract!Next]_Contract!vars =>
        Typed' /\ [\A n \in Nodes : nodeRow[n] \in Contract!Settled => nodeRow'[n] = nodeRow[n]]_nodeRow
  BY DEF Contract!Next, Contract!vars, Contract!Open, Contract!Start, Contract!End, Contract!Skip,
         Contract!Conclude, Contract!Settled, Contract!Ended
<1>3. Typed /\ OneAtATime /\ [Contract!Next]_Contract!vars => OneAtATime'
  <2> SUFFICES ASSUME Typed, OneAtATime, [Contract!Next]_Contract!vars PROVE OneAtATime'
    OBVIOUS
  <2> USE DEF OneAtATime
  <2>1. ASSUME NEW n \in Nodes, Contract!Start(n) PROVE OneAtATime'
    BY <2>1 DEF Contract!Start, Contract!Quiet
  <2>2. ASSUME NEW n \in Nodes, Contract!End(n) PROVE OneAtATime'
    BY <2>2 DEF Contract!End, Contract!Ended
  <2>3. ASSUME NEW S \in SUBSET Nodes, Contract!Skip(S) PROVE OneAtATime'
    BY <2>3 DEF Contract!Skip, Contract!Quiet
  <2>4. CASE UNCHANGED nodeRow
    BY <2>4
  <2> QED
    BY <2>1, <2>2, <2>3, <2>4 DEF Contract!Next, Contract!vars, Contract!Open, Contract!Conclude
<1> HIDE DEF Typed
<1> QED
  BY <1>1, <1>2, <1>3, PTL DEF IsWorkflow, Contract!Spec, NodesEndForGood

(* So a workflow execution does it.                                          *)
THEOREM NodesRunOnce == Spec => []OneAtATime /\ NodesEndForGood
BY WorkflowKeepsContract, ContractRunsOnce, PTL

-----------------------------------------------------------------------------
(* The safe half of ExecutionEnds: while the row says "running" somebody is  *)
(* left to change it. The walker stands at a step that it can take, or it    *)
(* waits for a handler whose thread was started, or the server is down and   *)
(* its start will clean up, or a failing statement has killed the walker.    *)
RunningIsWalked ==
  row = "running" =>
    \/ pc \in {"pick", "dispatch", "failed", "succeeded", "finish", "save"}
    \/ pc = "wait" /\ thread[<<cur, attempt>>] # "none"
    \/ pc = "lost" /\ ~up
    \/ pc = "dead"

(* A walker that waits has started the thread it waits for.                  *)
Awaited ==
  /\ pc = "wait" => thread[<<cur, attempt>>] # "none"
  /\ pc = "lost" /\ up => row # "running"

(* Every step keeps that: only StartGate makes the walker wait.            *)
LEMMA AwaitedStep == IInv /\ Order /\ Awaited /\ [Next]_vars => Awaited'
<1> SUFFICES ASSUME TypeOK, Place, Order, Awaited, [Next]_vars PROVE Awaited'
  BY DEF IInv
<1> USE DEF Awaited
<1>1. CASE StartGate
  <2>1. <<cur, attempt + 1>> \in Threads
    <3>1. attempt + 1 \in 1..MaxAttempts /\ cur \in Nodes
      BY <1>1, WfFacts, WorkflowAssumption DEF StartGate, Place, InNode, TypeOK
    <3> QED
      BY <3>1, ThreadFacts
  <2> QED
    BY <1>1, <2>1 DEF StartGate, TypeOK
<1>2. CASE Walker /\ ~StartGate
  <2>1. pc' # "wait" /\ pc' # "lost"
    BY <1>2 DEF Walker, TimeOut, StopCancelled, SkipNode, StartNode, RunHandler, JoinGate,
                LeaveGate, AfterFailure, NodeFails, NodeSucceeds, Finish, Save
  <2> QED
    BY <2>1
<1>3. ASSUME NEW t \in Threads, Gate(t) \/ GateFails(t) PROVE Awaited'
  <2>1. thread' = [thread EXCEPT ![t] = thread'[t]] /\ thread'[t] # "none"
    BY <1>3, GateMoves
  <2>2. UNCHANGED <<row, up, pc, cur, attempt>>
    BY <1>3, Apart DEF walk
  <2>3. pc = "wait" => <<cur, attempt>> \in Threads
    BY WorkflowAssumption, ThreadFacts DEF Place, InNode, TypeOK
  <2> QED
    BY <2>1, <2>2, <2>3 DEF TypeOK
<1>4. CASE ExecuteWorkflow \/ WalkerDies \/ Crash
  BY <1>4 DEF ExecuteWorkflow, WalkerDies, Crash
<1>5. CASE Restart
  BY <1>5 DEF Restart, Order, walk
<1>6. CASE \/ CancelExecution \/ CleanupExecution \/ (\E r \in Requests : Api(r)) \/ UNCHANGED vars
  BY <1>6 DEF CancelExecution, CleanupExecution, Api, Ask, Answer, AnswerFails, vars, walk, gates
<1> QED
  BY <1>1, <1>2, <1>3, <1>4, <1>5, <1>6 DEF Next

(* No running row is forgotten by everybody.                                 *)
THEOREM RunningIsWalkedHolds == Spec => []RunningIsWalked
<1>1. Init => Order /\ Awaited
  BY DEF Init, Order, Walking, InNode, Awaited
<1>2. IInv /\ Order /\ Awaited => RunningIsWalked
  BY DEF IInv, TypeOK, Place, Awaited, RunningIsWalked
<1> QED
  BY <1>1, <1>2, WorkflowInvariant, OrderStep, AwaitedStep, PTL DEF Spec
=============================================================================
