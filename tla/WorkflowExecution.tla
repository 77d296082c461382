-------------------------- MODULE WorkflowExecution --------------------------
(***************************************************************************)
(* One execution of a workflow (services/workflow_execution_service.py):   *)
(* the daemon thread that walks the graph in topological order, the gate   *)
(* handlers that wait for a human (workflow_node_executor.py), each in the *)
(* walker's thread or, when the node has a timeout of its own, in a thread *)
(* that may be left behind, and the requests that cancel, approve and      *)
(* reject. A thread <<n, k>> is the k-th attempt of gate n and stands for  *)
(* its threading.Event too. One action is one critical section, one        *)
(* database call, or what a thread does between two of them that no other  *)
(* thread sees. Handlers other than the gate are one step with any result: *)
(* one that is left behind changes nothing of the execution. node_states,  *)
(* the copy of the node rows that the status page reads, is left out, and  *)
(* so are the completion triggers.                                         *)
(* A definition named Bug... is a faulty variant of the definition that    *)
(* follows it: the properties were tried on it, no action refers to it.    *)
(***************************************************************************)
EXTENDS Integers

CONSTANTS Nodes,        \* node ids
          NoNode,       \* no node, no event
          Workflows,    \* graphs that may be executed
          MaxAttempts,  \* bound: 1 + retry_max
          Requests,     \* bound: approve and reject requests
          MaxCrashes,   \* bound: crashes of the server
          MaxFaults     \* bound: failing database statements

Handles == {"any", "true", "false"}     \* "any" is an edge without sourceHandle
WorkflowType ==
  [edges   : SUBSET (Nodes \X Handles \X Nodes),
   type    : [Nodes -> {"step", "conditional", "approval_gate"}],
   mode    : [Nodes -> {"stop", "continue", "continue_with_error"}],
   retries : [Nodes -> 0..(MaxAttempts - 1)],
   limited : SUBSET Nodes]              \* nodes with node_timeout_seconds

ASSUME WorkflowAssumption ==
  /\ Workflows \subseteq WorkflowType
  /\ MaxAttempts \in Nat \ {0} /\ MaxCrashes \in Nat /\ MaxFaults \in Nat
  /\ NoNode \notin Nodes \cup (Nodes \X (1..MaxAttempts))

VARIABLES
  wf,         \* the graph of this execution
  row,        \* status of the row of workflow_executions
  status,     \* status of the entry of _executions
  cancelled,  \* _cancelled of that entry
  up,         \* the server runs
  pc,         \* where the walker is
  todo,       \* nodes that static_order has not yielded yet
  group,      \* nodes of the group it is yielding
  cur,        \* node being executed
  attempt,    \* attempts of cur
  skipped,    \* skipped_nodes
  outputs,    \* nodes with an entry of node_outputs
  verdict,    \* what the walker will write to the row
  nodeRow,    \* status of the rows of workflow_node_executions
  thread,     \* per attempt of a gate: where its handler is
  events,     \* _approval_events: per gate the attempt whose event is there
  isSet,      \* events that are set
  flags,      \* _rejection_flags
  approval,   \* status of the rows of workflow_approval_states
  req,        \* per request: what it is about to do
  approved,   \* gates for which approve_node succeeded (history)
  crashes, faults

entry    == <<status, cancelled>>
walk     == <<todo, group, cur, attempt, skipped, outputs, verdict>>
gates    == <<thread, events, isSet, flags, approval>>
bounds   == <<crashes, faults>>
vars     == <<wf, row, entry, up, pc, walk, nodeRow, gates, req, approved, bounds>>

Threads == Nodes \X (1..MaxAttempts)
Idle    == [kind |-> "none", target |-> NoNode]
Succ(n) == {m \in Nodes : \E h \in Handles : <<n, h, m>> \in wf.edges}
Pred(n) == {m \in Nodes : n \in Succ(m)}
IsGate(n) == wf.type[n] = "approval_gate"

(* Every nonempty set of nodes has one without a predecessor in the set. *)
Acyclic == \A S \in SUBSET Nodes : S # {} => \E n \in S : Pred(n) \cap S = {}

BugOnePredecessor(rest) == {n \in rest : Pred(n) = {} \/ \E m \in Pred(n) : m \notin rest}

(* The group that TopologicalSorter yields when the nodes of rest are left. *)
Ready(rest) == {n \in rest : Pred(n) \cap rest = {}}

Init ==
  /\ wf \in Workflows
  /\ row = "none" /\ status = "none" /\ cancelled = FALSE /\ up = TRUE
  /\ pc = "none"
  /\ todo = Nodes /\ group = {} /\ cur = NoNode /\ attempt = 0
  /\ skipped = {} /\ outputs = {} /\ verdict = "none"
  /\ nodeRow = [n \in Nodes |-> "none"]
  /\ thread = [t \in Threads |-> "none"]
  /\ events = [n \in Nodes |-> 0] /\ isSet = {} /\ flags = {}
  /\ approval = [n \in Nodes |-> "none"]
  /\ req = [r \in Requests |-> Idle]
  /\ approved = {} /\ crashes = 0 /\ faults = 0

-----------------------------------------------------------------------------
(* execute_workflow: a graph that fails _validate_graph is refused.        *)
ExecuteWorkflow ==
  /\ pc = "none" /\ up
  /\ Acyclic
  /\ row' = "running" /\ status' = "running"
  /\ group' = Ready(Nodes)
  /\ pc' = "pick"
  /\ UNCHANGED <<wf, cancelled, up, todo, cur, attempt, skipped, outputs, verdict,
                 nodeRow, gates, req, approved, bounds>>

(* _update_status: nothing when the entry is gone. *)
UpdateStatus(s) == status' = IF status = "none" THEN "none" ELSE s

CancelExecution ==
  /\ status = "running" /\ ~cancelled
  /\ cancelled' = TRUE
  /\ UNCHANGED <<wf, row, status, up, pc, walk, nodeRow, gates, req, approved, bounds>>

-----------------------------------------------------------------------------
(* The walker, _run_workflow *)

Yielded(n) ==
  /\ todo' = todo \ {n}
  /\ group' = IF group = {n} THEN Ready(todo') ELSE group \ {n}

TimeOut ==
  /\ pc = "pick" /\ group # {}
  /\ verdict' = "failed"
  /\ pc' = "finish"
  /\ UNCHANGED <<wf, row, entry, up, todo, group, cur, attempt, skipped, outputs,
                 nodeRow, gates, req, approved, bounds>>

BugCancelsRowOnly ==
  /\ pc = "pick" /\ group # {} /\ cancelled
  /\ verdict' = "cancelled"
  /\ pc' = "save"
  /\ UNCHANGED <<wf, row, entry, up, todo, group, cur, attempt, skipped, outputs,
                 nodeRow, gates, req, approved, bounds>>

StopCancelled ==
  /\ pc = "pick" /\ group # {} /\ cancelled
  /\ verdict' = "cancelled"
  /\ UpdateStatus("cancelled")
  /\ pc' = "save"
  /\ UNCHANGED <<wf, row, cancelled, up, todo, group, cur, attempt, skipped, outputs,
                 nodeRow, gates, req, approved, bounds>>

SkipNode(n) ==
  /\ pc = "pick" /\ n \in group /\ ~cancelled
  /\ n \in skipped
  /\ nodeRow' = [nodeRow EXCEPT ![n] = "skipped"]
  /\ Yielded(n)
  /\ UNCHANGED <<wf, row, entry, up, pc, cur, attempt, skipped, outputs, verdict,
                 gates, req, approved, bounds>>

StartNode(n) ==
  /\ pc = "pick" /\ n \in group /\ ~cancelled
  /\ n \notin skipped
  /\ nodeRow' = [nodeRow EXCEPT ![n] = "running"]
  /\ cur' = n /\ attempt' = 0
  /\ Yielded(n)
  /\ pc' = "dispatch"
  /\ UNCHANGED <<wf, row, entry, up, skipped, outputs, verdict, gates, req, approved, bounds>>

AfterFailure(k) == IF k < 1 + wf.retries[cur] THEN "dispatch" ELSE "failed"

(* One attempt of a handler that is not a gate. *)
RunHandler ==
  /\ pc = "dispatch" /\ ~IsGate(cur)
  /\ attempt' = attempt + 1
  /\ pc' \in {"succeeded", AfterFailure(attempt + 1)}
  /\ UNCHANGED <<wf, row, entry, up, todo, group, cur, skipped, outputs, verdict,
                 nodeRow, gates, req, approved, bounds>>

StartGate ==
  /\ pc = "dispatch" /\ IsGate(cur)
  /\ attempt' = attempt + 1
  /\ thread' = [thread EXCEPT ![<<cur, attempt + 1>>] = "register"]
  /\ pc' = "wait"
  /\ UNCHANGED <<wf, row, entry, up, todo, group, cur, skipped, outputs, verdict,
                 nodeRow, events, isSet, flags, approval, req, approved, bounds>>

JoinGate ==
  /\ pc = "wait"
  /\ \/ thread[<<cur, attempt>>] = "passed" /\ pc' = "succeeded"
     \/ thread[<<cur, attempt>>] = "raised" /\ pc' = AfterFailure(attempt)
  /\ UNCHANGED <<wf, row, entry, up, walk, nodeRow, gates, req, approved, bounds>>

(* _dispatch_node_with_timeout: the thread is left behind. *)
LeaveGate ==
  /\ pc = "wait" /\ cur \in wf.limited
  /\ thread[<<cur, attempt>>] \notin {"passed", "raised"}
  /\ pc' = AfterFailure(attempt)
  /\ UNCHANGED <<wf, row, entry, up, walk, nodeRow, gates, req, approved, bounds>>

BugSkipsTargetsOnly(seed) == skipped \cup seed

(* _mark_downstream_skipped and the loop over the edges of a branch: the   *)
(* nodes reached from seed; a node that is skipped already is not entered. *)
MarkSkipped(seed) ==
  {m \in Nodes : \A S \in SUBSET Nodes :
     (skipped \cup seed \subseteq S /\ \A x \in S \ skipped : Succ(x) \subseteq S) => m \in S}

BugContinuesOnStop ==
  /\ pc = "failed"
  /\ nodeRow' = [nodeRow EXCEPT ![cur] = "failed"]
  /\ skipped' = IF wf.mode[cur] = "continue_with_error" THEN skipped ELSE MarkSkipped(Succ(cur))
  /\ outputs' = IF wf.mode[cur] = "continue_with_error" THEN outputs \cup {cur} ELSE outputs
  /\ pc' = "pick"
  /\ UNCHANGED <<wf, row, entry, up, todo, group, cur, attempt, verdict,
                 gates, req, approved, bounds>>

NodeFails ==
  /\ pc = "failed"
  /\ nodeRow' = [nodeRow EXCEPT ![cur] = "failed"]
  /\ IF wf.mode[cur] = "continue_with_error"
       THEN outputs' = outputs \cup {cur} /\ skipped' = skipped
       ELSE outputs' = outputs /\ skipped' = MarkSkipped(Succ(cur))
  /\ IF wf.mode[cur] = "stop"
       THEN verdict' = "failed" /\ pc' = "finish"
       ELSE verdict' = verdict /\ pc' = "pick"
  /\ UNCHANGED <<wf, row, entry, up, todo, group, cur, attempt, gates, req, approved, bounds>>

(* A conditional skips the targets of the edges that carry the other label. *)
OffBranch(label) ==
  IF wf.type[cur] # "conditional" THEN {}
  ELSE {m \in Nodes : \E h \in Handles \ {"any", label} : <<cur, h, m>> \in wf.edges}

NodeSucceeds ==
  /\ pc = "succeeded"
  /\ nodeRow' = [nodeRow EXCEPT ![cur] = "completed"]
  /\ outputs' = outputs \cup {cur}
  /\ \E label \in {"true", "false"} : skipped' = MarkSkipped(OffBranch(label))
  /\ pc' = "pick"
  /\ UNCHANGED <<wf, row, entry, up, todo, group, cur, attempt, verdict,
                 gates, req, approved, bounds>>

(* The loop is over, or was left: rows of skipped nodes, then the entry.   *)
Finish ==
  /\ pc = "finish" \/ (pc = "pick" /\ group = {})
  /\ nodeRow' = [n \in Nodes |-> IF n \in skipped /\ nodeRow[n] = "none" THEN "skipped"
                                                                         ELSE nodeRow[n]]
  /\ verdict' = IF verdict = "failed" THEN "failed" ELSE "completed"
  /\ UpdateStatus(verdict')
  /\ pc' = "save"
  /\ UNCHANGED <<wf, row, cancelled, up, todo, group, cur, attempt, skipped, outputs,
                 gates, req, approved, bounds>>

Save ==
  /\ pc = "save"
  /\ row' = verdict
  /\ pc' = "ended"
  /\ UNCHANGED <<wf, entry, up, walk, nodeRow, gates, req, approved, bounds>>

(* A statement of the walker fails outside its try: the thread dies.       *)
WalkerDies ==
  /\ pc \in {"pick", "failed", "succeeded", "finish", "save"} /\ faults < MaxFaults
  /\ faults' = faults + 1
  /\ pc' = "dead"
  /\ UNCHANGED <<wf, row, entry, up, walk, nodeRow, gates, req, approved, crashes>>

(* _cleanup_execution, five minutes after the end. *)
CleanupExecution ==
  /\ pc = "ended" /\ status # "none"
  /\ status' = "none" /\ cancelled' = FALSE
  /\ UNCHANGED <<wf, row, up, pc, walk, nodeRow, gates, req, approved, bounds>>

-----------------------------------------------------------------------------
(* The gate's handler, attempt t[2] of node t[1] *)

GoTo(t, place) == thread' = [thread EXCEPT ![t] = place]
Others == <<wf, row, up, pc, walk, nodeRow, req, approved>>

RegisterEvent(t) ==
  /\ thread[t] = "register"
  /\ events' = [events EXCEPT ![t[1]] = t[2]]
  /\ GoTo(t, "persist")
  /\ UNCHANGED <<Others, entry, isSet, flags, approval, bounds>>

(* The row of an earlier attempt stays: the pair is unique. *)
PersistApproval(t) ==
  /\ thread[t] = "persist"
  /\ approval' = [approval EXCEPT ![t[1]] = IF @ = "none" THEN "pending" ELSE @]
  /\ GoTo(t, "announce")
  /\ UNCHANGED <<Others, entry, events, isSet, flags, bounds>>

Announce(t) ==
  /\ thread[t] = "announce"
  /\ UpdateStatus("pending_approval")
  /\ GoTo(t, "waiting")
  /\ UNCHANGED <<Others, cancelled, events, isSet, flags, approval, bounds>>

(* Event.wait returns, and the event in the dictionary, this attempt's or  *)
(* a later one's, is removed.                                              *)
Wake(t) ==
  /\ thread[t] = "waiting"
  /\ GoTo(t, IF t \in isSet THEN "woken" ELSE "expired")
  /\ events' = [events EXCEPT ![t[1]] = 0]
  /\ UNCHANGED <<Others, entry, isSet, flags, approval, bounds>>

Expire(t) ==
  /\ thread[t] = "expired"
  /\ approval' = [approval EXCEPT ![t[1]] = IF @ = "none" THEN "none" ELSE "timed_out"]
  /\ UpdateStatus("running")
  /\ GoTo(t, "raised")
  /\ UNCHANGED <<Others, cancelled, events, isSet, flags, bounds>>

(* A statement of the handler fails: it raises, and leaves things as they are. *)
GateFails(t) ==
  /\ thread[t] \in {"persist", "expired"} /\ faults < MaxFaults
  /\ faults' = faults + 1
  /\ GoTo(t, "raised")
  /\ UNCHANGED <<Others, entry, events, isSet, flags, approval, crashes>>

BugIgnoresRejection(t) ==
  /\ thread[t] = "woken"
  /\ flags' = flags \ {t[1]}
  /\ UpdateStatus("running")
  /\ GoTo(t, "passed")
  /\ UNCHANGED <<Others, cancelled, events, isSet, approval, bounds>>

ReadAnswer(t) ==
  /\ thread[t] = "woken"
  /\ flags' = flags \ {t[1]}
  /\ UpdateStatus("running")
  /\ GoTo(t, IF t[1] \in flags THEN "raised" ELSE "passed")
  /\ UNCHANGED <<Others, cancelled, events, isSet, approval, bounds>>

-----------------------------------------------------------------------------
(* approve_node and reject_node take the event under the lock; it returns   *)
(* False, and nothing changes, when there is none.                          *)
Ask(r, n, kind) ==
  /\ req[r] = Idle /\ events[n] # 0
  /\ req' = [req EXCEPT ![r] = [kind |-> kind, target |-> <<n, events[n]>>]]
  /\ flags' = IF kind = "rejected" THEN flags \cup {n} ELSE flags
  /\ UNCHANGED <<wf, row, entry, up, pc, walk, nodeRow, thread, events, isSet,
                 approval, approved, bounds>>

Held(r)   == req[r].kind \in {"approved", "rejected"}
Done(r)   == req' = [req EXCEPT ![r] = [kind |-> "done", target |-> NoNode]]

(* The row is updated if there is one, then the event is set. *)
Answer(r) ==
  /\ Held(r)
  /\ LET n == req[r].target[1] IN
       /\ approval' = [approval EXCEPT ![n] = IF @ = "none" THEN "none" ELSE req[r].kind]
       /\ approved' = IF req[r].kind = "approved" THEN approved \cup {n} ELSE approved
  /\ isSet' = isSet \cup {req[r].target}
  /\ Done(r)
  /\ UNCHANGED <<wf, row, entry, up, pc, walk, nodeRow, thread, events, flags, bounds>>

AnswerFails(r) ==
  /\ Held(r) /\ faults < MaxFaults
  /\ faults' = faults + 1
  /\ Done(r)
  /\ UNCHANGED <<wf, row, entry, up, pc, walk, nodeRow, gates, approved, crashes>>

-----------------------------------------------------------------------------
(* The process dies with its threads, dictionaries and requests. *)
Crash ==
  /\ up /\ crashes < MaxCrashes
  /\ up' = FALSE /\ crashes' = crashes + 1
  /\ status' = "none" /\ cancelled' = FALSE
  /\ pc' = IF pc = "none" THEN "none" ELSE "lost"
  /\ thread' = [t \in Threads |-> "none"]
  /\ events' = [n \in Nodes |-> 0] /\ isSet' = {} /\ flags' = {}
  /\ req' = [r \in Requests |-> IF Held(r) THEN [kind |-> "done", target |-> NoNode]
                                           ELSE req[r]]
  /\ UNCHANGED <<wf, row, walk, nodeRow, approval, approved, faults>>

BugRestartLeavesRow ==
  /\ ~up
  /\ up' = TRUE
  /\ approval' = [n \in Nodes |-> IF approval[n] = "pending" THEN "timed_out" ELSE approval[n]]
  /\ UNCHANGED <<wf, row, entry, pc, walk, nodeRow, thread, events, isSet, flags,
                 req, approved, bounds>>

(* cleanup_stale_executions *)
Restart ==
  /\ ~up
  /\ up' = TRUE
  /\ row' = IF row = "running" THEN "failed" ELSE row
  /\ approval' = [n \in Nodes |-> IF approval[n] = "pending" THEN "timed_out" ELSE approval[n]]
  /\ UNCHANGED <<wf, entry, pc, walk, nodeRow, thread, events, isSet, flags,
                 req, approved, bounds>>

-----------------------------------------------------------------------------
Walker == \/ TimeOut \/ StopCancelled \/ RunHandler \/ StartGate \/ JoinGate \/ LeaveGate
          \/ NodeFails \/ NodeSucceeds \/ Finish \/ Save
          \/ \E n \in Nodes : SkipNode(n) \/ StartNode(n)
Gate(t) == \/ RegisterEvent(t) \/ PersistApproval(t) \/ Announce(t) \/ Wake(t)
           \/ Expire(t) \/ ReadAnswer(t)
Api(r)  == \/ \E n \in Nodes, kind \in {"approved", "rejected"} : Ask(r, n, kind)
           \/ Answer(r) \/ AnswerFails(r)

Next == \/ ExecuteWorkflow \/ CancelExecution \/ Walker \/ WalkerDies \/ CleanupExecution
        \/ \E t \in Threads : Gate(t) \/ GateFails(t)
        \/ \E r \in Requests : Api(r)
        \/ Crash \/ Restart

Spec == Init /\ [][Next]_vars

(* Threads run, a wait for an approval has a timeout (node_executor:475),    *)
(* and the service manager starts the server again. Nobody has to answer.    *)
FairSpec == /\ Spec /\ WF_vars(Walker) /\ WF_vars(Restart)
            /\ \A t \in Threads : WF_vars(Gate(t))

-----------------------------------------------------------------------------
RowStates == {"none", "running", "completed", "failed", "cancelled"}

TypeOK ==
  /\ wf \in Workflows
  /\ row \in RowStates /\ status \in RowStates \cup {"pending_approval"}
  /\ cancelled \in BOOLEAN /\ up \in BOOLEAN
  /\ pc \in {"none", "pick", "dispatch", "wait", "failed", "succeeded", "finish", "save",
             "ended", "dead", "lost"}
  /\ todo \subseteq Nodes /\ group \subseteq todo
  /\ cur \in Nodes \cup {NoNode} /\ attempt \in 0..MaxAttempts
  /\ skipped \subseteq Nodes /\ outputs \subseteq Nodes
  /\ verdict \in {"none", "completed", "failed", "cancelled"}
  /\ nodeRow \in [Nodes -> {"none", "running", "completed", "failed", "skipped"}]
  /\ thread \in [Threads -> {"none", "register", "persist", "announce", "waiting", "woken",
                             "expired", "passed", "raised"}]
  /\ events \in [Nodes -> 0..MaxAttempts] /\ isSet \subseteq Threads /\ flags \subseteq Nodes
  /\ approval \in [Nodes -> {"none", "pending", "approved", "rejected", "timed_out"}]
  /\ req \in [Requests -> [kind : {"none", "done"}, target : {NoNode}]
                     \cup [kind : {"approved", "rejected"}, target : Threads]]
  /\ approved \subseteq Nodes
  /\ crashes \in 0..MaxCrashes /\ faults \in 0..MaxFaults

(* A node is executed only when every one of its predecessors has handed on  *)
(* an output, its result or, with continue_with_error, its error: however    *)
(* failures, branches and retries follow each other, no node runs on the     *)
(* empty message that stands for a predecessor without output (line 461).    *)
NodeHasInputs ==
  \A n \in Nodes : nodeRow[n] \in {"running", "completed", "failed"} => Pred(n) \subseteq outputs

(* A row that says completed has gone through the whole graph: every node    *)
(* has a verdict of its own, none that stops the workflow has failed, and    *)
(* what depends on a node without an output was skipped.                     *)
CompletedIsWhole ==
  row = "completed" =>
    \A n \in Nodes :
      /\ nodeRow[n] \in {"completed", "failed", "skipped"}
      /\ nodeRow[n] = "failed" => wf.mode[n] # "stop"
      /\ n \notin outputs => \A m \in Succ(n) : nodeRow[m] = "skipped"

(* A gate lets the workflow pass only if somebody approved it: neither a     *)
(* timeout, a rejection, a restart nor a retry opens it. Gates with a        *)
(* timeout of their own are excepted: see EveryGateNeedsApproval.            *)
GateNeedsApproval ==
  \A n \in Nodes \ wf.limited : (IsGate(n) /\ nodeRow[n] = "completed") => n \in approved

(* reject_node, line 895: "Sets a rejection flag and the threading.Event so  *)
(* the approval gate node sees the rejection and raises an error, aborting   *)
(* downstream nodes": no gate passes unless somebody approved it.            *)
EveryGateNeedsApproval ==
  \A n \in Nodes : (IsGate(n) /\ nodeRow[n] = "completed") => n \in approved

(* Once the walk has ended, the status that is polled and streamed is the    *)
(* row's, unless a gate's thread was left behind and still writes to it.     *)
VerdictShown ==
  (pc = "ended" /\ status # "none" /\ \A n \in wf.limited : ~IsGate(n)) => status = row

(* The rows tell what Workflow says: each node is executed at most once, one *)
(* at a time and in the order of the graph, and nothing changes behind the   *)
(* verdict, which a thread left behind or a restart might do.                *)
Contract == INSTANCE Workflow WITH before <- [n \in Nodes |-> Pred(n)], node <- nodeRow
IsWorkflow == Contract!Spec

(* An execution does not stay running: nobody has to answer a gate, and a    *)
(* crash is cleaned up by the restart. Only a walker that dies on a failing  *)
(* statement leaves its row, until the next restart.                         *)
ExecutionEnds == row = "running" ~> (row # "running" \/ pc = "dead")
=============================================================================
