------------------------------- MODULE Workflow -------------------------------
(***************************************************************************)
(* What somebody who reads the rows of a workflow execution may rely on,   *)
(* whatever threads, gates, retries, requests, crashes and restarts are    *)
(* behind them: nodes are executed one at a time, each at most once and    *)
(* after all the nodes before it have ended and handed something on; the   *)
(* verdict is written once, only a failure leaves a node running, and      *)
(* "completed" leaves no node without an end. Afterwards nothing changes.  *)
(***************************************************************************)
CONSTANT Nodes

VARIABLES before,  \* per node: the nodes it depends on
          row,     \* "none", "running" or the verdict
          node     \* per node: "none", "running", how it ended, or "skipped"

vars == <<before, row, node>>

Ended   == {"completed", "failed"}
Settled == Ended \cup {"skipped"}
Quiet   == \A n \in Nodes : node[n] # "running"

Init ==
  /\ before \in [Nodes -> SUBSET Nodes]
  /\ row = "none" /\ node = [n \in Nodes |-> "none"]

Open ==
  /\ row = "none" /\ row' = "running"
  /\ UNCHANGED <<before, node>>

Start(n) ==
  /\ row = "running" /\ Quiet
  /\ node[n] = "none" /\ \A m \in before[n] : node[m] \in Ended
  /\ node' = [node EXCEPT ![n] = "running"]
  /\ UNCHANGED <<before, row>>

End(n) ==
  /\ row = "running" /\ node[n] = "running"
  /\ \E how \in Ended : node' = [node EXCEPT ![n] = how]
  /\ UNCHANGED <<before, row>>

Skip(S) ==
  /\ row = "running" /\ Quiet
  /\ \A n \in S : node[n] = "none"
  /\ node' = [n \in Nodes |-> IF n \in S THEN "skipped" ELSE node[n]]
  /\ UNCHANGED <<before, row>>

Conclude(verdict) ==
  /\ row = "running" /\ row' = verdict
  /\ verdict # "failed" => Quiet
  /\ verdict = "completed" => \A n \in Nodes : node[n] \in Settled
  /\ UNCHANGED <<before, node>>

Next ==
  \/ Open
  \/ \E n \in Nodes : Start(n) \/ End(n)
  \/ \E S \in SUBSET Nodes : Skip(S)
  \/ \E verdict \in {"completed", "failed", "cancelled"} : Conclude(verdict)

Spec == Init /\ [][Next]_vars
=============================================================================
