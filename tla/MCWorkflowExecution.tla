------------------------- MODULE MCWorkflowExecution -------------------------
(* WorkflowExecution for TLC, on one graph per shape: a conditional, one of  *)
(* whose branches joins the other behind a node that may fail; a node with   *)
(* two predecessors; a gate with a retry in front of two nodes; the same     *)
(* with a node timeout; a cycle, which is refused.                           *)
EXTENDS WorkflowExecution, TLC
CONSTANTS a, b, c, r1, r2
MCNodes == {a, b, c}
MCSymmetry == Permutations({r1, r2})

Steps == [n \in MCNodes |-> "step"]
Once  == [n \in MCNodes |-> 0]

Branches(m) ==
  [edges |-> {<<a, "true", b>>, <<a, "false", c>>, <<b, "any", c>>},
   type |-> [Steps EXCEPT ![a] = "conditional"],
   mode |-> [n \in MCNodes |-> IF n = b THEN m ELSE "stop"],
   retries |-> [Once EXCEPT ![b] = 1], limited |-> {b}]

Parallel(m) ==
  [Branches(m) EXCEPT !.edges = {<<a, "false", b>>, <<a, "any", c>>}]

Join(m) ==
  [Branches(m) EXCEPT !.edges = {<<a, "any", b>>, <<a, "any", c>>, <<b, "any", c>>},
                      !.type = Steps]

Gated(m, lim) ==
  [edges |-> {<<a, "any", b>>, <<b, "any", c>>},
   type |-> [Steps EXCEPT ![a] = "approval_gate"],
   mode |-> [n \in MCNodes |-> IF n = a THEN m ELSE "stop"],
   retries |-> [Once EXCEPT ![a] = 1], limited |-> lim]

Cycle == [Gated("stop", {}) EXCEPT !.edges = @ \cup {<<c, "any", a>>}]

MCWorkflows == {Branches("continue"), Branches("continue_with_error"), Parallel("stop"),
                Join("continue"), Gated("stop", {}),
                [Gated("continue", {a}) EXCEPT !.retries = Once], Cycle}
MCLimited   == {Gated("stop", {a})}
=============================================================================
