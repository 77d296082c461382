----------------------- MODULE MCExecutionLifecycle ------------------------
(* ExecutionLifecycle for TLC. Requests are model values; the safety         *)
(* properties do not tell them apart, the liveness properties are checked    *)
(* without symmetry.                                                         *)
EXTENDS ExecutionLifecycle
=============================================================================
