-------------------------- MODULE MCCircuitBreaker --------------------------
(* CircuitBreaker for TLC. The threads are not interchanged by symmetry,     *)
(* because the run checks a liveness property; three of them are enough to   *)
(* have an old execution report before, during and after a trial.            *)
EXTENDS CircuitBreakerProofs
CONSTANTS x1, x2, x3
MCExecutions == {x1, x2, x3}
=============================================================================
