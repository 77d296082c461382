-------------------------- MODULE MCExecutionRetry --------------------------
(* ExecutionRetry for TLC: the constants are numbers, given in the .cfg      *)
(* files. Two slots already give two concurrent callers, a caller and a      *)
(* callback, two callbacks, and a trigger that gives up (MaxAttempts = 1).   *)
EXTENDS ExecutionRetry
=============================================================================
