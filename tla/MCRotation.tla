------------------------------ MODULE MCRotation ------------------------------
(* Rotation for TLC: an execution, its continuation, and the continuation of *)
(* that.                                                                     *)
EXTENDS Rotation
=============================================================================
