-------------------------- MODULE MCExecutionQueue --------------------------
(* ExecutionQueue for TLC. Rows are numbered by age, so only handlers and    *)
(* triggers are interchangeable.                                             *)
EXTENDS ExecutionQueue, TLC

CONSTANTS t1, t2, h1, h2

MCTwoTriggers == {t1, t2}
MCOneTrigger  == {t1}
MCTwoHandlers == {h1, h2}
MCOneHandler  == {h1}
MCNoCaps      == {}
MCCaps        == {2}

MCHandlerSymmetry == Permutations(MCTwoHandlers)
=============================================================================
