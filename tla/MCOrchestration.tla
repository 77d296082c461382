--------------------------- MODULE MCOrchestration ---------------------------
(* Orchestration for TLC. One account, because accounts share nothing but    *)
(* the chain that names them; a chain that reaches it by id and then through *)
(* pick_best_account; and a trigger without a chain. Workers are alike, and  *)
(* so are pollers.                                                           *)
EXTENDS Orchestration, TLC
CONSTANTS a1, w1, w2, p1, p2
MCAccounts == {a1}
MCWorkers  == {w1, w2}
MCPollers  == {p1, p2}
MCChains   == {<<a1, AnyAccount>>, << >>}
MCSymmetry == Permutations(MCWorkers) \cup Permutations(MCPollers)
=============================================================================
