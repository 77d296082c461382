------------------------------ MODULE JobQueue ------------------------------
(***************************************************************************)
(* What the execution queue promises, without tables, snapshots or         *)
(* threads: a submitted job waits, is started at most Limit at a time for  *)
(* its owner, and ends; a job that was running when the server went down   *)
(* waits again (it may run twice, never zero times because of a crash); a  *)
(* waiting job may be withdrawn; a job that ended or was withdrawn is      *)
(* never heard of again.                                                   *)
(***************************************************************************)
EXTENDS Integers, FiniteSets

CONSTANTS Jobs, Owners, NoOwner

VARIABLES state, owner, limit

vars == <<state, owner, limit>>

RunningOf(o) == {j \in Jobs : owner[j] = o /\ state[j] = "running"}

Init ==
  /\ state = [j \in Jobs |-> "new"]
  /\ owner = [j \in Jobs |-> NoOwner]
  /\ limit \in [Owners -> Nat]

Submit(j, o) ==
  /\ state[j] = "new"
  /\ state' = [state EXCEPT ![j] = "waiting"]
  /\ owner' = [owner EXCEPT ![j] = o]
  /\ UNCHANGED limit

Withdraw(o) ==
  /\ state' = [j \in Jobs |-> IF owner[j] = o /\ state[j] = "waiting"
                              THEN "withdrawn" ELSE state[j]]
  /\ UNCHANGED <<owner, limit>>

Start(j) ==
  /\ state[j] = "waiting"
  /\ Cardinality(RunningOf(owner[j])) < limit[owner[j]]
  /\ state' = [state EXCEPT ![j] = "running"]
  /\ UNCHANGED <<owner, limit>>

End(j) ==
  /\ state[j] = "running"
  /\ state' = [state EXCEPT ![j] = "done"]
  /\ UNCHANGED <<owner, limit>>

Recover ==
  /\ state' = [j \in Jobs |-> IF state[j] = "running" THEN "waiting" ELSE state[j]]
  /\ UNCHANGED <<owner, limit>>

RaiseLimit(o) ==
  /\ limit' \in [Owners -> Nat] /\ limit'[o] > limit[o]
  /\ \A p \in Owners \ {o} : limit'[p] = limit[p]
  /\ UNCHANGED <<state, owner>>

Next ==
  \/ \E j \in Jobs : Start(j) \/ End(j) \/ \E o \in Owners : Submit(j, o)
  \/ \E o \in Owners : Withdraw(o) \/ RaiseLimit(o)
  \/ Recover

Spec == Init /\ [][Next]_vars
=============================================================================
