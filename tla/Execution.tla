------------------------------ MODULE Execution ------------------------------
(***************************************************************************)
(* What the rest of the system may rely on of one execution, whatever      *)
(* threads, requests, timers, signals and restarts are behind it: it is    *)
(* opened once, its agent is launched at most once and only while it is    *)
(* open, and it is concluded at most once. Nothing reopens it and no agent *)
(* is launched for it afterwards. Unless the runner has abandoned its      *)
(* agent, it is not concluded while the agent lives, and success means     *)
(* that the agent has ended well. An execution may stay open for ever: the *)
(* server died.                                                            *)
(***************************************************************************)
CONSTANT Verdicts   \* statuses that are final; "success" is one of them

VARIABLES status,    \* "none", "open" or a verdict
          agent,     \* "none", "live", or how it ended: "ok", "bad"
          abandoned  \* nobody waits for the agent any more

vars == <<status, agent, abandoned>>

Init == status = "none" /\ agent = "none" /\ abandoned = FALSE

Open ==
  /\ status = "none" /\ status' = "open"
  /\ UNCHANGED <<agent, abandoned>>

Launch ==
  /\ status = "open" /\ agent = "none"
  /\ agent' = "live"
  /\ UNCHANGED <<status, abandoned>>

AgentEnds ==
  /\ agent = "live" /\ agent' \in {"ok", "bad"}
  /\ UNCHANGED <<status, abandoned>>

Abandon ==
  /\ status = "open" /\ agent # "none"
  /\ abandoned' = TRUE
  /\ UNCHANGED <<status, agent>>

Conclude(v) ==
  /\ status = "open" /\ status' = v
  /\ abandoned \/ agent # "live"
  /\ v = "success" => agent = "ok" /\ ~abandoned
  /\ UNCHANGED <<agent, abandoned>>

Next == Open \/ Launch \/ AgentEnds \/ Abandon \/ \E v \in Verdicts : Conclude(v)

Spec == Init /\ [][Next]_vars
=============================================================================
