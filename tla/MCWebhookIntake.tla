--------------------------- MODULE MCWebhookIntake ---------------------------
(* WebhookIntake for TLC: one trigger of each kind, a payload, a pull        *)
(* request, a comment. Handlers and jobs are interchangeable.                *)
EXTENDS WebhookIntake, TLC

CONSTANTS t, s, h1, h2, j1, j2, p1
MCTriggers == {t, s}
MCSessions == {s}
MCHandlers == {h1, h2}
MCJobs     == {j1, j2}
MCPayloads == {p1}
MCSymmetry == Permutations(MCHandlers) \cup Permutations(MCJobs)
=============================================================================
