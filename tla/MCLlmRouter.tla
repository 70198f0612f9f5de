------------------------------ MODULE MCLlmRouter ------------------------------
(* Two workers, one queue of two places, the two providers. *)
EXTENDS LlmRouter

CONSTANTS w1, w2

MCWorkers == {w1, w2}
\* One priority of each provider.
MCPriorities == {High, Low}
AllPriorities == {High, Normal, Low}
=============================================================================
