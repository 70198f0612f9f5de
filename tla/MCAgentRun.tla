------------------------------ MODULE MCAgentRun ------------------------------
(* The four cameras of the example configuration, the goal being about the    *)
(* first; proposals of the model that are too many, out of range, twice about *)
(* one stream, or about the goal camera.                                      *)
EXTENDS AgentRun

MCPriority == <<"high", "normal", "low", "low">>

SetInterval(s, n) == [kind |-> "interval", stream |-> s, value |-> n]
SetPriority(s, p) == [kind |-> "priority", stream |-> s, value |-> p]

MCLlmAnswers ==
  {<<>>,
   <<SetInterval(1, 1), SetInterval(4, 9), SetInterval(4, 0), SetPriority(2, "low"),
     SetInterval(3, 1)>>,
   <<SetPriority(3, "normal"), SetInterval(1, -1)>>}
=============================================================================
