---------------------------- MODULE MCAgentHarness ----------------------------
(* AgentHarness with the caller restricted to what touches the transcript, so  *)
(* that the bounds of the runs about tool calls can be larger; the run itself  *)
(* is never restricted.                                                        *)
EXTENDS AgentHarnessProofs

ToolCaller == Prompt \/ Continue \/ Steer \/ Cancel \/ AppendMessage \/ ReplaceMessages
ToolSpec == Init /\ [][Step \/ Close \/ ToolCaller]_vars
=============================================================================
