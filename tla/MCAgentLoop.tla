---------------------------- MODULE MCAgentLoop ----------------------------
(* Instance of AgentLoop for TLC. *)
EXTENDS AgentLoop, TLC

\* A tool that polls and one that does not.
MCTools    == {"scheduler", "filesystem"}
MCPollLike == {"scheduler"}

\* Nothing tells the executions apart.
ExecSymmetry == Permutations(Execs)
=============================================================================
