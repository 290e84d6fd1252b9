----------------------------- MODULE MCAgentRpc -----------------------------
(* AgentRpc on small instances. *)
EXTENDS AgentRpc
=============================================================================
