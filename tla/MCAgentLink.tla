---------------------------- MODULE MCAgentLink ----------------------------
(* AgentLink on small instances. *)
EXTENDS AgentLink
=============================================================================
