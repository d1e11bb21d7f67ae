------------------------- MODULE MCAgentConnection -------------------------
(* Small instances of the agent connection: the bounds are in the .cfg.    *)
EXTENDS AgentConnection
============================================================================
