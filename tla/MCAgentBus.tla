----------------------------- MODULE MCAgentBus -----------------------------
(* A client and the device, queues of two messages, two lost links.        *)
EXTENDS AgentBus
=============================================================================
