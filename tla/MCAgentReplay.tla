--------------------------- MODULE MCAgentReplay ---------------------------
(* Small instances of AgentReplay for TLC. *)
EXTENDS AgentReplay
===========================================================================
