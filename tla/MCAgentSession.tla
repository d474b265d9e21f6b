--------------------------- MODULE MCAgentSession ---------------------------
(* A small instance for AgentSession. *)
EXTENDS AgentSession

CONSTANTS d1, d2

TwoDestinations == {d1, d2}
=============================================================================
