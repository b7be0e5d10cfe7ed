---------------------------- MODULE MCAgentLink -----------------------------
(* An instance of AgentLink for TLC.                                       *)
EXTENDS AgentLink

CONSTANTS one, two

TwoHandlers == {one, two}
=============================================================================
