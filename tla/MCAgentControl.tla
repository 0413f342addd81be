--------------------------- MODULE MCAgentControl ---------------------------
(* Instances of AgentControl for TLC. *)
EXTENDS AgentControl

\* A resume runs alone; any other two calls may be in flight together.
AllButResume == SUBSET {"spawn", "input", "close"}
=============================================================================
