-------------------------- MODULE MCAgentRegistry --------------------------
(* Instances of AgentRegistry for TLC. *)
EXTENDS AgentRegistry

CONSTANTS limited, unlimited, n1, n2

MCCandidateLists == {{n1}, {n1, n2}}
MCPreferred == {<<n1, 0>>}

\* One caller passes a limit, the other is configured without one.
Limits == [p \in Spawners |-> IF p = unlimited THEN Unlimited ELSE 1]
=============================================================================
