--------------------------- MODULE MCRolloutRecorder ---------------------------
(* The rollout recorder for TLC: a turn, and the handlers beside it. *)
EXTENDS RolloutRecorder

CONSTANTS turn, handler

MCCallers == {turn, handler}
MCCalls == [c \in MCCallers |-> IF c = turn THEN {"append"}
                                ELSE {"flush", "persist", "shutdown", "memory"}]
================================================================================
