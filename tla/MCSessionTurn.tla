--------------------------- MODULE MCSessionTurn ---------------------------
(* Instances of SessionTurn for TLC. *)
EXTENDS SessionTurn, TLC

CONSTANTS user1, user2, spawn1, interrupt1, mail1, trigger1, trigger2, steer1,
          inject1, try1, goal1, abort1

Kinds == [o \in Ops |->
    CASE o \in {user1, user2} -> "user"
      [] o = spawn1 -> "spawn"
      [] o = interrupt1 -> "interrupt"
      [] o = mail1 -> "mail"
      [] o \in {trigger1, trigger2} -> "trigger"
      [] o = steer1 -> "steer"
      [] o = inject1 -> "inject"
      [] o = try1 -> "try_start"
      [] o = goal1 -> "goal_stop"
      [] o = abort1 -> "abort_turn"]

\* Turns that a client starts, steers and interrupts; mail between agents.
MCSessions ==
    {{user1, spawn1, interrupt1, steer1}, {user1, user2, interrupt1, steer1},
     {user1, user2, spawn1}, {user1, mail1, steer1}, {mail1, trigger1, trigger2, try1}}

\* With a goal: mail, and everything else that reserves or takes the active turn.
GoalSessions ==
    {{trigger1, trigger2, try1, goal1},
     {try1, interrupt1, inject1, goal1, abort1, mail1}}

\* Two clients' input and mail that asks for a turn.
StarterSessions == {{user1, user2, trigger1}}

=============================================================================
