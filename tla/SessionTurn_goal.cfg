SPECIFICATION FairSpec
CONSTANTS
    user1 = user1
    user2 = user2
    spawn1 = spawn1
    interrupt1 = interrupt1
    mail1 = mail1
    trigger1 = trigger1
    trigger2 = trigger2
    steer1 = steer1
    inject1 = inject1
    try1 = try1
    goal1 = goal1
    abort1 = abort1
    LOOP = LOOP
    GOAL = GOAL
    Rejected = Rejected
    None = None
    Ops = {trigger1, trigger2, interrupt1, inject1, try1, goal1, abort1, mail1}
    OpKind <- Kinds
    Sessions <- GoalSessions
    MaxTurns = 4
    MaxStates = 5
    MaxRounds = 0
    MaxGoals = 1
INVARIANTS
    TurnsApart
PROPERTIES
    SessionGoesIdle
CHECK_DEADLOCK FALSE
