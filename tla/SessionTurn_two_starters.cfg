SPECIFICATION Spec
CONSTANTS
    user1 = user1
    user2 = user2
    spawn1 = spawn1
    interrupt1 = interrupt1
    mail1 = mail1
    trigger1 = trigger1
    trigger2 = trigger2
    steer1 = steer1
    inject1 = inject1
    try1 = try1
    goal1 = goal1
    abort1 = abort1
    LOOP = LOOP
    GOAL = GOAL
    Rejected = Rejected
    None = None
    Ops = {user1, user2, trigger1}
    OpKind <- Kinds
    Sessions <- StarterSessions
    MaxTurns = 4
    MaxStates = 4
    MaxRounds = 0
    MaxGoals = 0
INVARIANTS
    StartFindsNoTask
CHECK_DEADLOCK FALSE
