SPECIFICATION FairSpec
CONSTANTS
    user1 = user1
    user2 = user2
    spawn1 = spawn1
    interrupt1 = interrupt1
    mail1 = mail1
    trigger1 = trigger1
    trigger2 = trigger2
    steer1 = steer1
    inject1 = inject1
    try1 = try1
    goal1 = goal1
    abort1 = abort1
    LOOP = LOOP
    GOAL = GOAL
    Rejected = Rejected
    None = None
    Ops = {user1, user2, spawn1, interrupt1, steer1, mail1, trigger1, trigger2, try1}
    OpKind <- Kinds
    Sessions <- MCSessions
    MaxTurns = 6
    MaxStates = 5
    MaxRounds = 1
    MaxGoals = 0
INVARIANTS
    TurnInv
    InputConserved
    SteerRecordedBeforeComplete
PROPERTIES
    EveryTurnEnds
    InputSettles
CHECK_DEADLOCK FALSE
