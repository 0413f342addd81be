CONSTANTS
    turn = turn
    handler = handler
    Callers <- MCCallers
    Calls <- MCCalls
    MaxItems = 2
    Capacity = 1
    MaxFaults = 2
    TouchItems = {2}
SPECIFICATION FairSpec
INVARIANTS
    RecorderInv
    FlushedIsOnDisk
    
PROPERTIES
    CallsReturn
CHECK_DEADLOCK FALSE
