CONSTANTS
    Calls = {1, 2}
    NetCalls = {1}
    RemoteCalls = {1}
    Ids = {i1, i2}
    MaxProcesses = 1
    Protected = 0
    MaxInputs = 2
    NoCall = NoCall
    NoId = NoId
SPECIFICATION FairSpec
INVARIANTS
    StoreInv
    NoOrphan
PROPERTIES
    InterruptSparesWaiting
    CommandsEnd
CHECK_DEADLOCK FALSE
