SPECIFICATION LiveSpec
CONSTANTS
    Requests = {1, 2, 3}
    Calls = {1, 2}
    Hosts = {h1}
    None = None
    MaxTasks = 4
INVARIANTS
    ApprovalInv
PROPERTIES
    RequestsAnswered
CHECK_DEADLOCK FALSE
