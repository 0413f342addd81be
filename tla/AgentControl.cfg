SPECIFICATION ControlLiveSpec
CONSTANTS
    Agents = {t1, t2}
    Calls = {c1, c2}
    Root = root
    max_threads = 2
    Overlap <- AllButResume
    MaxInstances = 2
    MaxCalls = 5
    MaxFaults = 1
INVARIANTS
    ControlInv
PROPERTIES
    SlotsLostOnlyByResume
    ClosedStaysClosed
    CallsReturn
CHECK_DEADLOCK FALSE
