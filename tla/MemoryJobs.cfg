SPECIFICATION LiveSpec
CONSTANTS
    Threads = {t1}
    Workers = {w1, w2}
    Consolidators = {c1, c2}
    Tokens = {k1, k2, k3, k4, k5, k6, k7}
    Global = Global
    NoToken = NoToken
    NoRow = NoRow
    MaxSource = 2
    MaxRunning = 1
    MaxSelected = 1
    Retries = 1
    MaxActive = 2
    MaxFaults = 1
    MaxResets = 1
    QuietResets = TRUE
INVARIANTS
    JobsInv
PROPERTIES
    WatermarkAdvances
    JobsAreLeases
    ReachedThreadsSettle
    UnwantedIsForgotten
CHECK_DEADLOCK FALSE
