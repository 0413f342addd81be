SPECIFICATION FilesSpec
CONSTANTS
    Workers = {w1, w2}
    Appenders = {a1, a2}
    Readers = {r1, r2}
    Creators = {}
    MaxRetries = 3
    MaxFiles = 3
    MaxRuns = 4
    MaxCrashes = 1
SYMMETRY Symmetry
INVARIANTS
    RolloutInv
    ReadersServed
CHECK_DEADLOCK FALSE
