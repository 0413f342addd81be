SPECIFICATION FairSpec
CONSTANTS
    Streams = {s1, s2}
    Sizes = {0, 1, 3}
    Capacity = 2
    MaxMessages = 3
    MaxDrops = 2
INVARIANTS
    BufferInv
PROPERTIES
    ImplementsReliableStreams
    QueueDrains
CHECK_DEADLOCK FALSE
